--------------------------- MODULE SessionProofs ---------------------------
(***************************************************************************)
(* Proofs about SessionTokens for any users, any number of handlers and    *)
(* tokens, every configuration and any number of failures.                 *)
(***************************************************************************)
EXTENDS SessionTokens, FiniteSetTheorems, TLAPS

Accounts == [exists : BOOLEAN, pw : Nat, verified : BOOLEAN]
Sessions == [status : {"none", "live", "expired", "revoked"},
             user : Users \cup {Nobody}, family : 0..MaxRefresh, gen : Nat]
OneTimes == [status : {"none", "unsent", "live", "expired", "revoked", "used"},
             kind : Kinds, user : Users \cup {Nobody}, uses : Nat]
Handlers == [pc : Steps, user : Users \cup {Nobody}, old : Nat, new : 0..MaxRefresh,
             gen : Nat, kind : Kinds, session : BOOLEAN]

\* Handlers and rows that are there belong to users.
UserInv ==
    /\ \A r \in Requests : req[r].pc # "idle" => req[r].user \in Users
    /\ \A t \in Issued : refresh[t].user \in Users
    /\ \A o \in Created : onetime[o].user \in Users

\* What handlers of sessions and of one-time tokens hold on to.
HandInv ==
    /\ \A r \in Requests : req[r].pc \in {"reissue", "retire", "revoke"} => req[r].old \in held
    /\ \A r \in Requests : req[r].pc = "retire" => req[r].new \in Issued
    /\ \A r \in Requests : req[r].pc \in {"commit", "markUser", "markToken"} =>
          /\ req[r].old \in Created /\ onetime[req[r].old].user = req[r].user
          /\ onetime[req[r].old].kind = (IF req[r].pc = "commit" THEN "reset" ELSE "verify")

\* Rows are numbered without gaps, and a family is the number of a row.
NumberInv ==
    /\ \E n \in Nat : Issued = 1..n
    /\ \E n \in Nat : Created = 1..n
    /\ \A t \in Issued : Family(t) \in Issued

-----------------------------------------------------------------------------
(* Types.                                                                  *)

LEMMA IdleType == Idle \in Handlers /\ Idle.pc = "idle"
  BY SessionAssumption DEF Idle, Handler, Handlers, Steps, Kinds

LEMMA HandlerType ==
    ASSUME NEW pc \in Steps, NEW u \in Users, NEW t \in Nat, NEW gen \in Nat
    PROVE  Handler(pc, u, t, gen) \in Handlers
  BY SessionAssumption DEF Handler, Handlers, Kinds

LEMMA CreatingType ==
    ASSUME NEW pc \in Steps, NEW u \in Users, NEW gen \in Nat, NEW kind \in Kinds,
           NEW session \in BOOLEAN
    PROVE  Creating(pc, u, gen, kind, session) \in Handlers
  BY SessionAssumption DEF Creating, Handlers

\* A handler takes a step, the others none.
LEMMA GoType ==
    ASSUME TypeOK, NEW r \in Requests, NEW next \in Handlers, req' = [req EXCEPT ![r] = next]
    PROVE  /\ req' \in [Requests -> Handlers] /\ req'[r] = next
           /\ \A q \in Requests \ {r} : req'[q] = req[q]
  BY DEF TypeOK, Handlers

LEMMA GoStep ==
    ASSUME TypeOK, NEW r \in Requests, NEW s \in Steps,
           req' = [req EXCEPT ![r] = [@ EXCEPT !.pc = s]]
    PROVE  /\ req' \in [Requests -> Handlers]
           /\ req'[r].pc = s /\ req'[r].user = req[r].user /\ req'[r].old = req[r].old
           /\ req'[r].new = req[r].new /\ req'[r].gen = req[r].gen
           /\ req'[r].kind = req[r].kind /\ req'[r].session = req[r].session
           /\ \A q \in Requests \ {r} : req'[q] = req[q]
<1>1. req[r] \in Handlers  BY DEF TypeOK, Handlers
<1>2. /\ [req[r] EXCEPT !.pc = s] \in Handlers
      /\ [req[r] EXCEPT !.pc = s].pc = s /\ [req[r] EXCEPT !.pc = s].user = req[r].user
      /\ [req[r] EXCEPT !.pc = s].old = req[r].old /\ [req[r] EXCEPT !.pc = s].new = req[r].new
      /\ [req[r] EXCEPT !.pc = s].gen = req[r].gen /\ [req[r] EXCEPT !.pc = s].kind = req[r].kind
      /\ [req[r] EXCEPT !.pc = s].session = req[r].session
  BY <1>1 DEF Handlers
<1>3. req' = [req EXCEPT ![r] = [req[r] EXCEPT !.pc = s]]  OBVIOUS
<1> QED  BY <1>2, <1>3, GoType

LEMMA FreshToken ==
    ASSUME TypeOK, NumberInv, NEW t \in Tokens, NextId(t)
    PROVE  t \notin Issued /\ \E n \in Nat : Issued \cup {t} = 1..n
<1>1. PICK n \in Nat : Issued = 1..n  BY DEF NumberInv
<1>2. Cardinality(1..n) = n  BY FS_Interval
<1>3. t = n + 1  BY <1>1, <1>2 DEF NextId
<1>4. 1..(n + 1) = (1..n) \cup {t}  BY <1>3
<1> QED  BY <1>1, <1>3, <1>4

LEMMA FreshOneTime ==
    ASSUME TypeOK, NumberInv, NEW o \in OneTime, o = Cardinality(Created) + 1
    PROVE  o \notin Created /\ \E n \in Nat : Created \cup {o} = 1..n
<1>1. PICK n \in Nat : Created = 1..n  BY DEF NumberInv
<1>2. Cardinality(1..n) = n  BY FS_Interval
<1>3. o = n + 1  BY <1>1, <1>2
<1>4. 1..(n + 1) = (1..n) \cup {o}  BY <1>3
<1> QED  BY <1>1, <1>3, <1>4

LEMMA InitTypes == Init => TypeOK /\ UserInv /\ HandInv /\ NumberInv
<1> SUFFICES ASSUME Init PROVE TypeOK /\ UserInv /\ HandInv /\ NumberInv
  OBVIOUS
<1>1. 0 \in 0..MaxRefresh /\ 0 \in 0..MaxFaults  BY SessionAssumption
<1>2. NoToken \in Sessions /\ NoOneTime \in OneTimes
  BY <1>1 DEF NoToken, NoOneTime, Sessions, OneTimes, Kinds
<1>3. TypeOK
  BY <1>1, <1>2, IdleType DEF Init, TypeOK, Handlers, Sessions, OneTimes, NoToken, NoOneTime
<1>4. Issued = {} /\ Created = {}
  BY DEF Init, Issued, Created, NoToken, NoOneTime
<1>5. UserInv /\ HandInv  BY <1>4, IdleType DEF Init, UserInv, HandInv
<1>6. 1..0 = {}  OBVIOUS
<1>7. NumberInv  BY <1>4, <1>6 DEF NumberInv
<1> QED  BY <1>3, <1>5, <1>7

Typed == TypeOK /\ UserInv /\ HandInv /\ NumberInv

\* The marks that record what became of tokens.
MarkType ==
    /\ cut \in SUBSET Tokens /\ forked \in SUBSET Tokens /\ crossed \in SUBSET Tokens
    /\ doubled \in SUBSET OneTime
    /\ overlapped \in SUBSET (Kinds \X Users)
    /\ faults \in 0..MaxFaults

LEMMA RowTypes ==
    ASSUME Typed
    PROVE  /\ account \in [Users -> Accounts] /\ refresh \in [Tokens -> Sessions]
           /\ onetime \in [OneTime -> OneTimes] /\ req \in [Requests -> Handlers]
           /\ held \subseteq Issued /\ MarkType
           /\ \A o \in OneTime : onetime[o].status = "used" <=> onetime[o].uses > 0
  BY DEF Typed, TypeOK, Accounts, Sessions, OneTimes, Handlers, Issued, MarkType

\* A step of a handler that creates no row.
LEMMA KeepsRows ==
    ASSUME Typed, NEW r \in Requests, req' \in [Requests -> Handlers],
           \A q \in Requests \ {r} : req'[q] = req[q],
           req'[r].pc # "idle" => req'[r].user \in Users, req'[r].pc # "retire",
           req'[r].pc \in {"reissue", "retire", "revoke"} => req'[r].old \in held,
           req'[r].pc \in {"commit", "markUser", "markToken"} =>
              /\ req'[r].old \in Created /\ onetime[req'[r].old].user = req'[r].user
              /\ onetime[req'[r].old].kind = (IF req'[r].pc = "commit" THEN "reset" ELSE "verify"),
           account' \in [Users -> Accounts],
           refresh' \in [Tokens -> Sessions], onetime' \in [OneTime -> OneTimes],
           \A t \in Tokens : /\ refresh'[t].user = refresh[t].user
                             /\ refresh'[t].family = refresh[t].family
                             /\ refresh'[t].status = "none" <=> refresh[t].status = "none",
           \A o \in OneTime : /\ onetime'[o].user = onetime[o].user
                              /\ onetime'[o].kind = onetime[o].kind
                              /\ onetime'[o].status = "none" <=> onetime[o].status = "none"
                              /\ onetime'[o].status = "used" <=> onetime'[o].uses > 0,
           held \subseteq held', held' \subseteq Issued,
           MarkType'
    PROVE  Typed'
<1>1. Issued' = Issued /\ Created' = Created  BY DEF Issued, Created
<1>2. Issued \subseteq Tokens /\ Created \subseteq OneTime  BY DEF Issued, Created
<1>3. TypeOK'
  <2>1. held' \in SUBSET Tokens /\ \A t \in held' : refresh'[t].status # "none"
    BY <1>1 DEF Issued
  <2> QED  BY <2>1 DEF Typed, TypeOK, MarkType, Handlers, Accounts, Sessions, OneTimes
<1>4. UserInv'
  BY <1>1, <1>2 DEF Typed, UserInv
<1>5. HandInv'
  <2>1. \A q \in Requests : req'[q].pc \in {"reissue", "retire", "revoke"} => req'[q].old \in held'
    BY DEF Typed, HandInv
  <2>3. \A q \in Requests : req'[q].pc = "retire" => req'[q].new \in Issued'
    BY <1>1 DEF Typed, HandInv
  <2>2. ASSUME NEW q \in Requests, req'[q].pc \in {"commit", "markUser", "markToken"}
        PROVE  /\ req'[q].old \in Created' /\ onetime'[req'[q].old].user = req'[q].user
               /\ onetime'[req'[q].old].kind = (IF req'[q].pc = "commit" THEN "reset" ELSE "verify")
    <3>1. /\ req'[q].old \in Created /\ onetime[req'[q].old].user = req'[q].user
          /\ onetime[req'[q].old].kind = (IF req'[q].pc = "commit" THEN "reset" ELSE "verify")
      <4>1. CASE q = r  BY <2>2, <4>1
      <4>2. CASE q # r
        <5>1. req'[q] = req[q]  BY <4>2
        <5> QED  BY <2>2, <5>1 DEF Typed, HandInv
      <4> QED  BY <4>1, <4>2
    <3> QED  BY <1>1, <1>2, <3>1
  <2> QED  BY <2>1, <2>2, <2>3 DEF HandInv
<1>6. NumberInv'
  <2>1. \A t \in Issued : Family(t)' = Family(t)  BY <1>2 DEF Family
  <2> QED  BY <1>1, <2>1 DEF Typed, NumberInv
<1> QED  BY <1>3, <1>4, <1>5, <1>6 DEF Typed

\* A step of no handler.
LEMMA KeepsReq ==
    ASSUME Typed, req' = req, account' = account, held' = held,
           refresh' \in [Tokens -> Sessions], onetime' \in [OneTime -> OneTimes],
           \A t \in Tokens : /\ refresh'[t].user = refresh[t].user
                             /\ refresh'[t].family = refresh[t].family
                             /\ refresh'[t].status = "none" <=> refresh[t].status = "none",
           \A o \in OneTime : /\ onetime'[o].user = onetime[o].user
                              /\ onetime'[o].kind = onetime[o].kind
                              /\ onetime'[o].status = "none" <=> onetime[o].status = "none"
                              /\ onetime'[o].status = "used" <=> onetime'[o].uses > 0,
           MarkType'
    PROVE  Typed'
<1>1. Issued' = Issued /\ Created' = Created  BY DEF Issued, Created
<1>2. Issued \subseteq Tokens /\ Created \subseteq OneTime  BY DEF Issued, Created
<1>3. TypeOK'
  BY RowTypes DEF Typed, TypeOK, MarkType, Handlers, Accounts, Sessions, OneTimes, Issued
<1>4. UserInv'  BY <1>1, <1>2 DEF Typed, UserInv
<1>5. HandInv'  BY <1>1, <1>2 DEF Typed, HandInv
<1>6. NumberInv'
  <2>1. \A t \in Issued : Family(t)' = Family(t)  BY <1>2 DEF Family
  <2> QED  BY <1>1, <2>1 DEF Typed, NumberInv
<1> QED  BY <1>3, <1>4, <1>5, <1>6 DEF Typed

\* A new session row.
LEMMA InsertsRow ==
    ASSUME Typed, NEW r \in Requests, NEW t \in Tokens, NEW family \in {t} \cup Issued,
           Insert(r, t, family), req[r].user \in Users
    PROVE  /\ refresh' \in [Tokens -> Sessions]
           /\ t \notin Issued /\ Issued' = Issued \cup {t}
           /\ refresh'[t] = [status |-> "live", user |-> req[r].user, family |-> family,
                             gen |-> req[r].gen]
           /\ \A x \in Tokens \ {t} : refresh'[x] = refresh[x]
           /\ \A x \in Issued' : Family(x)' \in Issued'
           /\ \E n \in Nat : Issued' = 1..n
           /\ crossed' \in SUBSET Tokens
<1>1. t \notin Issued /\ \E n \in Nat : Issued \cup {t} = 1..n
  BY FreshToken DEF Insert, Typed
<1>2. family \in 0..MaxRefresh  BY SessionAssumption DEF Issued, Tokens
<1>3. [status |-> "live", user |-> req[r].user, family |-> family, gen |-> req[r].gen] \in Sessions
  BY <1>2 DEF Sessions, Typed, TypeOK
<1>4. /\ refresh' \in [Tokens -> Sessions]
      /\ refresh'[t] = [status |-> "live", user |-> req[r].user, family |-> family,
                        gen |-> req[r].gen]
      /\ \A x \in Tokens \ {t} : refresh'[x] = refresh[x]
  BY <1>3 DEF Insert, Typed, TypeOK, Sessions
<1>5. Issued' = Issued \cup {t}  BY <1>4 DEF Issued
<1>6. ASSUME NEW x \in Issued' PROVE Family(x)' \in Issued'
  <2>1. CASE x = t
    BY <1>4, <1>5, <2>1 DEF Family, Issued
  <2>2. CASE x # t
    <3>1. x \in Issued /\ x \in Tokens  BY <1>5, <2>2 DEF Issued
    <3>2. Family(x)' = Family(x)  BY <1>4, <2>2, <3>1 DEF Family
    <3> QED  BY <1>5, <3>1, <3>2 DEF Typed, NumberInv
  <2> QED  BY <2>1, <2>2
<1>7. crossed' \in SUBSET Tokens  BY DEF Insert, Typed, TypeOK
<1> QED  BY <1>1, <1>4, <1>5, <1>6, <1>7

\* Steps of a handler that leave all rows but the account alone.
LEMMA KeepsTokens ==
    ASSUME Typed, NEW r \in Requests, NEW next \in Handlers, req' = [req EXCEPT ![r] = next],
           next.pc # "idle" => next.user \in Users, next.pc # "retire",
           next.pc \in {"reissue", "retire", "revoke"} => next.old \in held,
           next.pc \in {"commit", "markUser", "markToken"} =>
              /\ next.old \in Created /\ onetime[next.old].user = next.user
              /\ onetime[next.old].kind = (IF next.pc = "commit" THEN "reset" ELSE "verify"),
           account' \in [Users -> Accounts],
           refresh' = refresh, onetime' = onetime, held' = held,
           MarkType'
    PROVE  Typed'
<1>1. /\ req' \in [Requests -> Handlers] /\ req'[r] = next
      /\ \A q \in Requests \ {r} : req'[q] = req[q]
  BY GoType DEF Typed
<1>2. /\ refresh' \in [Tokens -> Sessions] /\ onetime' \in [OneTime -> OneTimes]
      /\ held' \subseteq Issued
      /\ \A o \in OneTime : onetime'[o].status = "used" <=> onetime'[o].uses > 0
  BY RowTypes
<1>3. /\ req'[r].pc # "idle" => req'[r].user \in Users
      /\ req'[r].pc # "retire"
      /\ req'[r].pc \in {"reissue", "retire", "revoke"} => req'[r].old \in held
      /\ req'[r].pc \in {"commit", "markUser", "markToken"} =>
              /\ req'[r].old \in Created /\ onetime[req'[r].old].user = req'[r].user
              /\ onetime[req'[r].old].kind = (IF req'[r].pc = "commit" THEN "reset" ELSE "verify")
  BY <1>1
<1> QED  BY <1>1, <1>2, <1>3, KeepsRows

LEMMA FaultType == ASSUME Typed, Fault PROVE faults' \in 0..MaxFaults
  BY SessionAssumption DEF Typed, TypeOK, Fault

LEMMA LookupType ==
    ASSUME Typed, NEW r \in Requests, NEW u \in Users, Lookup(r, u)
    PROVE  Typed'
<1>1. account[u].pw \in Nat /\ "issue" \in Steps  BY DEF Typed, TypeOK, Steps
<1>2. Handler("issue", u, 0, account[u].pw) \in Handlers  BY <1>1, HandlerType
<1>3. Handler("issue", u, 0, account[u].pw).pc = "issue"
      /\ Handler("issue", u, 0, account[u].pw).user = u
  BY DEF Handler
<1>4. MarkType' /\ account' \in [Users -> Accounts]
  BY RowTypes DEF Lookup, MarkType, history, rows
<1> QED  BY <1>2, <1>3, <1>4, KeepsTokens DEF Lookup, rows

LEMMA SupersedeType ==
    ASSUME Typed, NEW r \in Requests, Supersede(r)
    PROVE  Typed'
<1>1. req[r] \in Handlers /\ req[r].user \in Users /\ "create" \in Steps
  BY RowTypes DEF Supersede, Typed, UserInv, Steps
<1>2. PICK next : next = [req[r] EXCEPT !.pc = "create"]  OBVIOUS
<1>3. next \in Handlers /\ next.pc = "create" /\ next.user = req[r].user
  BY <1>1, <1>2 DEF Handlers
<1>4. /\ req' \in [Requests -> Handlers] /\ req'[r].pc = "create" /\ req'[r].user \in Users
      /\ \A q \in Requests \ {r} : req'[q] = req[q]
  BY <1>1, <1>2, <1>3, GoType DEF Supersede, Typed
<1>5. \A o \in OneTime : [onetime[o] EXCEPT !.status = "revoked"] \in OneTimes
        /\ [onetime[o] EXCEPT !.status = "revoked"].status = "revoked"
        /\ [onetime[o] EXCEPT !.status = "revoked"].user = onetime[o].user
        /\ [onetime[o] EXCEPT !.status = "revoked"].kind = onetime[o].kind
        /\ [onetime[o] EXCEPT !.status = "revoked"].uses = onetime[o].uses
  <2>1. \A o \in OneTime : onetime[o] \in OneTimes  BY RowTypes
  <2> QED  BY <2>1 DEF OneTimes
<1>6. /\ onetime' \in [OneTime -> OneTimes]
      /\ \A o \in OneTime : /\ onetime'[o].user = onetime[o].user
                            /\ onetime'[o].kind = onetime[o].kind
                            /\ onetime'[o].status = "none" <=> onetime[o].status = "none"
                            /\ onetime'[o].status = "used" <=> onetime'[o].uses > 0
  BY <1>5, RowTypes DEF Supersede, RevokeOutstanding, Outstanding
<1>7. MarkType'
  <2>1. overlapped' \in SUBSET (Kinds \X Users)
    <3>1. req[r].kind \in Kinds  BY <1>1 DEF Handlers
    <3> QED  BY <1>1, <3>1, RowTypes DEF Supersede, MarkType
  <2> QED  BY <2>1, RowTypes DEF Supersede, MarkType
<1>8. account' = account /\ refresh' = refresh /\ held' = held  BY DEF Supersede
<1> QED  BY <1>4, <1>6, <1>7, <1>8, RowTypes, KeepsRows

LEMMA AcceptType ==
    ASSUME Typed, NEW r \in Requests, NEW o \in OneTime,
           NEW kind \in Kinds, NEW next \in {"commit", "markUser"},
           AcceptOneTime(r, o, kind, next), kind = IF next = "commit" THEN "reset" ELSE "verify"
    PROVE  Typed'
<1>1. o \in Created /\ onetime[o].user \in Users /\ onetime[o].kind = kind
  BY DEF AcceptOneTime, Accepted, Created, Typed, UserInv
<1>2. Using(next, o, kind) \in Handlers
  BY <1>1, SessionAssumption DEF Using, Handlers, Steps, OneTime
<1>3. Using(next, o, kind).pc = next /\ Using(next, o, kind).user = onetime[o].user
      /\ Using(next, o, kind).old = o
  BY DEF Using
<1>4. MarkType' /\ account' = account /\ refresh' = refresh /\ onetime' = onetime /\ held' = held
  BY RowTypes DEF AcceptOneTime, MarkType, rows
<1>5. req' = [req EXCEPT ![r] = Using(next, o, kind)]  BY DEF AcceptOneTime
<1> QED  BY <1>1, <1>2, <1>3, <1>4, <1>5, RowTypes, KeepsTokens

\* One session row changes its status.
LEMMA StatusType ==
    ASSUME Typed, NEW t \in Tokens, NEW status \in {"live", "expired", "revoked"},
           refresh[t].status # "none",
           refresh' = [refresh EXCEPT ![t] = [@ EXCEPT !.status = status]]
    PROVE  /\ refresh' \in [Tokens -> Sessions]
           /\ refresh'[t].status = status
           /\ \A x \in Tokens : /\ refresh'[x].user = refresh[x].user
                                /\ refresh'[x].family = refresh[x].family
                                /\ refresh'[x].gen = refresh[x].gen
                                /\ refresh'[x].status = "none" <=> refresh[x].status = "none"
           /\ \A x \in Tokens \ {t} : refresh'[x] = refresh[x]
<1>1. refresh \in [Tokens -> Sessions]  BY RowTypes
<1>2. refresh[t] \in Sessions  BY <1>1
<1>3. /\ [refresh[t] EXCEPT !.status = status] \in Sessions
      /\ [refresh[t] EXCEPT !.status = status].status = status
      /\ [refresh[t] EXCEPT !.status = status].user = refresh[t].user
      /\ [refresh[t] EXCEPT !.status = status].family = refresh[t].family
      /\ [refresh[t] EXCEPT !.status = status].gen = refresh[t].gen
  BY <1>2 DEF Sessions
<1>4. refresh' = [refresh EXCEPT ![t] = [refresh[t] EXCEPT !.status = status]]  OBVIOUS
<1> QED  BY <1>1, <1>3, <1>4

\* A one-time token is used, or expires.
LEMMA UseType ==
    ASSUME Typed, NEW o \in OneTime, onetime[o].status # "none",
           \/ onetime' = [onetime EXCEPT ![o] = Used(@)]
           \/ /\ onetime' = [onetime EXCEPT ![o] = [@ EXCEPT !.status = "expired"]]
              /\ onetime[o].status = "live"
    PROVE  /\ onetime' \in [OneTime -> OneTimes]
           /\ \A x \in OneTime : /\ onetime'[x].user = onetime[x].user
                                 /\ onetime'[x].kind = onetime[x].kind
                                 /\ onetime'[x].status = "none" <=> onetime[x].status = "none"
                                 /\ onetime'[x].status = "used" <=> onetime'[x].uses > 0
           /\ \A x \in OneTime \ {o} : onetime'[x] = onetime[x]
           /\ \/ onetime'[o].status = "used" /\ onetime'[o].uses = onetime[o].uses + 1
              \/ onetime'[o].status = "expired" /\ onetime'[o].uses = onetime[o].uses
<1>1. onetime \in [OneTime -> OneTimes]  BY RowTypes
<1>2. onetime[o] \in OneTimes  BY <1>1
<1>3. CASE onetime' = [onetime EXCEPT ![o] = Used(@)]
  <2>1. Used(onetime[o]) \in OneTimes  BY <1>2 DEF Used, OneTimes
  <2>2. onetime[o].uses \in Nat  BY <1>2 DEF OneTimes
  <2>3. onetime' = [onetime EXCEPT ![o] = Used(onetime[o])]  BY <1>3
  <2>4. onetime'[o] = Used(onetime[o])  BY <1>1, <2>3
  <2>5. /\ onetime'[o].user = onetime[o].user /\ onetime'[o].kind = onetime[o].kind
        /\ onetime'[o].status = "used" /\ onetime'[o].uses = onetime[o].uses + 1
    BY <2>4 DEF Used
  <2>6. onetime'[o].uses > 0  BY <2>2, <2>5
  <2> QED  BY <1>1, <2>1, <2>3, <2>5, <2>6, RowTypes
<1>4. CASE /\ onetime' = [onetime EXCEPT ![o] = [@ EXCEPT !.status = "expired"]]
           /\ onetime[o].status = "live"
  <2>1. /\ [onetime[o] EXCEPT !.status = "expired"] \in OneTimes
        /\ [onetime[o] EXCEPT !.status = "expired"].status = "expired"
        /\ [onetime[o] EXCEPT !.status = "expired"].user = onetime[o].user
        /\ [onetime[o] EXCEPT !.status = "expired"].kind = onetime[o].kind
        /\ [onetime[o] EXCEPT !.status = "expired"].uses = onetime[o].uses
    BY <1>2 DEF OneTimes
  <2>2. onetime' = [onetime EXCEPT ![o] = [onetime[o] EXCEPT !.status = "expired"]]  BY <1>4
  <2> QED  BY <1>1, <1>4, <2>1, <2>2, RowTypes
<1> QED  BY <1>3, <1>4

\* All sessions of a user are revoked.
LEMMA RevokeType ==
    ASSUME Typed, NEW u \in Users, RevokeSessions(u)
    PROVE  /\ refresh' \in [Tokens -> Sessions]
           /\ \A x \in Tokens : /\ refresh'[x].user = refresh[x].user
                                /\ refresh'[x].family = refresh[x].family
                                /\ refresh'[x].gen = refresh[x].gen
                                /\ refresh'[x].status = "none" <=> refresh[x].status = "none"
                                /\ refresh'[x].status = IF refresh[x].user = u /\ Unrevoked(x)
                                                        THEN "revoked" ELSE refresh[x].status
<1>1. ASSUME NEW x \in Tokens
      PROVE  /\ refresh[x] \in Sessions /\ [refresh[x] EXCEPT !.status = "revoked"] \in Sessions
             /\ [refresh[x] EXCEPT !.status = "revoked"].status = "revoked"
             /\ [refresh[x] EXCEPT !.status = "revoked"].user = refresh[x].user
             /\ [refresh[x] EXCEPT !.status = "revoked"].family = refresh[x].family
             /\ [refresh[x] EXCEPT !.status = "revoked"].gen = refresh[x].gen
  <2>1. refresh[x] \in Sessions  BY RowTypes
  <2> QED  BY <2>1 DEF Sessions
<1> QED  BY <1>1 DEF RevokeSessions, Unrevoked

LEMMA CreateType ==
    ASSUME Typed, NEW r \in Requests, NEW o \in OneTime, CreateOneTime(r, o)
    PROVE  /\ Typed'
           /\ o \notin Created /\ req[r].pc = "create" /\ req'[r].pc \in {"idle", "issue"}
           /\ onetime'[o].user = req[r].user /\ onetime'[o].kind = req[r].kind
           /\ onetime'[o].uses = 0 /\ onetime'[o].status \in {"live", "unsent"}
           /\ \A x \in OneTime \ {o} : onetime'[x] = onetime[x]
           /\ \A q \in Requests \ {r} : req'[q] = req[q]
<1>1. o \notin Created /\ \E n \in Nat : Created \cup {o} = 1..n
  BY FreshOneTime DEF CreateOneTime, Typed
<1>2. req[r] \in Handlers /\ req[r].pc = "create" /\ req[r].user \in Users
  BY RowTypes DEF CreateOneTime, Typed, UserInv
<1>3. PICK status \in {"live", "unsent"} : onetime' = [onetime EXCEPT ![o] =
         [status |-> status, kind |-> req[r].kind, user |-> req[r].user, uses |-> 0]]
  BY DEF CreateOneTime
<1>4. [status |-> status, kind |-> req[r].kind, user |-> req[r].user, uses |-> 0] \in OneTimes
  BY <1>2 DEF Handlers, OneTimes
<1>5. /\ onetime' \in [OneTime -> OneTimes]
      /\ onetime'[o].user = req[r].user /\ onetime'[o].kind = req[r].kind
      /\ onetime'[o].uses = 0 /\ onetime'[o].status = status
      /\ \A x \in OneTime \ {o} : onetime'[x] = onetime[x]
  BY <1>3, <1>4, RowTypes
<1>6. /\ req' \in [Requests -> Handlers] /\ req'[r].pc \in {"idle", "issue"}
      /\ req'[r].user = req[r].user \/ req'[r].pc = "idle"
      /\ \A q \in Requests \ {r} : req'[q] = req[q]
  <2> DEFINE next == [req[r] EXCEPT !.pc = "issue"]
  <2>1. next \in Handlers /\ next.pc = "issue" /\ next.user = req[r].user
    BY <1>2 DEF Handlers, Steps
  <2>2. req' = [req EXCEPT ![r] = next] \/ req' = [req EXCEPT ![r] = Idle]
    BY DEF CreateOneTime
  <2> HIDE DEF next
  <2> QED  BY <2>1, <2>2, IdleType, GoType DEF Typed
<1>7. Created' = Created \cup {o}  BY <1>5 DEF Created
<1>8. account' = account /\ refresh' = refresh /\ held' = held /\ UNCHANGED history
  BY DEF CreateOneTime
<1>9. faults' \in 0..MaxFaults
  BY FaultType, RowTypes DEF CreateOneTime, MarkType
<1>10. TypeOK'
  BY <1>5, <1>6, <1>8, <1>9, RowTypes
  DEF TypeOK, Typed, history, Handlers, Accounts, Sessions, OneTimes
<1>11. Issued' = Issued /\ \A t \in Tokens : Family(t)' = Family(t)  BY <1>8 DEF Issued, Family
<1>12. Created \subseteq OneTime /\ Issued \subseteq Tokens  BY DEF Created, Issued
<1>13. UserInv'
  <2>1. \A q \in Requests : req'[q].pc # "idle" => req'[q].user \in Users
    BY <1>2, <1>6 DEF Typed, UserInv
  <2>2. \A t \in Issued' : refresh'[t].user \in Users  BY <1>8, <1>11 DEF Typed, UserInv
  <2>3. \A x \in Created' : onetime'[x].user \in Users
    BY <1>2, <1>5, <1>7, <1>12 DEF Typed, UserInv
  <2> QED  BY <2>1, <2>2, <2>3 DEF UserInv
<1>14. HandInv'
  <2>1. \A q \in Requests : req'[q].pc \in {"reissue", "retire", "revoke"} => req'[q].old \in held'
    BY <1>6, <1>8 DEF Typed, HandInv
  <2>3. \A q \in Requests : req'[q].pc = "retire" => req'[q].new \in Issued'
    BY <1>6, <1>11 DEF Typed, HandInv
  <2>2. ASSUME NEW q \in Requests, req'[q].pc \in {"commit", "markUser", "markToken"}
        PROVE  /\ req'[q].old \in Created' /\ onetime'[req'[q].old].user = req'[q].user
               /\ onetime'[req'[q].old].kind = (IF req'[q].pc = "commit" THEN "reset" ELSE "verify")
    <3>1. q # r  BY <1>6, <2>2
    <3>2. req'[q] = req[q]  BY <1>6, <3>1
    <3>3. /\ req[q].old \in Created /\ onetime[req[q].old].user = req[q].user
          /\ onetime[req[q].old].kind = (IF req[q].pc = "commit" THEN "reset" ELSE "verify")
      BY <2>2, <3>2 DEF Typed, HandInv
    <3>4. onetime'[req[q].old] = onetime[req[q].old]  BY <1>1, <1>5, <1>12, <3>3
    <3> QED  BY <1>7, <3>2, <3>3, <3>4
  <2> QED  BY <2>1, <2>2, <2>3 DEF HandInv
<1>15. NumberInv'
  BY <1>1, <1>7, <1>11, <1>12 DEF Typed, NumberInv
<1> QED  BY <1>1, <1>2, <1>5, <1>6, <1>10, <1>13, <1>14, <1>15 DEF Typed

\* A handler that inserts a session row, as a login or as a rotation does.
LEMMA IssueType ==
    ASSUME Typed, NEW r \in Requests, NEW t \in Tokens, NEW family \in {t} \cup Issued,
           Insert(r, t, family), req[r].pc # "idle", NEW next \in Handlers,
           req' = [req EXCEPT ![r] = next],
           next.pc = "idle" \/ (next.pc = "retire" /\ next.user = req[r].user /\ next.old \in held /\ next.new = t),
           held' \in {held, held \cup {t}}, faults' \in 0..MaxFaults,
           UNCHANGED <<account, onetime, cut, forked, doubled, overlapped>>
    PROVE  Typed'
<1>1. req[r].user \in Users  BY DEF Typed, UserInv
<1>2. /\ refresh' \in [Tokens -> Sessions]
      /\ t \notin Issued /\ Issued' = Issued \cup {t}
      /\ refresh'[t] = [status |-> "live", user |-> req[r].user, family |-> family,
                        gen |-> req[r].gen]
      /\ \A x \in Tokens \ {t} : refresh'[x] = refresh[x]
      /\ \A x \in Issued' : Family(x)' \in Issued'
      /\ \E n \in Nat : Issued' = 1..n
      /\ crossed' \in SUBSET Tokens
  BY <1>1, InsertsRow
<1>3. /\ req' \in [Requests -> Handlers] /\ req'[r] = next
      /\ \A q \in Requests \ {r} : req'[q] = req[q]
  BY GoType DEF Typed
<1>4. held' \subseteq Issued' /\ held \subseteq held'  BY <1>2, RowTypes
<1>5. TypeOK'
  <2>1. held' \in SUBSET Tokens /\ \A x \in held' : refresh'[x].status # "none"
    BY <1>4 DEF Issued
  <2> QED  BY <1>2, <1>3, <2>1, RowTypes DEF TypeOK, Typed, Handlers, Accounts, Sessions, OneTimes
<1>6. Created' = Created /\ Issued \subseteq Tokens  BY DEF Created, Issued
<1>7. UserInv'
  <2>1. \A q \in Requests : req'[q].pc # "idle" => req'[q].user \in Users
    BY <1>1, <1>3 DEF Typed, UserInv
  <2>2. ASSUME NEW x \in Issued' PROVE refresh'[x].user \in Users
    <3>1. CASE x = t
      <4>1. refresh'[t].user = req[r].user  BY <1>2
      <4> QED  BY <1>1, <3>1, <4>1
    <3>2. CASE x # t
      <4>1. x \in Issued /\ refresh'[x] = refresh[x]  BY <1>2, <1>6, <3>2
      <4> QED  BY <4>1 DEF Typed, UserInv
    <3> QED  BY <3>1, <3>2
  <2>3. \A x \in Created' : onetime'[x].user \in Users  BY <1>6 DEF Typed, UserInv
  <2> QED  BY <2>1, <2>2, <2>3 DEF UserInv
<1>8. HandInv'
  <2>1. \A q \in Requests : req'[q].pc \in {"reissue", "retire", "revoke"} => req'[q].old \in held'
    BY <1>3, <1>4 DEF Typed, HandInv
  <2>3. \A q \in Requests : req'[q].pc = "retire" => req'[q].new \in Issued'
    BY <1>2, <1>3 DEF Typed, HandInv
  <2>2. ASSUME NEW q \in Requests, req'[q].pc \in {"commit", "markUser", "markToken"}
        PROVE  /\ req'[q].old \in Created' /\ onetime'[req'[q].old].user = req'[q].user
               /\ onetime'[req'[q].old].kind = (IF req'[q].pc = "commit" THEN "reset" ELSE "verify")
    <3>1. q # r  BY <1>3, <2>2
    <3>2. req'[q] = req[q]  BY <1>3, <3>1
    <3> QED  BY <1>6, <2>2, <3>2 DEF Typed, HandInv
  <2> QED  BY <2>1, <2>2, <2>3 DEF HandInv
<1>9. NumberInv'
  BY <1>2, <1>6 DEF Typed, NumberInv
<1> QED  BY <1>5, <1>7, <1>8, <1>9 DEF Typed

LEMMA StepTypes == ASSUME Typed, [Next]_vars PROVE Typed'
<1>0. {"idle", "issue", "ensure", "lookup", "reissue", "retire", "revoke", "confirm", "supersede",
       "create", "commit", "markUser", "markToken"} = Steps
      /\ 0 \in Nat /\ {"reset", "verify"} = Kinds
  BY DEF Steps, Kinds
<1>a. ASSUME NEW u \in Users
      PROVE  /\ account[u] \in Accounts /\ account[u].pw \in Nat
             /\ Confirmed(account[u]) \in Accounts
             /\ [account[u] EXCEPT !.exists = TRUE] \in Accounts
             /\ [account[u] EXCEPT !.verified = TRUE] \in Accounts
             /\ [account[u] EXCEPT !.pw = account[u].pw + 1] \in Accounts
  <2>1. account[u] \in Accounts  BY RowTypes
  <2>2. account[u].pw + 1 \in Nat  BY <2>1 DEF Accounts
  <2> QED  BY <2>1, <2>2 DEF Accounts, Confirmed
<1>1. ASSUME NEW r \in Requests, NEW u \in Users, Login(r, u) PROVE Typed'
  BY <1>1, LookupType DEF Login
<1>2. ASSUME NEW r \in Requests, NEW u \in Users, LoginUnknown(r, u) PROVE Typed'
  <2>1. /\ Handler("ensure", u, 0, 0) \in Handlers /\ Handler("ensure", u, 0, 0).pc = "ensure"
        /\ Handler("ensure", u, 0, 0).user = u
    BY <1>0, HandlerType DEF Handler
  <2> QED  BY <1>2, <2>1, KeepsTokens, RowTypes DEF LoginUnknown, rows, history, MarkType
<1>3. ASSUME NEW r \in Requests, NEW u \in Users, FederatedLogin(r, u) PROVE Typed'
  <2> DEFINE next == Handler("issue", u, 0, account[u].pw)
  <2>1. next \in Handlers /\ next.pc = "issue" /\ next.user = u
    BY <1>0, <1>a, HandlerType DEF Handler
  <2>2. req' = [req EXCEPT ![r] = next] /\ UNCHANGED <<refresh, onetime, held, history, faults>>
    BY <1>3 DEF FederatedLogin
  <2>3. account' \in [Users -> Accounts]
    BY <1>3, <1>a, RowTypes DEF FederatedLogin, SyncFederatedUser
  <2> HIDE DEF next
  <2> QED  BY <2>1, <2>2, <2>3, KeepsTokens, RowTypes DEF history, MarkType
<1>4. ASSUME NEW r \in Requests, NEW u \in Users, Register(r, u) PROVE Typed'
  <2> DEFINE next == Creating("confirm", u, account[u].pw, "verify", TRUE)
  <2>1. next \in Handlers /\ next.pc = "confirm" /\ next.user = u
    BY <1>0, <1>a, CreatingType DEF Creating
  <2>2. req' = [req EXCEPT ![r] = next] /\ UNCHANGED <<refresh, onetime, held, history, faults>>
    BY <1>4 DEF Register
  <2>3. account' \in [Users -> Accounts]
    BY <1>4, <1>a, RowTypes DEF Register
  <2> HIDE DEF next
  <2> QED  BY <2>1, <2>2, <2>3, KeepsTokens, RowTypes DEF history, MarkType
<1>5. ASSUME NEW r \in Requests, NEW u \in Users, ForgotPassword(r, u) PROVE Typed'
  <2> DEFINE next == Creating("supersede", u, 0, "reset", FALSE)
  <2>1. next \in Handlers /\ next.pc = "supersede" /\ next.user = u
    BY <1>0, CreatingType DEF Creating
  <2>2. req' = [req EXCEPT ![r] = next] /\ UNCHANGED <<rows, held, history, faults>>
    BY <1>5 DEF ForgotPassword
  <2> HIDE DEF next
  <2> QED  BY <2>1, <2>2, KeepsTokens, RowTypes DEF rows, history, MarkType
<1>6. ASSUME NEW r \in Requests, NEW u \in Users, ResendVerification(r, u) PROVE Typed'
  <2> DEFINE next == Creating("supersede", u, 0, "verify", FALSE)
  <2>1. next \in Handlers /\ next.pc = "supersede" /\ next.user = u
    BY <1>0, CreatingType DEF Creating
  <2>2. req' = [req EXCEPT ![r] = next] /\ UNCHANGED <<rows, held, history, faults>>
    BY <1>6 DEF ResendVerification
  <2> HIDE DEF next
  <2> QED  BY <2>1, <2>2, KeepsTokens, RowTypes DEF rows, history, MarkType
<1>7. ASSUME NEW r \in Requests, NEW t \in Tokens, Refresh(r, t) PROVE Typed'
  <2> DEFINE next == Handler("reissue", refresh[t].user, t, refresh[t].gen)
  <2>1. t \in Issued /\ t \in Nat /\ refresh[t].gen \in Nat /\ refresh[t].user \in Users
    <3>1. t \in Issued /\ t \in Nat  BY <1>7, RowTypes DEF Refresh, Tokens
    <3>2. refresh[t] \in Sessions  BY RowTypes
    <3> QED  BY <3>1, <3>2 DEF Typed, UserInv, Sessions
  <2>2. next \in Handlers /\ next.pc = "reissue" /\ next.user \in Users /\ next.old = t
    BY <1>0, <2>1, HandlerType DEF Handler
  <2>3. req' = [req EXCEPT ![r] = next] /\ UNCHANGED <<rows, held, cut, crossed, doubled, overlapped, faults>>
        /\ t \in held
    BY <1>7 DEF Refresh
  <2>4. forked' \in SUBSET Tokens
    <3>1. Family(t) \in Tokens  BY <2>1 DEF Typed, NumberInv, Issued
    <3> QED  BY <1>7, <3>1, RowTypes DEF Refresh, MarkType
  <2> HIDE DEF next
  <2> QED  BY <2>2, <2>3, <2>4, KeepsTokens, RowTypes DEF rows, MarkType
<1>8. ASSUME NEW r \in Requests, NEW t \in Tokens, Logout(r, t) PROVE Typed'
  <2> DEFINE next == Handler("revoke", refresh[t].user, t, 0)
  <2>1. t \in Issued /\ t \in Nat /\ refresh[t].user \in Users
    BY <1>8, RowTypes DEF Logout, Typed, UserInv, Tokens
  <2>2. next \in Handlers /\ next.pc = "revoke" /\ next.user \in Users /\ next.old = t
    BY <1>0, <2>1, HandlerType DEF Handler
  <2>3. req' = [req EXCEPT ![r] = next] /\ UNCHANGED <<rows, held, history, faults>> /\ t \in held
    BY <1>8 DEF Logout
  <2> HIDE DEF next
  <2> QED  BY <2>2, <2>3, KeepsTokens, RowTypes DEF rows, history, MarkType
<1>9. ASSUME NEW r \in Requests, NEW t \in Tokens, Issue(r, t) PROVE Typed'
  <2>1. /\ Insert(r, t, t) /\ req[r].pc = "issue" /\ req' = [req EXCEPT ![r] = Idle]
        /\ held' \in {held, held \cup {t}}
        /\ UNCHANGED <<account, onetime, cut, forked, doubled, overlapped>>
    BY <1>9 DEF Issue
  <2>2. faults' \in 0..MaxFaults  BY <1>9, FaultType, RowTypes DEF Issue, MarkType
  <2> QED  BY <2>1, <2>2, IdleType, IssueType
<1>10. ASSUME NEW r \in Requests, NEW t \in Tokens, Reissue(r, t) PROVE Typed'
  <2> DEFINE next == [Handler("retire", req[r].user, req[r].old, req[r].gen) EXCEPT !.new = t]
  <2>1. req[r] \in Handlers /\ req[r].pc = "reissue" /\ req[r].user \in Users /\ req[r].old \in held
    BY <1>10, RowTypes DEF Reissue, Typed, UserInv, HandInv
  <2>2. Handler("retire", req[r].user, req[r].old, req[r].gen) \in Handlers
    BY <1>0, <2>1, HandlerType DEF Handlers
  <2>3. next \in Handlers /\ next.pc = "retire" /\ next.user = req[r].user /\ next.old = req[r].old
        /\ next.new = t
    <3>1. PICK h : h = Handler("retire", req[r].user, req[r].old, req[r].gen)  OBVIOUS
    <3>2. h \in Handlers /\ t \in 0..MaxRefresh  BY <2>2, <3>1, SessionAssumption DEF Tokens
    <3>3. h.pc = "retire" /\ h.user = req[r].user /\ h.old = req[r].old  BY <3>1 DEF Handler
    <3>4. /\ [h EXCEPT !.new = t] \in Handlers /\ [h EXCEPT !.new = t].pc = h.pc
          /\ [h EXCEPT !.new = t].user = h.user /\ [h EXCEPT !.new = t].old = h.old
          /\ [h EXCEPT !.new = t].new = t
      BY <3>2 DEF Handlers
    <3> QED  BY <3>1, <3>3, <3>4
  <2>4. Family(req[r].old) \in Issued  BY <2>1, RowTypes DEF Typed, NumberInv
  <2>5. /\ Insert(r, t, Family(req[r].old)) /\ req' = [req EXCEPT ![r] = next]
        /\ UNCHANGED <<account, onetime, held, cut, forked, doubled, overlapped, faults>>
    BY <1>10 DEF Reissue
  <2>6. faults' \in 0..MaxFaults  BY <2>5, RowTypes DEF MarkType
  <2>7. PICK f : f = Family(req[r].old)  OBVIOUS
  <2>8. f \in {t} \cup Issued /\ Insert(r, t, f)  BY <2>4, <2>5, <2>7
  <2> HIDE DEF next
  <2> QED  BY <2>1, <2>3, <2>5, <2>6, <2>8, IssueType
<1>11. ASSUME NEW r \in Requests, NEW o \in OneTime, ResetPassword(r, o) PROVE Typed'
  BY <1>0, <1>11, AcceptType DEF ResetPassword
<1>12. ASSUME NEW r \in Requests, NEW o \in OneTime, VerifyEmail(r, o) PROVE Typed'
  BY <1>0, <1>12, AcceptType DEF VerifyEmail
<1>13. ASSUME NEW r \in Requests, NEW o \in OneTime, CreateOneTime(r, o) PROVE Typed'
  BY <1>13, CreateType
<1>14. ASSUME NEW r \in Requests, EnsureUser(r) PROVE Typed'
  <2> DEFINE next == [req[r] EXCEPT !.pc = "lookup"]
  <2>1. req[r] \in Handlers /\ req[r].user \in Users
    BY <1>14, RowTypes DEF EnsureUser, Typed, UserInv
  <2>2. next \in Handlers /\ next.pc = "lookup" /\ next.user \in Users
    BY <1>0, <2>1 DEF Handlers
  <2>3. /\ req' = [req EXCEPT ![r] = next] \/ req' = [req EXCEPT ![r] = Idle]
        /\ UNCHANGED <<refresh, onetime, held, history, faults>>
    BY <1>14 DEF EnsureUser
  <2>4. account' \in [Users -> Accounts]
    BY <1>14, <1>a, <2>1, RowTypes DEF EnsureUser
  <2> HIDE DEF next
  <2> QED  BY <2>2, <2>3, <2>4, IdleType, KeepsTokens, RowTypes DEF history, MarkType
<1>15. ASSUME NEW r \in Requests, LookupEnsured(r) PROVE Typed'
  <2>1. req[r].user \in Users  BY <1>15 DEF LookupEnsured, Typed, UserInv
  <2>2. PICK u : u = req[r].user  OBVIOUS
  <2> QED  BY <1>15, <2>1, <2>2, LookupType DEF LookupEnsured
<1>16. ASSUME NEW r \in Requests, ConfirmRegistered(r) PROVE Typed'
  <2>1. req[r].user \in Users /\ req[r] \in Handlers
    BY <1>16, RowTypes DEF ConfirmRegistered, Typed, UserInv
  <2>2. PICK pc \in {"issue", "supersede"} : req' = [req EXCEPT ![r] = [@ EXCEPT !.pc = pc]]
    BY <1>16 DEF ConfirmRegistered
  <2>3. PICK next : next = [req[r] EXCEPT !.pc = pc]  OBVIOUS
  <2>4. next \in Handlers /\ next.pc = pc /\ next.user \in Users
    BY <1>0, <2>1, <2>3 DEF Handlers
  <2>5. req' = [req EXCEPT ![r] = next] /\ UNCHANGED <<rows, held, history, faults>>
    BY <1>16, <2>2, <2>3 DEF ConfirmRegistered
  <2> QED  BY <2>4, <2>5, KeepsTokens, RowTypes DEF rows, history, MarkType
<1>26. ASSUME NEW r \in Requests, Supersede(r) PROVE Typed'
  BY <1>26, SupersedeType
<1>17. ASSUME NEW r \in Requests, ResetCommit(r) PROVE Typed'
  <2>1. PICK u, o : u = req[r].user /\ o = req[r].old  OBVIOUS
  <2>2. u \in Users /\ o \in OneTime /\ onetime[o].status # "none"
    BY <1>17, <2>1 DEF ResetCommit, Typed, UserInv, HandInv, Created
  <2>3. account' \in [Users -> Accounts]
    BY <1>17, <1>a, <2>1, <2>2, RowTypes DEF ResetCommit
  <2>4. onetime' = [onetime EXCEPT ![o] = Used(@)]  BY <1>17, <2>1 DEF ResetCommit
  <2>5. /\ onetime' \in [OneTime -> OneTimes]
        /\ \A x \in OneTime : /\ onetime'[x].user = onetime[x].user
                              /\ onetime'[x].kind = onetime[x].kind
                              /\ onetime'[x].status = "none" <=> onetime[x].status = "none"
                              /\ onetime'[x].status = "used" <=> onetime'[x].uses > 0
    BY <2>2, <2>4, UseType
  <2>6. /\ refresh' \in [Tokens -> Sessions]
        /\ \A x \in Tokens : /\ refresh'[x].user = refresh[x].user
                             /\ refresh'[x].family = refresh[x].family
                             /\ refresh'[x].status = "none" <=> refresh[x].status = "none"
    <3>1. RevokeSessions(u)  BY <1>17, <2>1 DEF ResetCommit
    <3> QED  BY <2>2, <3>1, RevokeType
  <2>7. /\ req' \in [Requests -> Handlers] /\ req'[r].pc = "idle"
        /\ \A q \in Requests \ {r} : req'[q] = req[q]
    BY <1>17, GoType, IdleType DEF ResetCommit, Typed
  <2>8. UNCHANGED <<held, forked, crossed, doubled, overlapped, faults>> /\ cut' \in SUBSET Tokens
    <3>1. FamiliesOf(u) \subseteq Tokens
      BY DEF FamiliesOf, Typed, NumberInv, Issued
    <3> QED  BY <1>17, <2>1, <3>1, RowTypes DEF ResetCommit, MarkType
  <2>9. MarkType' /\ held' = held  BY <2>8, RowTypes DEF MarkType
  <2> QED  BY <2>3, <2>5, <2>6, <2>7, <2>9, RowTypes, KeepsRows
<1>18. ASSUME NEW r \in Requests, MarkUser(r) PROVE Typed'
  <2> DEFINE next == [req[r] EXCEPT !.pc = "markToken"]
  <2>1. /\ req[r] \in Handlers /\ req[r].user \in Users /\ req[r].pc = "markUser"
        /\ req[r].old \in Created /\ onetime[req[r].old].user = req[r].user
        /\ onetime[req[r].old].kind = "verify"
    BY <1>18, RowTypes DEF MarkUser, Typed, UserInv, HandInv
  <2>2. next \in Handlers /\ next.pc = "markToken" /\ next.user = req[r].user /\ next.old = req[r].old
    BY <1>0, <2>1 DEF Handlers
  <2>3. req' = [req EXCEPT ![r] = next] /\ UNCHANGED <<refresh, onetime, held, history, faults>>
    BY <1>18 DEF MarkUser
  <2>4. account' \in [Users -> Accounts]
    BY <1>18, <1>a, <2>1, RowTypes DEF MarkUser
  <2> HIDE DEF next
  <2> QED  BY <2>1, <2>2, <2>3, <2>4, KeepsTokens, RowTypes DEF history, MarkType
<1>19. ASSUME NEW r \in Requests, MarkToken(r) PROVE Typed'
  <2>1. PICK o : o = req[r].old  OBVIOUS
  <2>2. o \in OneTime /\ onetime[o].status # "none"
    BY <1>19, <2>1 DEF MarkToken, Typed, HandInv, Created
  <2>3. onetime' = [onetime EXCEPT ![o] = Used(@)]  BY <1>19, <2>1 DEF MarkToken
  <2>4. /\ onetime' \in [OneTime -> OneTimes]
        /\ \A x \in OneTime : /\ onetime'[x].user = onetime[x].user
                              /\ onetime'[x].kind = onetime[x].kind
                              /\ onetime'[x].status = "none" <=> onetime[x].status = "none"
                              /\ onetime'[x].status = "used" <=> onetime'[x].uses > 0
    BY <2>2, <2>3, UseType
  <2>5. /\ req' \in [Requests -> Handlers] /\ req'[r].pc = "idle"
        /\ \A q \in Requests \ {r} : req'[q] = req[q]
    BY <1>19, GoType, IdleType DEF MarkToken, Typed
  <2>6. UNCHANGED <<account, refresh, held, history, faults>>  BY <1>19 DEF MarkToken
  <2>7. MarkType' /\ held' = held /\ account' = account /\ refresh' = refresh
    BY <2>6, RowTypes DEF MarkType, history
  <2> QED  BY <2>4, <2>5, <2>7, RowTypes, KeepsRows
<1>20. ASSUME NEW r \in Requests, Retire(r) PROVE Typed'
  <2>1. PICK t, n : t = req[r].old /\ n = req[r].new  OBVIOUS
  <2>2. t \in held /\ t \in Tokens /\ refresh[t].status # "none"
    BY <1>20, <2>1, RowTypes DEF Retire, Typed, HandInv, Issued
  <2>3. refresh' = [refresh EXCEPT ![t] = [@ EXCEPT !.status = "revoked"]]
    BY <1>20, <2>1 DEF Retire, Retired
  <2>4. /\ refresh' \in [Tokens -> Sessions]
        /\ \A x \in Tokens : /\ refresh'[x].user = refresh[x].user
                             /\ refresh'[x].family = refresh[x].family
                             /\ refresh'[x].status = "none" <=> refresh[x].status = "none"
    BY <2>2, <2>3, StatusType
  <2>5. /\ req' \in [Requests -> Handlers] /\ req'[r].pc = "idle"
        /\ \A q \in Requests \ {r} : req'[q] = req[q]
    BY <1>20, GoType, IdleType DEF Retire, Typed
  <2>6. n \in Issued /\ held' \in {held, held \cup {n}}
    BY <1>20, <2>1 DEF Retire, Typed, HandInv
  <2>7. MarkType'
    <3>1. faults' \in 0..MaxFaults  BY <1>20, FaultType, RowTypes DEF Retire, MarkType
    <3>2. Family(t) \in Tokens  BY <2>2 DEF Typed, NumberInv, Issued
    <3> QED  BY <1>20, <2>1, <3>1, <3>2, RowTypes DEF Retire, MarkType
  <2>8. account' = account /\ onetime' = onetime  BY <1>20 DEF Retire
  <2> QED  BY <2>4, <2>5, <2>6, <2>7, <2>8, RowTypes, KeepsRows
<1>21. ASSUME NEW r \in Requests, Revoke(r) PROVE Typed'
  <2>1. PICK t : t = req[r].old  OBVIOUS
  <2>2. t \in held /\ t \in Tokens /\ refresh[t].status # "none"
    BY <1>21, <2>1, RowTypes DEF Revoke, Typed, HandInv, Issued
  <2>3. refresh' = [refresh EXCEPT ![t] = [@ EXCEPT !.status = "revoked"]]
    BY <1>21, <2>1 DEF Revoke, Retired
  <2>4. /\ refresh' \in [Tokens -> Sessions]
        /\ \A x \in Tokens : /\ refresh'[x].user = refresh[x].user
                             /\ refresh'[x].family = refresh[x].family
                             /\ refresh'[x].status = "none" <=> refresh[x].status = "none"
    BY <2>2, <2>3, StatusType
  <2>5. /\ req' \in [Requests -> Handlers] /\ req'[r].pc = "idle"
        /\ \A q \in Requests \ {r} : req'[q] = req[q]
    BY <1>21, GoType, IdleType DEF Revoke, Typed
  <2>6. MarkType'
    <3>1. Family(t) \in Tokens  BY <2>2 DEF Typed, NumberInv, Issued
    <3> QED  BY <1>21, <2>1, <3>1, RowTypes DEF Revoke, MarkType
  <2>7. account' = account /\ onetime' = onetime /\ held' = held  BY <1>21 DEF Revoke
  <2> QED  BY <2>4, <2>5, <2>6, <2>7, RowTypes, KeepsRows
<1>22. ASSUME NEW r \in Requests, HandlerFails(r) PROVE Typed'
  <2>1. faults' \in 0..MaxFaults  BY <1>22, FaultType DEF HandlerFails
  <2>2. forked' \in SUBSET Tokens
    <3>1. req[r].pc = "retire" => Family(req[r].old) \in Tokens
      BY RowTypes DEF Typed, HandInv, NumberInv, Issued
    <3> QED  BY <1>22, <3>1, RowTypes DEF HandlerFails, MarkType
  <2>4. req' = [req EXCEPT ![r] = Idle] /\ UNCHANGED <<rows, held, cut, crossed, doubled, overlapped>>
    BY <1>22 DEF HandlerFails
  <2> QED  BY <2>1, <2>2, <2>4, IdleType, KeepsTokens, RowTypes DEF rows, MarkType
<1>23. ASSUME NEW t \in Tokens, ExpireRefresh(t) PROVE Typed'
  <2>1. /\ refresh' \in [Tokens -> Sessions]
        /\ \A x \in Tokens : /\ refresh'[x].user = refresh[x].user
                             /\ refresh'[x].family = refresh[x].family
                             /\ refresh'[x].status = "none" <=> refresh[x].status = "none"
    BY <1>23, StatusType DEF ExpireRefresh
  <2>2. UNCHANGED <<account, onetime, req, held, forked, crossed, doubled, overlapped, faults>>
    BY <1>23 DEF ExpireRefresh
  <2>3. cut' \in SUBSET Tokens
    <3>1. Family(t) \in Tokens  BY <1>23 DEF ExpireRefresh, Typed, NumberInv, Issued
    <3> QED  BY <1>23, <3>1, RowTypes DEF ExpireRefresh, MarkType
  <2>4. MarkType'  BY <2>2, <2>3, RowTypes DEF MarkType
  <2> QED  BY <2>1, <2>2, <2>4, RowTypes, KeepsReq
<1>24. ASSUME NEW o \in OneTime, ExpireOneTime(o) PROVE Typed'
  <2>1. /\ onetime' \in [OneTime -> OneTimes]
        /\ \A x \in OneTime : /\ onetime'[x].user = onetime[x].user
                              /\ onetime'[x].kind = onetime[x].kind
                              /\ onetime'[x].status = "none" <=> onetime[x].status = "none"
                              /\ onetime'[x].status = "used" <=> onetime'[x].uses > 0
    BY <1>24, UseType DEF ExpireOneTime
  <2>2. UNCHANGED <<account, refresh, req, held, history, faults>>
    BY <1>24 DEF ExpireOneTime
  <2>3. MarkType'  BY <2>2, RowTypes DEF MarkType, history
  <2> QED  BY <2>1, <2>2, <2>3, RowTypes, KeepsReq
<1>25. CASE UNCHANGED vars
  <2>1. UNCHANGED <<account, refresh, onetime, req, held, history, faults>>
    BY <1>25 DEF vars, rows
  <2>2. MarkType'  BY <2>1, RowTypes DEF MarkType, history
  <2> QED  BY <2>1, <2>2, RowTypes, KeepsReq
<1> QED
  BY <1>1, <1>2, <1>3, <1>4, <1>5, <1>6, <1>7, <1>8, <1>9, <1>10, <1>11, <1>12, <1>13, <1>14,
     <1>15, <1>16, <1>17, <1>18, <1>19, <1>20, <1>21, <1>22, <1>23, <1>24, <1>25,
     <1>26, Zenon DEF Next, Start

-----------------------------------------------------------------------------
(* What steps do to sessions.                                              *)

Turn(r) == \A q \in Requests \ {r} : req'[q] = req[q]

\* A step that neither starts nor ends a rotation properly and writes no session.
Quiet ==
    /\ UNCHANGED <<refresh, held, cut, crossed>>
    /\ forked \subseteq forked'
    /\ \A u \in Users : account'[u].pw = account[u].pw
    /\ \A q \in Requests : req'[q].pc \in {"reissue", "retire"} => req'[q] = req[q]
    /\ \A q \in Requests : req[q].pc = "retire" /\ req'[q] # req[q] =>
          Family(req[q].old) \in forked'

LEMMA QuietTurn ==
    ASSUME Typed, NEW r \in Requests, Turn(r), req[r].pc # "retire",
           req'[r].pc \notin {"reissue", "retire"},
           UNCHANGED <<refresh, held, cut, forked, crossed>>,
           \A u \in Users : account'[u].pw = account[u].pw
    PROVE  Quiet
  BY DEF Quiet, Turn

LEMMA SessionStep ==
    ASSUME Typed, [Next]_vars
    PROVE  \/ Quiet
           \/ \E r \in Requests, t \in Tokens : Refresh(r, t) \/ Issue(r, t) \/ Reissue(r, t)
           \/ \E r \in Requests : Retire(r) \/ Revoke(r) \/ ResetCommit(r)
           \/ \E t \in Tokens : ExpireRefresh(t)
<1>a. ASSUME NEW u \in Users
      PROVE  /\ account[u] \in Accounts /\ Confirmed(account[u]).pw = account[u].pw
             /\ [account[u] EXCEPT !.exists = TRUE].pw = account[u].pw
             /\ [account[u] EXCEPT !.verified = TRUE].pw = account[u].pw
  <2>1. account[u] \in Accounts  BY RowTypes
  <2> QED  BY <2>1 DEF Accounts, Confirmed
<1>b. account \in [Users -> Accounts] /\ req \in [Requests -> Handlers]  BY RowTypes
<1>c. ASSUME NEW r \in Requests
      PROVE  /\ [req[r] EXCEPT !.pc = "lookup"].pc = "lookup"
             /\ [req[r] EXCEPT !.pc = "issue"].pc = "issue"
             /\ [req[r] EXCEPT !.pc = "supersede"].pc = "supersede"
             /\ [req[r] EXCEPT !.pc = "create"].pc = "create"
             /\ [req[r] EXCEPT !.pc = "markToken"].pc = "markToken"
  <2>1. req[r] \in Handlers  BY <1>b
  <2> QED  BY <2>1 DEF Handlers
<1>1. ASSUME NEW r \in Requests, NEW u, Lookup(r, u), req[r].pc # "retire" PROVE Quiet
  <2>1. req'[r].pc = "issue" /\ Turn(r)  BY <1>1, <1>b DEF Turn, Lookup, Handler
  <2> QED  BY <1>1, <2>1, QuietTurn DEF Lookup, rows, history
<1>2. ASSUME NEW r \in Requests, NEW u \in Users, Start(r, u) PROVE Quiet
  <2>1. CASE Login(r, u)  BY <1>1, <2>1 DEF Login
  <2>2. CASE LoginUnknown(r, u)
    <3>1. req'[r].pc = "ensure" /\ Turn(r)  BY <2>2, <1>b DEF Turn, LoginUnknown, Handler
    <3> QED  BY <2>2, <3>1, QuietTurn DEF LoginUnknown, rows, history
  <2>3. CASE FederatedLogin(r, u)
    <3>1. req'[r].pc = "issue" /\ Turn(r)  BY <2>3, <1>b DEF Turn, FederatedLogin, Handler
    <3>2. \A x \in Users : account'[x].pw = account[x].pw
      BY <1>a, <1>b, <2>3 DEF FederatedLogin, SyncFederatedUser
    <3> QED  BY <2>3, <3>1, <3>2, QuietTurn DEF FederatedLogin, history
  <2>4. CASE Register(r, u)
    <3>1. req'[r].pc = "confirm" /\ Turn(r)  BY <2>4, <1>b DEF Turn, Register, Creating
    <3>2. \A x \in Users : account'[x].pw = account[x].pw  BY <1>a, <1>b, <2>4 DEF Register
    <3> QED  BY <2>4, <3>1, <3>2, QuietTurn DEF Register, history
  <2>5. CASE ForgotPassword(r, u) \/ ResendVerification(r, u)
    <3>1. req'[r].pc = "supersede" /\ Turn(r)
      BY <2>5, <1>b DEF Turn, ForgotPassword, ResendVerification, Creating
    <3> QED  BY <2>5, <3>1, QuietTurn DEF ForgotPassword, ResendVerification, rows, history
  <2> QED  BY <1>2, <2>1, <2>2, <2>3, <2>4, <2>5 DEF Start
<1>3. ASSUME NEW r \in Requests, NEW t \in Tokens, Logout(r, t) PROVE Quiet
  <2>1. req'[r].pc = "revoke" /\ Turn(r)  BY <1>3, <1>b DEF Turn, Logout, Handler
  <2> QED  BY <1>3, <2>1, QuietTurn DEF Logout, rows, history
<1>4. ASSUME NEW r \in Requests, NEW o \in OneTime, ResetPassword(r, o) \/ VerifyEmail(r, o)
      PROVE  Quiet
  <2>1. PICK kind \in Kinds, next \in {"commit", "markUser"} : AcceptOneTime(r, o, kind, next)
    BY <1>4, Zenon DEF ResetPassword, VerifyEmail, Kinds
  <2>2. req'[r].pc = next /\ Turn(r)  BY <2>1, <1>b DEF Turn, AcceptOneTime, Using
  <2> QED  BY <2>1, <2>2, QuietTurn DEF AcceptOneTime, rows
<1>5. ASSUME NEW r \in Requests, NEW o \in OneTime, CreateOneTime(r, o) PROVE Quiet
  <2>1. req[r].pc = "create" /\ req'[r].pc \in {"idle", "issue"} /\ Turn(r)
    BY <1>5, CreateType DEF Turn
  <2> QED  BY <1>5, <2>1, QuietTurn DEF CreateOneTime, history
<1>6. ASSUME NEW r \in Requests, EnsureUser(r) PROVE Quiet
  <2>1. req'[r].pc \in {"lookup", "idle"} /\ Turn(r)
    BY <1>6, <1>c, <1>b, IdleType DEF Turn, EnsureUser
  <2>2. req[r].user \in Users  BY <1>6 DEF EnsureUser, Typed, UserInv
  <2>3. \A x \in Users : account'[x].pw = account[x].pw
    BY <1>6, <1>a, <1>b, <2>2 DEF EnsureUser
  <2> QED  BY <1>6, <2>1, <2>3, QuietTurn DEF EnsureUser, history
<1>7. ASSUME NEW r \in Requests, LookupEnsured(r) PROVE Quiet
  BY <1>1, <1>7 DEF LookupEnsured
<1>8. ASSUME NEW r \in Requests, ConfirmRegistered(r) \/ Supersede(r) PROVE Quiet
  <2>1. /\ req'[r].pc \in {"issue", "supersede", "create"} /\ Turn(r)
        /\ req[r].pc \in {"confirm", "supersede"}
    BY <1>8, <1>b, <1>c DEF Turn, ConfirmRegistered, Supersede
  <2>2. UNCHANGED <<account, refresh, held, cut, forked, crossed>>
    BY <1>8 DEF ConfirmRegistered, Supersede, rows, history
  <2> QED  BY <2>1, <2>2, QuietTurn
<1>9. ASSUME NEW r \in Requests, MarkUser(r) PROVE Quiet
  <2>1. req'[r].pc = "markToken" /\ Turn(r)  BY <1>9, <1>c, <1>b DEF Turn, MarkUser
  <2>2. req[r].user \in Users  BY <1>9 DEF MarkUser, Typed, UserInv
  <2>3. \A x \in Users : account'[x].pw = account[x].pw
    BY <1>9, <1>a, <1>b, <2>2 DEF MarkUser
  <2> QED  BY <1>9, <2>1, <2>3, QuietTurn DEF MarkUser, history
<1>10. ASSUME NEW r \in Requests, MarkToken(r) PROVE Quiet
  <2>1. req'[r].pc = "idle" /\ Turn(r)  BY <1>10, <1>b, IdleType DEF Turn, MarkToken
  <2> QED  BY <1>10, <2>1, QuietTurn DEF MarkToken, history
<1>11. ASSUME NEW r \in Requests, HandlerFails(r) PROVE Quiet
  <2>1. req'[r].pc = "idle" /\ Turn(r)  BY <1>11, <1>b, IdleType DEF Turn, HandlerFails
  <2>2. /\ UNCHANGED <<account, refresh, held, cut, crossed>> /\ forked \subseteq forked'
        /\ req[r].pc = "retire" => Family(req[r].old) \in forked'
    BY <1>11 DEF HandlerFails, rows
  <2> QED  BY <2>1, <2>2 DEF Quiet, Turn
<1>12. ASSUME NEW o \in OneTime, ExpireOneTime(o) PROVE Quiet
  BY <1>12 DEF ExpireOneTime, Quiet, history
<1>13. CASE UNCHANGED vars  BY <1>13 DEF vars, rows, history, Quiet
<1> QED
  BY <1>2, <1>3, <1>4, <1>5, <1>6, <1>7, <1>8, <1>9, <1>10, <1>11, <1>12, <1>13, Zenon DEF Next

-----------------------------------------------------------------------------
(* What each of these actions does to the rows.                            *)

\* Sessions only end.
Shrinks ==
    /\ \A x \in Tokens : /\ refresh'[x].user = refresh[x].user
                         /\ refresh'[x].gen = refresh[x].gen
                         /\ Family(x)' = Family(x)
                         /\ refresh'[x].status = "live" => refresh[x].status = "live"
                         /\ Unrevoked(x)' => Unrevoked(x)
    /\ Issued' = Issued

LEMMA RefreshEffect ==
    ASSUME Typed, NEW r \in Requests, NEW t \in Tokens, Refresh(r, t)
    PROVE  /\ req[r].pc = "idle" /\ req'[r].pc = "reissue" /\ req'[r].old = t /\ Turn(r)
           /\ t \in held /\ t \in LiveIn(Family(t)) /\ forked \subseteq forked'
           /\ UNCHANGED <<account, refresh, onetime, held, cut, crossed>>
           /\ \A q \in Requests \ {r} : req[q].pc \in {"reissue", "retire"} /\ req[q].old = t =>
                 Family(t) \in forked'
<1>1. req \in [Requests -> Handlers]  BY RowTypes
<1>2. req'[r].pc = "reissue" /\ req'[r].old = t /\ Turn(r)
  BY <1>1 DEF Refresh, Handler, Turn
<1> QED  BY <1>2 DEF Refresh, Valid, LiveIn, rows

LEMMA IssueEffect ==
    ASSUME Typed, NEW r \in Requests, NEW t \in Tokens, Issue(r, t)
    PROVE  /\ req[r].pc = "issue" /\ req'[r].pc = "idle" /\ Turn(r)
           /\ t \notin Issued /\ Issued' = Issued \cup {t}
           /\ refresh'[t].status = "live" /\ refresh'[t].family = t
           /\ refresh'[t].user = req[r].user /\ refresh'[t].gen = req[r].gen
           /\ \A x \in Tokens \ {t} : refresh'[x] = refresh[x]
           /\ crossed' = IF req[r].gen < account[req[r].user].pw THEN crossed \cup {t} ELSE crossed
           /\ held' = held \/ held' = held \cup {t}
           /\ UNCHANGED <<account, cut, forked>>
<1>1. req \in [Requests -> Handlers]  BY RowTypes
<1>2. req[r].user \in Users /\ Insert(r, t, t)  BY DEF Issue, Typed, UserInv
<1>3. req'[r].pc = "idle" /\ Turn(r)  BY <1>1, IdleType DEF Issue, Turn
<1>4. /\ t \notin Issued /\ Issued' = Issued \cup {t}
      /\ refresh'[t] = [status |-> "live", user |-> req[r].user, family |-> t,
                        gen |-> req[r].gen]
      /\ \A x \in Tokens \ {t} : refresh'[x] = refresh[x]
  BY <1>2, InsertsRow
<1> QED  BY <1>2, <1>3, <1>4 DEF Issue, Insert

LEMMA ReissueEffect ==
    ASSUME Typed, NEW r \in Requests, NEW t \in Tokens, Reissue(r, t)
    PROVE  /\ req[r].pc = "reissue" /\ req'[r].pc = "retire" /\ Turn(r)
           /\ req'[r].old = req[r].old /\ req'[r].new = t /\ req[r].old \in held
           /\ t \notin Issued /\ Issued' = Issued \cup {t}
           /\ refresh'[t].status = "live" /\ refresh'[t].family = Family(req[r].old)
           /\ refresh'[t].user = req[r].user /\ refresh'[t].gen = req[r].gen
           /\ \A x \in Tokens \ {t} : refresh'[x] = refresh[x]
           /\ crossed' = IF req[r].gen < account[req[r].user].pw THEN crossed \cup {t} ELSE crossed
           /\ UNCHANGED <<account, held, cut, forked>>
<1>1. req \in [Requests -> Handlers]  BY RowTypes
<1>2. req[r].user \in Users /\ req[r].old \in held /\ Insert(r, t, Family(req[r].old))
      /\ req[r].pc = "reissue" /\ UNCHANGED <<account, held, cut, forked>>
  BY DEF Reissue, Typed, UserInv, HandInv
<1>3. PICK f : f = Family(req[r].old)  OBVIOUS
<1>4. f \in Issued /\ Insert(r, t, f)  BY <1>2, <1>3, RowTypes DEF Typed, NumberInv
<1>5. /\ t \notin Issued /\ Issued' = Issued \cup {t}
      /\ refresh'[t] = [status |-> "live", user |-> req[r].user, family |-> f,
                        gen |-> req[r].gen]
      /\ \A x \in Tokens \ {t} : refresh'[x] = refresh[x]
  BY <1>2, <1>4, InsertsRow
<1>6. req'[r].pc = "retire" /\ req'[r].old = req[r].old /\ req'[r].new = t /\ Turn(r)
  <2>1. PICK h : h = Handler("retire", req[r].user, req[r].old, req[r].gen)  OBVIOUS
  <2>2. req' = [req EXCEPT ![r] = [h EXCEPT !.new = t]]  BY <2>1 DEF Reissue
  <2>3. "retire" \in Steps /\ req[r] \in Handlers  BY <1>1 DEF Steps
  <2>4. h \in Handlers /\ h.pc = "retire" /\ h.old = req[r].old
    <3>1. h \in Handlers  BY <1>2, <2>1, <2>3, HandlerType DEF Handlers
    <3> QED  BY <2>1, <3>1 DEF Handler
  <2>5. [h EXCEPT !.new = t].pc = "retire" /\ [h EXCEPT !.new = t].old = req[r].old
        /\ [h EXCEPT !.new = t].new = t
    BY <2>4 DEF Handlers
  <2> QED  BY <1>1, <2>2, <2>5 DEF Turn
<1> QED  BY <1>2, <1>3, <1>5, <1>6 DEF Insert

LEMMA EndEffect ==
    ASSUME Typed, NEW t \in Tokens, NEW status \in {"expired", "revoked"},
           refresh[t].status # "none", status = "expired" => refresh[t].status = "live",
           refresh' = [refresh EXCEPT ![t] = [@ EXCEPT !.status = status]]
    PROVE  /\ Shrinks /\ refresh'[t].status = status
           /\ \A x \in Tokens \ {t} : refresh'[x] = refresh[x]
  BY StatusType DEF Shrinks, Family, Unrevoked, Issued

LEMMA RetireEffect ==
    ASSUME Typed, NEW r \in Requests, Retire(r)
    PROVE  /\ req[r].pc = "retire" /\ req'[r].pc = "idle" /\ Turn(r)
           /\ req[r].old \in held /\ Shrinks /\ refresh'[req[r].old].status = "revoked"
           /\ \A x \in Tokens \ {req[r].old} : refresh'[x] = refresh[x]
           /\ \/ held' = held \cup {req[r].new} /\ cut' = cut
              \/ held' = held /\ cut' = cut \cup {Family(req[r].old)}
           /\ UNCHANGED <<account, forked, crossed>>
<1>1. req \in [Requests -> Handlers]  BY RowTypes
<1>2. req'[r].pc = "idle" /\ Turn(r)  BY <1>1, IdleType DEF Retire, Turn
<1>3. PICK t : t = req[r].old  OBVIOUS
<1>4. t \in held /\ t \in Tokens /\ refresh[t].status # "none"
  BY <1>3, RowTypes DEF Retire, Typed, HandInv, Issued
<1>5. refresh' = [refresh EXCEPT ![t] = [@ EXCEPT !.status = "revoked"]]
  BY <1>3 DEF Retire, Retired
<1>6. /\ Shrinks /\ refresh'[t].status = "revoked"
      /\ \A x \in Tokens \ {t} : refresh'[x] = refresh[x]
  BY <1>4, <1>5, EndEffect
<1> QED  BY <1>2, <1>3, <1>4, <1>6 DEF Retire

LEMMA RevokeEffect ==
    ASSUME Typed, NEW r \in Requests, Revoke(r)
    PROVE  /\ req[r].pc = "revoke" /\ req'[r].pc = "idle" /\ Turn(r)
           /\ req[r].old \in held /\ Shrinks
           /\ \A x \in Tokens \ {req[r].old} : refresh'[x] = refresh[x]
           /\ cut' = cut \cup {Family(req[r].old)}
           /\ UNCHANGED <<account, held, forked, crossed>>
<1>1. req \in [Requests -> Handlers]  BY RowTypes
<1>2. req'[r].pc = "idle" /\ Turn(r)  BY <1>1, IdleType DEF Revoke, Turn
<1>3. PICK t : t = req[r].old  OBVIOUS
<1>4. t \in held /\ t \in Tokens /\ refresh[t].status # "none"
  BY <1>3, RowTypes DEF Revoke, Typed, HandInv, Issued
<1>5. refresh' = [refresh EXCEPT ![t] = [@ EXCEPT !.status = "revoked"]]
  BY <1>3 DEF Revoke, Retired
<1>6. Shrinks /\ \A x \in Tokens \ {t} : refresh'[x] = refresh[x]
  BY <1>4, <1>5, EndEffect
<1> QED  BY <1>2, <1>3, <1>4, <1>6 DEF Revoke

LEMMA CommitEffect ==
    ASSUME Typed, NEW r \in Requests, ResetCommit(r)
    PROVE  /\ req[r].pc = "commit" /\ req'[r].pc = "idle" /\ Turn(r)
           /\ req[r].user \in Users /\ Shrinks
           /\ \A x \in Tokens : refresh'[x].status = IF refresh[x].user = req[r].user /\ Unrevoked(x)
                                                     THEN "revoked" ELSE refresh[x].status
           /\ \A u \in Users \ {req[r].user} : account'[u].pw = account[u].pw
           /\ cut' = cut \cup FamiliesOf(req[r].user)
           /\ UNCHANGED <<held, forked, crossed>>
<1>1. req \in [Requests -> Handlers] /\ account \in [Users -> Accounts]  BY RowTypes
<1>2. req'[r].pc = "idle" /\ Turn(r)  BY <1>1, IdleType DEF ResetCommit, Turn
<1>3. PICK u : u = req[r].user  OBVIOUS
<1>4. u \in Users /\ RevokeSessions(u)  BY <1>3 DEF ResetCommit, Typed, UserInv
<1>5. \A x \in Tokens : /\ refresh'[x].user = refresh[x].user
                        /\ refresh'[x].family = refresh[x].family
                        /\ refresh'[x].gen = refresh[x].gen
                        /\ refresh'[x].status = "none" <=> refresh[x].status = "none"
                        /\ refresh'[x].status = IF refresh[x].user = u /\ Unrevoked(x)
                                                THEN "revoked" ELSE refresh[x].status
  BY <1>4, RevokeType
<1>6. Shrinks  BY <1>5 DEF Shrinks, Family, Unrevoked, Issued
<1>7. \A x \in Users \ {u} : account'[x].pw = account[x].pw
  BY <1>1, <1>3 DEF ResetCommit
<1> QED  BY <1>2, <1>3, <1>4, <1>5, <1>6, <1>7 DEF ResetCommit

LEMMA ExpireEffect ==
    ASSUME Typed, NEW t \in Tokens, ExpireRefresh(t)
    PROVE  /\ Shrinks /\ \A x \in Tokens \ {t} : refresh'[x] = refresh[x]
           /\ t \in Issued /\ cut' = cut \cup {Family(t)}
           /\ UNCHANGED <<account, req, held, forked, crossed>>
  BY EndEffect DEF ExpireRefresh, Issued

-----------------------------------------------------------------------------
(* Sessions and resets.                                                    *)

LEMMA ResetStep == ASSUME Typed, ResetEndsSessions, [Next]_vars PROVE ResetEndsSessions'
<1> DEFINE Ok(x) == Unrevoked(x) /\ refresh[x].gen < account[refresh[x].user].pw => x \in crossed
<1>0. \A x \in Tokens : Unrevoked(x) => refresh[x].user \in Users
  BY DEF Typed, UserInv, Issued, Unrevoked
<1>1. CASE Quiet
  BY <1>0, <1>1 DEF Quiet, ResetEndsSessions, Unrevoked
<1>2. ASSUME NEW r \in Requests, NEW t \in Tokens, Issue(r, t) \/ Reissue(r, t)
      PROVE  ResetEndsSessions'
  <2>1. /\ refresh'[t].user = req[r].user /\ refresh'[t].gen = req[r].gen
        /\ \A x \in Tokens \ {t} : refresh'[x] = refresh[x]
        /\ crossed' = IF req[r].gen < account[req[r].user].pw THEN crossed \cup {t} ELSE crossed
        /\ account' = account
    BY <1>2, IssueEffect, ReissueEffect
  <2>2. ASSUME NEW x \in Tokens PROVE Ok(x)'
    <3>1. CASE x = t  BY <2>1, <3>1
    <3>2. CASE x # t  BY <2>1, <3>2 DEF ResetEndsSessions, Unrevoked
    <3> QED  BY <3>1, <3>2
  <2> QED  BY <2>2 DEF ResetEndsSessions
<1>3. ASSUME NEW r \in Requests, NEW t \in Tokens, Refresh(r, t) PROVE ResetEndsSessions'
  BY <1>3, RefreshEffect DEF ResetEndsSessions, Unrevoked
<1>4. ASSUME Shrinks, account' = account, crossed' = crossed PROVE ResetEndsSessions'
  BY <1>4 DEF Shrinks, ResetEndsSessions
<1>5. ASSUME NEW r \in Requests, ResetCommit(r) PROVE ResetEndsSessions'
  <2>1. PICK u : u = req[r].user  OBVIOUS
  <2>2. /\ Shrinks /\ crossed' = crossed
        /\ \A x \in Tokens : refresh'[x].status = IF refresh[x].user = u /\ Unrevoked(x)
                                                  THEN "revoked" ELSE refresh[x].status
        /\ \A x \in Users \ {u} : account'[x].pw = account[x].pw
    BY <1>5, <2>1, CommitEffect
  <2>3. ASSUME NEW x \in Tokens, Unrevoked(x)' PROVE Ok(x)'
    <3>1. Unrevoked(x) /\ refresh'[x].user = refresh[x].user /\ refresh'[x].gen = refresh[x].gen
      BY <2>2, <2>3 DEF Shrinks
    <3>2. refresh[x].user # u  BY <2>2, <2>3, <3>1 DEF Unrevoked
    <3> QED  BY <1>0, <2>2, <3>1, <3>2 DEF ResetEndsSessions
  <2> QED  BY <2>3 DEF ResetEndsSessions
<1> QED
  BY <1>1, <1>2, <1>3, <1>4, <1>5, SessionStep, RetireEffect, RevokeEffect, ExpireEffect, Zenon

\* No session from before a password reset outlives it, for any number of
\* logins, rotations and resets at once; the exception are tokens issued after
\* it by handlers that had read the old state (auth.service.ts:217-233).
THEOREM ResetsEndSessions == Spec => []ResetEndsSessions
<1>1. Init => Typed /\ ResetEndsSessions
  BY InitTypes DEF Typed, Init, ResetEndsSessions, Unrevoked, NoToken
<1>2. Typed /\ ResetEndsSessions /\ [Next]_vars => (Typed /\ ResetEndsSessions)'
  BY StepTypes, ResetStep
<1> QED  BY <1>1, <1>2, PTL DEF Spec

\* Every variable of SessionTokens keeps its type (the columns of schema.prisma
\* and the fields a handler of auth.routes.ts holds between two awaits), and
\* what handlers hold on to exists.
THEOREM SessionTypes == Spec => []TypeOK
<1>1. Init => Typed  BY InitTypes DEF Typed
<1>2. Typed /\ [Next]_vars => Typed'  BY StepTypes
<1>3. Typed => TypeOK  BY DEF Typed
<1> QED  BY <1>1, <1>2, <1>3, PTL DEF Spec

-----------------------------------------------------------------------------
(* One token to continue with.                                             *)

Rotates(r, f) == req[r].pc \in {"reissue", "retire"} /\ Family(req[r].old) = f
Successors(r) == {req[r].old} \cup (IF req[r].pc = "retire" THEN {req[r].new} ELSE {})

\* The successor a rotation has inserted is nobody else's yet.
NewInv ==
    /\ \A r \in Requests : req[r].pc = "retire" =>
          req[r].new \notin held /\ Family(req[r].new) = Family(req[r].old)
    /\ \A q \in Requests, r \in Requests :
          req[q].pc = "retire" /\ req[r].pc = "retire" /\ req[q].new = req[r].new => q = r

\* One handler rotates a family, and only the tokens it works on are live; a
\* family that nobody rotates has at most one live token.
RotationOf(f) ==
    /\ \A q \in Requests, r \in Requests : Rotates(q, f) /\ Rotates(r, f) => q = r
    /\ \A r \in Requests : Rotates(r, f) => LiveIn(f) \subseteq Successors(r)
    /\ (\A r \in Requests : ~Rotates(r, f)) => \A x \in LiveIn(f), y \in LiveIn(f) : x = y
RotationInv == \A f \in Tokens \ forked : RotationOf(f)

LEMMA NewStep == ASSUME Typed, NewInv, [Next]_vars PROVE NewInv'
<1> USE DEF NewInv
<1>0. /\ held \subseteq Issued /\ Issued \subseteq Tokens
      /\ \A r \in Requests : req[r].pc \in {"reissue", "retire"} => req[r].old \in Issued
      /\ \A r \in Requests : req[r].pc = "retire" => req[r].new \in Issued
  BY RowTypes DEF Typed, HandInv, Issued
<1>1. CASE Quiet
  BY <1>1 DEF Quiet, Family
<1>2. ASSUME NEW r \in Requests, NEW t \in Tokens, Refresh(r, t) PROVE NewInv'
  BY <1>2, RefreshEffect DEF Turn, Family
<1>3. ASSUME NEW r \in Requests, NEW t \in Tokens, Issue(r, t) PROVE NewInv'
  <2>1. /\ req'[r].pc = "idle" /\ Turn(r) /\ t \notin Issued /\ held' \subseteq held \cup {t}
        /\ \A x \in Tokens \ {t} : refresh'[x] = refresh[x]
    BY <1>3, IssueEffect
  <2>2. \A x \in Issued : Family(x)' = Family(x) /\ (x \in held' => x \in held)
    BY <1>0, <2>1 DEF Family
  <2>3. \A q \in Requests : req'[q].pc = "retire" => q # r /\ req'[q] = req[q]
    BY <2>1 DEF Turn
  <2> QED  BY <1>0, <2>2, <2>3
<1>4. ASSUME NEW r \in Requests, NEW t \in Tokens, Reissue(r, t) PROVE NewInv'
  <2>1. /\ req[r].pc = "reissue" /\ req'[r].old = req[r].old /\ req'[r].new = t /\ Turn(r)
        /\ t \notin Issued /\ held' = held /\ refresh'[t].family = Family(req[r].old)
        /\ \A x \in Tokens \ {t} : refresh'[x] = refresh[x]
    BY <1>4, ReissueEffect
  <2>2. \A x \in Issued : Family(x)' = Family(x) /\ x # t
    BY <1>0, <2>1 DEF Family
  <2>3. Family(t)' = Family(req[r].old)  BY <2>1 DEF Family
  <2>4. \A q \in Requests \ {r} : req'[q] = req[q]  BY <2>1 DEF Turn
  <2>5. ASSUME NEW q \in Requests, req'[q].pc = "retire"
        PROVE  req'[q].new \notin held' /\ refresh'[req'[q].new].family = refresh'[req'[q].old].family
    <3>1. CASE q = r
      BY <1>0, <2>1, <2>2, <2>3, <3>1 DEF Family
    <3>2. CASE q # r
      BY <1>0, <2>1, <2>2, <2>4, <2>5, <3>2 DEF Family
    <3> QED  BY <3>1, <3>2
  <2>6. \A q \in Requests, p \in Requests :
          req'[q].pc = "retire" /\ req'[p].pc = "retire" /\ req'[q].new = req'[p].new => q = p
    BY <1>0, <2>1, <2>2, <2>4
  <2>7. \A q \in Requests : req'[q].pc = "retire" =>
          req'[q].new \notin held' /\ refresh'[req'[q].new].family = refresh'[req'[q].old].family
    BY <2>5
  <2> QED  BY <2>6, <2>7 DEF Family
<1>5. ASSUME Shrinks, NEW r \in Requests, Turn(r), req'[r].pc = "idle", held' = held
      PROVE  NewInv'
  <2>1. \A q \in Requests : req'[q].pc = "retire" => req'[q] = req[q]  BY <1>5 DEF Turn
  <2> QED  BY <1>0, <1>5, <2>1 DEF Shrinks
<1>6. ASSUME NEW r \in Requests, Retire(r) PROVE NewInv'
  <2>1. /\ req[r].pc = "retire" /\ Shrinks /\ held' \subseteq held \cup {req[r].new}
        /\ req'[r].pc = "idle" /\ Turn(r)
    BY <1>6, RetireEffect
  <2>2. \A q \in Requests : req'[q].pc = "retire" => q # r /\ req'[q] = req[q]  BY <2>1 DEF Turn
  <2> QED  BY <1>0, <2>1, <2>2 DEF Shrinks
<1>7. ASSUME NEW t \in Tokens, ExpireRefresh(t) PROVE NewInv'
  BY <1>0, <1>7, ExpireEffect DEF Shrinks
<1>8. ASSUME NEW r \in Requests, Revoke(r) \/ ResetCommit(r) PROVE NewInv'
  BY <1>5, <1>8, RevokeEffect, CommitEffect
<1> QED  BY <1>1, <1>2, <1>3, <1>4, <1>6, <1>7, <1>8, SessionStep, Zenon

\* Nobody starts or advances a rotation, and sessions only end.
LEMMA RotationShrinks ==
    ASSUME Typed, NEW f \in Tokens, RotationOf(f), Shrinks,
           \A q \in Requests : \/ req'[q] = req[q]
                               \/ /\ req[q].pc \notin {"reissue", "retire"}
                                  /\ req'[q].pc \notin {"reissue", "retire"}
    PROVE  RotationOf(f)'
<1>1. LiveIn(f)' \subseteq LiveIn(f)  BY DEF LiveIn, Shrinks
<1>2. ASSUME NEW q \in Requests
      PROVE  /\ Rotates(q, f)' <=> Rotates(q, f)
             /\ Rotates(q, f) => Successors(q)' = Successors(q)
  <2>1. req[q].pc \in {"reissue", "retire"} => req[q].old \in Tokens
    BY RowTypes DEF Typed, HandInv, Issued
  <2>2. CASE req'[q] = req[q]
    BY <2>1, <2>2 DEF Rotates, Successors, Shrinks
  <2>3. CASE req'[q] # req[q]
    BY <2>3 DEF Rotates
  <2> QED  BY <2>2, <2>3
<1> HIDE DEF Rotates, Successors, LiveIn
<1> QED  BY <1>1, <1>2 DEF RotationOf

LEMMA RotationStep == ASSUME Typed, NewInv, RotationInv, [Next]_vars PROVE RotationInv'
<1>0. /\ held \subseteq Issued /\ Issued \subseteq Tokens
      /\ \A r \in Requests : req[r].pc \in {"reissue", "retire"} => req[r].old \in held
      /\ \A x \in Issued : Family(x) \in Issued
  BY RowTypes DEF Typed, HandInv, NumberInv, Issued
<1>a. \A f \in Tokens \ forked : RotationOf(f)  BY DEF RotationInv
<1>1. CASE Quiet
  <2>1. ASSUME NEW f \in Tokens \ forked' PROVE RotationOf(f)'
    <3>1. RotationOf(f)  BY <1>1, <1>a DEF Quiet
    <3>2. LiveIn(f)' = LiveIn(f) /\ \A x \in Tokens : Family(x)' = Family(x)
      BY <1>1 DEF Quiet, LiveIn, Family
    <3>3. ASSUME NEW q \in Requests
          PROVE  /\ Rotates(q, f)' => Rotates(q, f) /\ Successors(q)' = Successors(q)
                 /\ Rotates(q, f) /\ ~Rotates(q, f)' => req[q].pc = "reissue"
      <4>1. req[q].pc \in {"reissue", "retire"} => req[q].old \in Tokens  BY <1>0
      <4>2. CASE req'[q] = req[q]
        BY <3>2, <4>1, <4>2 DEF Rotates, Successors
      <4>3. CASE req'[q] # req[q]
        BY <1>1, <4>3 DEF Quiet, Rotates
      <4> QED  BY <4>2, <4>3
    <3>4. (\A q \in Requests : ~Rotates(q, f)') => \A x \in LiveIn(f), y \in LiveIn(f) : x = y
      <4>1. CASE \A q \in Requests : ~Rotates(q, f)  BY <3>1, <4>1 DEF RotationOf
      <4>2. ASSUME NEW q \in Requests, Rotates(q, f), ~Rotates(q, f)'
            PROVE  \A x \in LiveIn(f), y \in LiveIn(f) : x = y
        <5>1. Successors(q) = {req[q].old}  BY <3>3, <4>2 DEF Successors
        <5>2. LiveIn(f) \subseteq Successors(q)  BY <3>1, <4>2 DEF RotationOf
        <5> QED  BY <5>1, <5>2
      <4> QED  BY <4>1, <4>2
    <3> HIDE DEF Rotates, Successors, LiveIn
    <3>5. \A q \in Requests, r \in Requests : Rotates(q, f)' /\ Rotates(r, f)' => q = r
      BY <3>1, <3>3 DEF RotationOf
    <3>6. \A r \in Requests : Rotates(r, f)' => LiveIn(f)' \subseteq Successors(r)'
      BY <3>1, <3>2, <3>3 DEF RotationOf
    <3> QED  BY <3>2, <3>4, <3>5, <3>6 DEF RotationOf
  <2> QED  BY <2>1 DEF RotationInv
<1>2. ASSUME NEW r \in Requests, NEW t \in Tokens, Refresh(r, t) PROVE RotationInv'
  <2>1. /\ req[r].pc = "idle" /\ req'[r].pc = "reissue" /\ req'[r].old = t
        /\ t \in held /\ t \in LiveIn(Family(t)) /\ forked \subseteq forked'
        /\ refresh' = refresh
        /\ \A q \in Requests \ {r} : req[q].pc \in {"reissue", "retire"} /\ req[q].old = t =>
                 Family(t) \in forked'
    BY <1>2, RefreshEffect
  <2>2. \A q \in Requests \ {r} : req'[q] = req[q]  BY <1>2, RefreshEffect DEF Turn
  <2>3. ASSUME NEW f \in Tokens \ forked' PROVE RotationOf(f)'
    <3>1. RotationOf(f)  BY <1>a, <2>1
    <3>2. LiveIn(f)' = LiveIn(f) /\ \A x \in Tokens : Family(x)' = Family(x)
      BY <2>1 DEF LiveIn, Family
    <3>3. \A q \in Requests \ {r} : (Rotates(q, f)' <=> Rotates(q, f)) /\ Successors(q)' = Successors(q)
      BY <1>0, <2>2, <3>2 DEF Rotates, Successors
    <3>4. ~Rotates(r, f) /\ (Rotates(r, f)' <=> Family(t) = f) /\ Successors(r)' = {t}
      BY <1>0, <2>1, <3>2 DEF Rotates, Successors
    <3>5. CASE Family(t) = f
      <4>1. ASSUME NEW q \in Requests PROVE ~Rotates(q, f)
        <5>1. SUFFICES ASSUME Rotates(q, f) PROVE FALSE  OBVIOUS
        <5>2. q # r  BY <3>4, <5>1
        <5>3. t \in Successors(q)  BY <2>1, <3>1, <3>5, <5>1 DEF RotationOf
        <5>4. t = req[q].old
          BY <2>1, <5>1, <5>3 DEF Successors, NewInv
        <5> QED  BY <2>1, <3>5, <5>1, <5>2, <5>4 DEF Rotates
      <4>2. \A x \in LiveIn(f), y \in LiveIn(f) : x = y  BY <3>1, <4>1 DEF RotationOf
      <4>3. LiveIn(f)' \subseteq {t}  BY <2>1, <3>2, <3>5, <4>2
      <4> HIDE DEF Rotates, Successors, LiveIn
      <4> QED  BY <3>3, <3>4, <3>5, <4>1, <4>3 DEF RotationOf
    <3>6. CASE Family(t) # f
      <4>1. \A q \in Requests : Rotates(q, f)' <=> Rotates(q, f)  BY <3>3, <3>4, <3>6
      <4>2. \A q \in Requests : Rotates(q, f) => Successors(q)' = Successors(q)  BY <3>3, <3>4
      <4> HIDE DEF Rotates, Successors, LiveIn
      <4> QED  BY <3>1, <3>2, <4>1, <4>2 DEF RotationOf
    <3> QED  BY <3>5, <3>6
  <2> QED  BY <2>3 DEF RotationInv
<1>3. ASSUME NEW r \in Requests, NEW t \in Tokens, Issue(r, t) PROVE RotationInv'
  <2>1. /\ req[r].pc = "issue" /\ req'[r].pc = "idle" /\ t \notin Issued
        /\ refresh'[t].family = t /\ forked' = forked
        /\ \A x \in Tokens \ {t} : refresh'[x] = refresh[x]
    BY <1>3, IssueEffect
  <2>2. \A q \in Requests \ {r} : req'[q] = req[q]  BY <1>3, IssueEffect DEF Turn
  <2>3. ASSUME NEW f \in Tokens \ forked' PROVE RotationOf(f)'
    <3>1. RotationOf(f)  BY <1>a, <2>1
    <3>2. /\ \A x \in Issued : Family(x)' = Family(x) /\ x # t
          /\ Family(t)' = t
      BY <1>0, <2>1 DEF Family
    <3>3. \A q \in Requests : /\ Rotates(q, f)' <=> Rotates(q, f)
                              /\ Rotates(q, f) => Successors(q)' = Successors(q)
      <4>1. ASSUME NEW q \in Requests
            PROVE  /\ Rotates(q, f)' <=> Rotates(q, f)
                   /\ Rotates(q, f) => Successors(q)' = Successors(q)
        <5>1. CASE q = r  BY <2>1, <5>1 DEF Rotates
        <5>2. CASE q # r  BY <1>0, <2>2, <3>2, <5>2 DEF Rotates, Successors
        <5> QED  BY <5>1, <5>2
      <4> QED  BY <4>1
    <3>4. CASE f = t
      <4>1. LiveIn(f)' \subseteq {t}
        <5>1. ASSUME NEW x \in Tokens, refresh'[x].status = "live", Family(x)' = f PROVE x = t
          <6>1. SUFFICES ASSUME x # t PROVE FALSE  OBVIOUS
          <6>2. refresh'[x] = refresh[x]  BY <2>1, <6>1
          <6>3. x \in Issued  BY <5>1, <6>2 DEF Issued
          <6> QED  BY <1>0, <2>1, <3>2, <3>4, <5>1, <6>3
        <5> QED  BY <5>1 DEF LiveIn
      <4>2. \A q \in Requests : ~Rotates(q, f)
        BY <1>0, <2>1, <3>4 DEF Rotates
      <4> HIDE DEF Rotates, Successors, LiveIn
      <4> QED  BY <3>3, <4>1, <4>2 DEF RotationOf
    <3>5. CASE f # t
      <4>1. LiveIn(f)' = LiveIn(f)
        <5>1. ASSUME NEW x \in Tokens
              PROVE  refresh'[x].status = "live" /\ Family(x)' = f
                       <=> refresh[x].status = "live" /\ Family(x) = f
          <6>1. CASE x = t
            BY <2>1, <3>2, <3>5, <6>1 DEF Issued
          <6>2. CASE x # t
            <7>1. refresh'[x] = refresh[x]  BY <2>1, <6>2
            <7> QED  BY <7>1 DEF Family
          <6> QED  BY <6>1, <6>2
        <5> QED  BY <5>1 DEF LiveIn
      <4> HIDE DEF Rotates, Successors, LiveIn
      <4> QED  BY <3>1, <3>3, <4>1 DEF RotationOf
    <3> QED  BY <3>4, <3>5
  <2> QED  BY <2>3 DEF RotationInv
<1>4. ASSUME NEW r \in Requests, NEW t \in Tokens, Reissue(r, t) PROVE RotationInv'
  <2>1. /\ req[r].pc = "reissue" /\ req'[r].pc = "retire" /\ req'[r].old = req[r].old
        /\ req'[r].new = t /\ req[r].old \in held /\ t \notin Issued
        /\ refresh'[t].family = Family(req[r].old) /\ forked' = forked
        /\ \A x \in Tokens \ {t} : refresh'[x] = refresh[x]
    BY <1>4, ReissueEffect
  <2>2. \A q \in Requests \ {r} : req'[q] = req[q]  BY <1>4, ReissueEffect DEF Turn
  <2>3. ASSUME NEW f \in Tokens \ forked' PROVE RotationOf(f)'
    <3>1. RotationOf(f)  BY <1>a, <2>1
    <3>2. /\ \A x \in Issued : Family(x)' = Family(x) /\ x # t
          /\ Family(t)' = Family(req[r].old)
      BY <1>0, <2>1 DEF Family
    <3>3. \A q \in Requests : Rotates(q, f)' <=> Rotates(q, f)
      <4>1. ASSUME NEW q \in Requests PROVE Rotates(q, f)' <=> Rotates(q, f)
        <5>1. CASE q = r  BY <1>0, <2>1, <3>2, <5>1 DEF Rotates
        <5>2. CASE q # r  BY <1>0, <2>2, <3>2, <5>2 DEF Rotates
        <5> QED  BY <5>1, <5>2
      <4> QED  BY <4>1
    <3>4. \A q \in Requests \ {r} : Successors(q)' = Successors(q)
      BY <2>2 DEF Successors
    <3>5. Successors(r) = {req[r].old} /\ Successors(r)' = {req[r].old, t}
      BY <2>1 DEF Successors
    <3>6. /\ LiveIn(f)' \subseteq LiveIn(f) \cup {t}
          /\ Family(req[r].old) # f => LiveIn(f)' \subseteq LiveIn(f)
      <4>1. ASSUME NEW x \in Tokens, refresh'[x].status = "live", Family(x)' = f
            PROVE  x \in LiveIn(f) \/ (x = t /\ Family(req[r].old) = f)
        <5>1. CASE x = t  BY <3>2, <4>1, <5>1
        <5>2. CASE x # t
          <6>1. refresh'[x] = refresh[x]  BY <2>1, <5>2
          <6> QED  BY <4>1, <6>1 DEF Family, LiveIn
        <5> QED  BY <5>1, <5>2
      <4> QED  BY <4>1 DEF LiveIn
    <3>7. Rotates(r, f) <=> Family(req[r].old) = f  BY <2>1 DEF Rotates
    <3> HIDE DEF Rotates, Successors, LiveIn
    <3>8. \A q \in Requests, p \in Requests : Rotates(q, f)' /\ Rotates(p, f)' => q = p
      BY <3>1, <3>3 DEF RotationOf
    <3>9. ASSUME NEW q \in Requests, Rotates(q, f)' PROVE LiveIn(f)' \subseteq Successors(q)'
      <4>1. LiveIn(f) \subseteq Successors(q) /\ Rotates(q, f)  BY <3>1, <3>3, <3>9 DEF RotationOf
      <4>2. CASE q = r  BY <3>5, <3>6, <4>1, <4>2
      <4>3. CASE q # r
        <5>1. ~Rotates(r, f)  BY <3>1, <4>1, <4>3 DEF RotationOf
        <5> QED  BY <3>4, <3>6, <3>7, <4>1, <4>3, <5>1
      <4> QED  BY <4>2, <4>3
    <3>10. (\A q \in Requests : ~Rotates(q, f)') => \A x \in LiveIn(f)', y \in LiveIn(f)' : x = y
      <4>1. ASSUME \A q \in Requests : ~Rotates(q, f)'
            PROVE  \A x \in LiveIn(f)', y \in LiveIn(f)' : x = y
        <5>1. \A q \in Requests : ~Rotates(q, f)  BY <3>3, <4>1
        <5>2. LiveIn(f)' \subseteq LiveIn(f)  BY <3>6, <3>7, <5>1
        <5> QED  BY <3>1, <5>1, <5>2 DEF RotationOf
      <4> QED  BY <4>1
    <3> QED  BY <3>8, <3>9, <3>10 DEF RotationOf
  <2> QED  BY <2>3 DEF RotationInv
<1>5. ASSUME NEW r \in Requests, Retire(r) PROVE RotationInv'
  <2>1. /\ req[r].pc = "retire" /\ req'[r].pc = "idle" /\ req[r].old \in held /\ Shrinks
        /\ refresh'[req[r].old].status = "revoked" /\ forked' = forked
    BY <1>5, RetireEffect
  <2>2. \A q \in Requests \ {r} : req'[q] = req[q]  BY <1>5, RetireEffect DEF Turn
  <2>3. ASSUME NEW f \in Tokens \ forked' PROVE RotationOf(f)'
    <3>1. RotationOf(f)  BY <1>a, <2>1
    <3>2. LiveIn(f)' \subseteq LiveIn(f) /\ req[r].old \notin LiveIn(f)'
      BY <2>1 DEF Shrinks, LiveIn
    <3>3. \A q \in Requests \ {r} : (Rotates(q, f)' <=> Rotates(q, f)) /\ Successors(q)' = Successors(q)
      BY <1>0, <2>1, <2>2 DEF Rotates, Successors, Shrinks
    <3>4. ~Rotates(r, f)'  BY <2>1 DEF Rotates
    <3>5. Successors(r) = {req[r].old, req[r].new}  BY <2>1 DEF Successors
    <3> HIDE DEF Rotates, Successors, LiveIn
    <3>6. \A q \in Requests, p \in Requests : Rotates(q, f)' /\ Rotates(p, f)' => q = p
      BY <3>1, <3>3, <3>4 DEF RotationOf
    <3>7. \A q \in Requests : Rotates(q, f)' => LiveIn(f)' \subseteq Successors(q)'
      BY <3>1, <3>2, <3>3, <3>4 DEF RotationOf
    <3>8. (\A q \in Requests : ~Rotates(q, f)') => \A x \in LiveIn(f)', y \in LiveIn(f)' : x = y
      <4>1. CASE Rotates(r, f)
        <5>1. LiveIn(f) \subseteq Successors(r)  BY <3>1, <4>1 DEF RotationOf
        <5>2. LiveIn(f)' \subseteq {req[r].new}  BY <3>2, <3>5, <5>1
        <5> QED  BY <5>2
      <4>2. CASE ~Rotates(r, f)
        BY <3>1, <3>2, <3>3, <4>2 DEF RotationOf
      <4> QED  BY <4>1, <4>2
    <3> QED  BY <3>6, <3>7, <3>8 DEF RotationOf
  <2> QED  BY <2>3 DEF RotationInv
<1>6. ASSUME NEW r \in Requests, Revoke(r) \/ ResetCommit(r) PROVE RotationInv'
  <2>1. /\ Shrinks /\ forked' = forked /\ req[r].pc \in {"revoke", "commit"}
        /\ req'[r].pc = "idle" /\ Turn(r)
    BY <1>6, RevokeEffect, CommitEffect
  <2>2. \A f \in Tokens \ forked' : RotationOf(f)'
    BY <1>a, <2>1, RotationShrinks DEF Turn
  <2> QED  BY <2>2 DEF RotationInv
<1>7. ASSUME NEW t \in Tokens, ExpireRefresh(t) PROVE RotationInv'
  <2>1. \A f \in Tokens \ forked' : RotationOf(f)'
    BY <1>a, <1>7, RotationShrinks, ExpireEffect
  <2> QED  BY <2>1 DEF RotationInv
<1> QED  BY <1>1, <1>2, <1>3, <1>4, <1>5, <1>6, <1>7, SessionStep, Zenon

LEMMA RotationInit == Init => NewInv /\ RotationInv
<1> SUFFICES ASSUME Init PROVE NewInv /\ RotationInv  OBVIOUS
<1>1. \A r \in Requests : req[r].pc = "idle"  BY IdleType DEF Init
<1>2. \A f \in Tokens : LiveIn(f) = {}  BY DEF Init, LiveIn, NoToken
<1> QED  BY <1>1, <1>2 DEF NewInv, RotationInv, RotationOf, Rotates

LEMMA AtMostOne == ASSUME NEW S, \A x \in S, y \in S : x = y PROVE Cardinality(S) <= 1
<1>1. CASE S = {}  BY <1>1, FS_EmptySet
<1>2. CASE S # {}
  <2>1. PICK x \in S : TRUE  BY <1>2
  <2>2. S = {x}  BY <2>1
  <2> QED  BY <2>2, FS_Singleton
<1> QED  BY <1>1, <1>2

\* However many handlers rotate, log out and reset at once, a session has one
\* live token to continue with unless two rotations of one token overlapped or
\* one broke off between its two writes (auth.service.ts:140-152).
THEOREM OneTokenPerSession == Spec => []OneLiveToken
<1>1. Init => Typed /\ NewInv /\ RotationInv
  BY InitTypes, RotationInit DEF Typed
<1>2. Typed /\ NewInv /\ RotationInv /\ [Next]_vars => (Typed /\ NewInv /\ RotationInv)'
  BY StepTypes, NewStep, RotationStep
<1>3. ASSUME Typed, RotationInv PROVE OneLiveToken
  <2>1. ASSUME NEW f \in Tokens \ forked
        PROVE  \A x \in LiveIn(f) \ BeingRetired, y \in LiveIn(f) \ BeingRetired : x = y
    <3>1. RotationOf(f)  BY <1>3 DEF RotationInv
    <3>2. CASE \A r \in Requests : ~Rotates(r, f)  BY <3>1, <3>2 DEF RotationOf
    <3>3. ASSUME NEW r \in Requests, Rotates(r, f)
          PROVE  \A x \in LiveIn(f) \ BeingRetired, y \in LiveIn(f) \ BeingRetired : x = y
      <4>1. LiveIn(f) \subseteq Successors(r)  BY <3>1, <3>3 DEF RotationOf
      <4>2. CASE req[r].pc = "retire"
        <5>1. req[r].old \in BeingRetired  BY <4>2 DEF BeingRetired
        <5>2. Successors(r) = {req[r].old, req[r].new}  BY <4>2 DEF Successors
        <5> QED  BY <4>1, <5>1, <5>2
      <4>3. CASE req[r].pc # "retire"
        <5>1. Successors(r) = {req[r].old}  BY <4>3 DEF Successors
        <5> QED  BY <4>1, <5>1
      <4> QED  BY <4>2, <4>3
    <3> QED  BY <3>2, <3>3
  <2> QED  BY <2>1, AtMostOne DEF OneLiveToken
<1> QED  BY <1>1, <1>2, <1>3, PTL DEF Spec

-----------------------------------------------------------------------------
(* Sessions survive failures, and end for good.                            *)

\* The successor in an unfinished rotation is live as long as the session is.
PendingInv ==
    \A r \in Requests : req[r].pc = "retire" =>
        Family(req[r].old) \in cut \/ refresh[req[r].new].status = "live"

Survives(t) == Family(t) \in cut \/ \E x \in held : refresh[x].status = "live" /\ Family(x) = Family(t)
SurviveInv == \A t \in held : Survives(t)

LEMMA PendingStep == ASSUME Typed, NewInv, PendingInv, [Next]_vars PROVE PendingInv'
<1>0. /\ held \subseteq Issued /\ Issued \subseteq Tokens
      /\ \A r \in Requests : req[r].pc \in {"reissue", "retire"} => req[r].old \in Issued
      /\ \A r \in Requests : req[r].pc = "retire" =>
            req[r].new \in Issued /\ req[r].new \notin held /\ Family(req[r].new) = Family(req[r].old)
      /\ \A x \in Issued : refresh[x].user \in Users
  BY RowTypes DEF Typed, HandInv, UserInv, NewInv, Issued
<1>1. CASE Quiet
  BY <1>1 DEF Quiet, PendingInv, Family
<1>2. ASSUME NEW r \in Requests, NEW t \in Tokens, Refresh(r, t) PROVE PendingInv'
  BY <1>2, RefreshEffect DEF Turn, Family, PendingInv
<1>3. ASSUME NEW r \in Requests, NEW t \in Tokens, Issue(r, t) PROVE PendingInv'
  <2>1. /\ req'[r].pc = "idle" /\ Turn(r) /\ t \notin Issued /\ cut' = cut
        /\ \A x \in Tokens \ {t} : refresh'[x] = refresh[x]
    BY <1>3, IssueEffect
  <2>2. \A x \in Issued : refresh'[x] = refresh[x]  BY <1>0, <2>1
  <2>3. \A q \in Requests : req'[q].pc = "retire" => q # r /\ req'[q] = req[q]
    BY <2>1 DEF Turn
  <2> QED  BY <1>0, <2>1, <2>2, <2>3 DEF PendingInv, Family
<1>4. ASSUME NEW r \in Requests, NEW t \in Tokens, Reissue(r, t) PROVE PendingInv'
  <2>1. /\ req'[r].new = t /\ Turn(r) /\ t \notin Issued /\ cut' = cut
        /\ refresh'[t].status = "live" /\ \A x \in Tokens \ {t} : refresh'[x] = refresh[x]
    BY <1>4, ReissueEffect
  <2>2. \A x \in Issued : refresh'[x] = refresh[x]  BY <1>0, <2>1
  <2>3. \A q \in Requests \ {r} : req'[q] = req[q]  BY <2>1 DEF Turn
  <2> QED  BY <1>0, <2>1, <2>2, <2>3 DEF PendingInv, Family
<1>5. ASSUME NEW r \in Requests, NEW t \in held, Turn(r), req'[r].pc = "idle", Shrinks,
             \A x \in Tokens \ {t} : refresh'[x] = refresh[x], cut \subseteq cut'
      PROVE  PendingInv'
  <2>1. \A q \in Requests : req'[q].pc = "retire" => q # r /\ req'[q] = req[q]
    BY <1>5 DEF Turn
  <2>2. ASSUME NEW q \in Requests, req'[q].pc = "retire"
        PROVE  refresh'[req'[q].old].family \in cut' \/ refresh'[req'[q].new].status = "live"
    <3>1. req[q].new # t /\ req[q].new \in Tokens /\ req[q].old \in Tokens /\ req'[q] = req[q]
          /\ req[q].pc = "retire"
      BY <1>0, <2>1, <2>2
    <3>2. refresh'[req[q].new] = refresh[req[q].new] /\ Family(req[q].old)' = Family(req[q].old)
      BY <1>5, <2>1, <2>2, <3>1 DEF Shrinks, Family
    <3> QED  BY <1>5, <3>1, <3>2 DEF PendingInv, Family
  <2> QED  BY <2>2 DEF PendingInv, Family
<1>6. ASSUME NEW r \in Requests, Retire(r) \/ Revoke(r) PROVE PendingInv'
  <2>1. PICK t : t = req[r].old  OBVIOUS
  <2>2. /\ t \in held /\ Turn(r) /\ req'[r].pc = "idle" /\ Shrinks
        /\ \A x \in Tokens \ {t} : refresh'[x] = refresh[x] /\ cut \subseteq cut'
    BY <1>6, <2>1, RetireEffect, RevokeEffect
  <2>3. cut \subseteq cut'
    BY <1>6, <2>1, RetireEffect, RevokeEffect
  <2> QED  BY <1>5, <2>2, <2>3
<1>7. ASSUME NEW r \in Requests, ResetCommit(r) PROVE PendingInv'
  <2>1. PICK u : u = req[r].user  OBVIOUS
  <2>2. /\ req'[r].pc = "idle" /\ Shrinks /\ Turn(r) /\ cut' = cut \cup FamiliesOf(u)
        /\ \A x \in Tokens : refresh'[x].status = IF refresh[x].user = u /\ Unrevoked(x)
                                                  THEN "revoked" ELSE refresh[x].status
    BY <1>7, <2>1, CommitEffect
  <2>3. ASSUME NEW q \in Requests, req'[q].pc = "retire"
        PROVE  refresh'[req'[q].old].family \in cut' \/ refresh'[req'[q].new].status = "live"
    <3>1. req'[q] = req[q] /\ req[q].pc = "retire"  BY <2>2, <2>3 DEF Turn
    <3>2. PICK n, o : n = req[q].new /\ o = req[q].old  OBVIOUS
    <3>3. n \in Issued /\ o \in Tokens /\ Family(n) = Family(o) /\ n \in Tokens
      BY <1>0, <3>1, <3>2
    <3>4. Family(o)' = Family(o)  BY <2>2, <3>3 DEF Shrinks
    <3>5. CASE refresh[n].user = u
      <4>1. Family(n) \in FamiliesOf(u)  BY <3>3, <3>5 DEF FamiliesOf
      <4> QED  BY <2>2, <3>1, <3>2, <3>3, <3>4, <4>1 DEF Family
    <3>6. CASE refresh[n].user # u
      <4>1. refresh'[n].status = refresh[n].status  BY <2>2, <3>3, <3>6
      <4> QED  BY <2>2, <3>1, <3>2, <3>4, <4>1 DEF PendingInv, Family
    <3> QED  BY <3>5, <3>6
  <2> QED  BY <2>3 DEF PendingInv, Family
<1>8. ASSUME NEW t \in Tokens, ExpireRefresh(t) PROVE PendingInv'
  <2>1. /\ Shrinks /\ \A x \in Tokens \ {t} : refresh'[x] = refresh[x]
        /\ req' = req /\ cut' = cut \cup {Family(t)}
    BY <1>8, ExpireEffect
  <2>2. ASSUME NEW q \in Requests, req[q].pc = "retire"
        PROVE  Family(req[q].old)' \in cut' \/ refresh'[req[q].new].status = "live"
    <3>1. req[q].new \in Tokens /\ req[q].old \in Tokens /\ Family(req[q].new) = Family(req[q].old)
      BY <1>0, <2>2
    <3>2. refresh'[req[q].old].family = Family(req[q].old)
      BY <2>1, <3>1 DEF Shrinks, Family
    <3>3. CASE req[q].new = t  BY <2>1, <3>1, <3>2, <3>3 DEF Family
    <3>4. CASE req[q].new # t  BY <2>1, <2>2, <3>1, <3>2, <3>4 DEF PendingInv, Family
    <3> QED  BY <3>3, <3>4
  <2> QED  BY <2>1, <2>2 DEF PendingInv
<1> QED  BY <1>1, <1>2, <1>3, <1>4, <1>6, <1>7, <1>8, SessionStep, Zenon

\* One row ends, and its family is cut, unless another survivor is there.
LEMMA SurvivesEnd ==
    ASSUME Typed, SurviveInv, NEW t \in Tokens, Shrinks, held \subseteq held',
           \A x \in Tokens \ {t} : refresh'[x] = refresh[x], cut \subseteq cut',
           \/ Family(t) \in cut'
           \/ \E n \in held' : refresh'[n].status = "live" /\ Family(n)' = Family(t)
    PROVE  \A y \in held : Survives(y)'
<1>1. ASSUME NEW y \in held PROVE Survives(y)'
  <2>1. held \subseteq Tokens /\ y \in Tokens  BY RowTypes DEF Issued
  <2>2. Family(y)' = Family(y)  BY <2>1 DEF Shrinks
  <2>3. CASE Family(y) = Family(t)  BY <2>2, <2>3 DEF Survives
  <2>4. CASE Family(y) # Family(t)
    <3>1. CASE Family(y) \in cut  BY <2>2, <3>1 DEF Survives
    <3>2. CASE Family(y) \notin cut
      <4>1. PICK x \in held : refresh[x].status = "live" /\ Family(x) = Family(y)
        BY <3>2 DEF SurviveInv, Survives
      <4>2. x # t /\ x \in Tokens  BY <2>1, <2>4, <4>1
      <4>3. refresh'[x] = refresh[x] /\ x \in held'  BY <4>2
      <4> QED  BY <2>2, <4>1, <4>3 DEF Survives, Family
    <3> QED  BY <3>1, <3>2
  <2> QED  BY <2>3, <2>4
<1> QED  BY <1>1

LEMMA SurviveStep ==
    ASSUME Typed, NewInv, PendingInv, SurviveInv, [Next]_vars PROVE SurviveInv'
<1>0. held \subseteq Issued /\ Issued \subseteq Tokens  BY RowTypes DEF Issued
<1>1. ASSUME UNCHANGED <<refresh, held, cut>> PROVE SurviveInv'
  BY <1>1 DEF SurviveInv, Survives, Family
<1>2. ASSUME NEW r \in Requests, NEW t \in Tokens, Refresh(r, t) PROVE SurviveInv'
  BY <1>1, <1>2, RefreshEffect
<1>3. ASSUME NEW r \in Requests, NEW t \in Tokens, Issue(r, t) \/ Reissue(r, t) PROVE SurviveInv'
  <2>1. /\ t \notin Issued /\ cut' = cut /\ held' \in {held, held \cup {t}}
        /\ refresh'[t].status = "live" /\ \A x \in Tokens \ {t} : refresh'[x] = refresh[x]
    BY <1>3, IssueEffect, ReissueEffect
  <2>2. \A x \in held : refresh'[x] = refresh[x]  BY <1>0, <2>1
  <2>3. ASSUME NEW y \in held PROVE Survives(y)'
    <3>1. Family(y)' = Family(y)  BY <2>2 DEF Family
    <3>2. CASE Family(y) \in cut  BY <2>1, <3>1, <3>2 DEF Survives
    <3>3. CASE Family(y) \notin cut
      <4>1. PICK x \in held : refresh[x].status = "live" /\ Family(x) = Family(y)
        BY <3>3 DEF SurviveInv, Survives
      <4> QED  BY <2>1, <2>2, <3>1, <4>1 DEF Survives, Family
    <3> QED  BY <3>2, <3>3
  <2>4. t \in held' => Survives(t)'  BY <2>1 DEF Survives
  <2> QED  BY <2>1, <2>3, <2>4 DEF SurviveInv
<1>4. ASSUME NEW r \in Requests, Retire(r) PROVE SurviveInv'
  <2>1. PICK t, n : t = req[r].old /\ n = req[r].new  OBVIOUS
  <2>2. /\ req[r].pc = "retire" /\ t \in held /\ Shrinks
        /\ \A x \in Tokens \ {t} : refresh'[x] = refresh[x]
        /\ \/ held' = held \cup {n} /\ cut' = cut
           \/ held' = held /\ cut' = cut \cup {Family(t)}
    BY <1>4, <2>1, RetireEffect
  <2>3. /\ n \notin held /\ n \in Issued /\ Family(n) = Family(t)
        /\ Family(t) \in cut \/ refresh[n].status = "live"
    BY <2>1, <2>2 DEF NewInv, PendingInv, Typed, HandInv
  <2>4. refresh'[n] = refresh[n] /\ Family(n)' = Family(t) /\ t \in Tokens
    BY <1>0, <2>2, <2>3 DEF Family
  <2>5. /\ Family(t) \in cut' \/ (\E x \in held' : refresh'[x].status = "live" /\ Family(x)' = Family(t))
        /\ held \subseteq held' /\ cut \subseteq cut'
    BY <2>2, <2>3, <2>4
  <2>6. \A y \in held : Survives(y)'  BY <2>2, <2>4, <2>5, SurvivesEnd
  <2>7. n \in held' => Survives(n)'  BY <2>4, <2>5 DEF Survives
  <2> QED  BY <2>2, <2>6, <2>7 DEF SurviveInv
<1>5. ASSUME NEW r \in Requests, Revoke(r) PROVE SurviveInv'
  <2>1. PICK t : t = req[r].old  OBVIOUS
  <2>2. /\ t \in held /\ Shrinks /\ \A x \in Tokens \ {t} : refresh'[x] = refresh[x]
        /\ cut' = cut \cup {Family(t)} /\ held' = held
    BY <1>5, <2>1, RevokeEffect
  <2>3. \A y \in held : Survives(y)'
    <3>1. cut \subseteq cut' /\ held \subseteq held' /\ Family(t) \in cut' /\ t \in Tokens
      BY <1>0, <2>2
    <3> QED  BY <2>2, <3>1, SurvivesEnd
  <2> QED  BY <2>2, <2>3 DEF SurviveInv
<1>6. ASSUME NEW t \in Tokens, ExpireRefresh(t) PROVE SurviveInv'
  <2>1. /\ Shrinks /\ \A x \in Tokens \ {t} : refresh'[x] = refresh[x]
        /\ cut' = cut \cup {Family(t)} /\ held' = held
    BY <1>6, ExpireEffect
  <2>2. cut \subseteq cut' /\ held \subseteq held' /\ Family(t) \in cut'
    BY <2>1
  <2>3. \A y \in held : Survives(y)'  BY <2>1, <2>2, SurvivesEnd
  <2> QED  BY <2>1, <2>3 DEF SurviveInv
<1>7. ASSUME NEW r \in Requests, ResetCommit(r) PROVE SurviveInv'
  <2>1. PICK u : u = req[r].user  OBVIOUS
  <2>2. /\ Shrinks /\ cut' = cut \cup FamiliesOf(u) /\ held' = held
        /\ \A x \in Tokens : refresh'[x].status = IF refresh[x].user = u /\ Unrevoked(x)
                                                  THEN "revoked" ELSE refresh[x].status
    BY <1>7, <2>1, CommitEffect
  <2>3. ASSUME NEW y \in held PROVE Survives(y)'
    <3>1. Family(y)' = Family(y)  BY <1>0, <2>2 DEF Shrinks
    <3>2. CASE Family(y) \in cut  BY <2>2, <3>1, <3>2 DEF Survives
    <3>3. CASE Family(y) \notin cut
      <4>1. PICK x \in held : refresh[x].status = "live" /\ Family(x) = Family(y)
        BY <3>3 DEF SurviveInv, Survives
      <4>2. x \in Issued /\ x \in Tokens  BY <1>0
      <4>3. CASE refresh[x].user = u
        <5>1. Family(x) \in FamiliesOf(u)  BY <4>2, <4>3 DEF FamiliesOf
        <5> QED  BY <2>2, <3>1, <4>1, <5>1 DEF Survives
      <4>4. CASE refresh[x].user # u
        <5>1. refresh'[x].status = "live" /\ Family(x)' = Family(x)
          BY <2>2, <4>1, <4>2, <4>4 DEF Shrinks
        <5> QED  BY <2>2, <3>1, <4>1, <5>1 DEF Survives
      <4> QED  BY <4>3, <4>4
    <3> QED  BY <3>2, <3>3
  <2> QED  BY <2>2, <2>3 DEF SurviveInv
<1>8. Quiet => SurviveInv'  BY <1>1 DEF Quiet
<1> QED  BY <1>2, <1>3, <1>4, <1>5, <1>6, <1>7, <1>8, SessionStep, Zenon

\* A client that was given a token can go on with its session until logout,
\* reset, expiry or an answer lost after the last write, whatever handlers
\* overlapped or broke off (auth.service.ts:142-152).
THEOREM SessionsSurvive == Spec => []SessionSurvives
<1>1. Init => Typed /\ NewInv /\ PendingInv /\ SurviveInv
  <2>1. Init => \A r \in Requests : req[r].pc = "idle"  BY IdleType DEF Init
  <2>2. Init => PendingInv /\ SurviveInv  BY <2>1 DEF PendingInv, SurviveInv, Init
  <2> QED  BY <2>2, InitTypes, RotationInit DEF Typed
<1>2. Typed /\ NewInv /\ PendingInv /\ SurviveInv /\ [Next]_vars
        => (Typed /\ NewInv /\ PendingInv /\ SurviveInv)'
  BY StepTypes, NewStep, PendingStep, SurviveStep
<1>3. Typed /\ SurviveInv => SessionSurvives
  BY RowTypes DEF SurviveInv, Survives, SessionSurvives, LiveIn, Issued
<1> QED  BY <1>1, <1>2, <1>3, PTL DEF Spec

LEMMA EndedStep ==
    ASSUME Typed, [Next]_vars, NEW f \in {Family(t) : t \in held}, LiveIn(f) = {}
    PROVE  Rotating(f)' \subseteq Rotating(f) /\ (Rotating(f) = {} => LiveIn(f)' = {})
<1>0. /\ held \subseteq Issued /\ Issued \subseteq Tokens /\ f \in Issued
      /\ \A r \in Requests : req[r].pc = "reissue" => req[r].old \in Issued
  BY RowTypes DEF Typed, HandInv, NumberInv, Issued
<1>1. CASE Quiet
  <2>1. LiveIn(f)' = LiveIn(f)  BY <1>1 DEF Quiet, LiveIn, Family
  <2>2. Rotating(f)' \subseteq Rotating(f)  BY <1>1 DEF Quiet, Rotating, Family
  <2> QED  BY <2>1, <2>2
<1>2. ASSUME NEW r \in Requests, NEW t \in Tokens, Refresh(r, t)
      PROVE  Rotating(f)' \subseteq Rotating(f) /\ LiveIn(f)' = {}
  <2>1. /\ req'[r].pc = "reissue" /\ req'[r].old = t /\ t \in LiveIn(Family(t))
        /\ refresh' = refresh
    BY <1>2, RefreshEffect
  <2>2. \A q \in Requests \ {r} : req'[q] = req[q]  BY <1>2, RefreshEffect DEF Turn
  <2>3. Family(t) # f  BY <2>1
  <2>4. LiveIn(f)' = {}  BY <2>1 DEF LiveIn, Family
  <2>5. Rotating(f)' \subseteq Rotating(f)  BY <2>1, <2>2, <2>3 DEF Rotating, Family
  <2> QED  BY <2>4, <2>5
<1>3. ASSUME NEW r \in Requests, NEW t \in Tokens, t \notin Issued, Turn(r), req'[r].pc # "reissue",
             refresh'[t].family # f, \A x \in Tokens \ {t} : refresh'[x] = refresh[x]
      PROVE  Rotating(f)' \subseteq Rotating(f) /\ LiveIn(f)' = {}
  <2>1. \A x \in Issued : refresh'[x] = refresh[x]  BY <1>0, <1>3
  <2>2. LiveIn(f)' = {}
    <3>1. ASSUME NEW x \in Tokens, refresh'[x].status = "live", refresh'[x].family = f PROVE FALSE
      <4>1. x # t  BY <1>3, <3>1
      <4>2. refresh'[x] = refresh[x]  BY <1>3, <4>1
      <4> QED  BY <3>1, <4>2 DEF LiveIn, Family
    <3> QED  BY <3>1 DEF LiveIn, Family
  <2>3. \A q \in Requests : req'[q].pc = "reissue" => req'[q] = req[q]  BY <1>3 DEF Turn
  <2> QED  BY <1>0, <2>1, <2>2, <2>3 DEF Rotating, Family
<1>4. ASSUME NEW r \in Requests, NEW t \in Tokens, Issue(r, t)
      PROVE  Rotating(f)' \subseteq Rotating(f) /\ LiveIn(f)' = {}
  <2>1. /\ t \notin Issued /\ Turn(r) /\ req'[r].pc = "idle" /\ refresh'[t].family = t
        /\ \A x \in Tokens \ {t} : refresh'[x] = refresh[x]
    BY <1>4, IssueEffect
  <2>2. t # f  BY <1>0, <2>1
  <2> QED  BY <1>3, <2>1, <2>2
<1>5. ASSUME NEW r \in Requests, NEW t \in Tokens, Reissue(r, t)
      PROVE  Rotating(f)' \subseteq Rotating(f) /\ (Rotating(f) = {} => LiveIn(f)' = {})
  <2>1. /\ t \notin Issued /\ Turn(r) /\ req[r].pc = "reissue" /\ req'[r].pc = "retire"
        /\ refresh'[t].family = Family(req[r].old)
        /\ \A x \in Tokens \ {t} : refresh'[x] = refresh[x]
    BY <1>5, ReissueEffect
  <2>2. CASE Family(req[r].old) = f
    <3>1. r \in Rotating(f)  BY <2>1, <2>2 DEF Rotating
    <3>2. \A x \in Issued : refresh'[x] = refresh[x]  BY <1>0, <2>1
    <3>3. \A q \in Requests : req'[q].pc = "reissue" => req'[q] = req[q]  BY <2>1 DEF Turn
    <3>4. Rotating(f)' \subseteq Rotating(f)  BY <1>0, <3>2, <3>3 DEF Rotating, Family
    <3> QED  BY <3>1, <3>4
  <2>3. CASE Family(req[r].old) # f  BY <1>3, <2>1, <2>3
  <2> QED  BY <2>2, <2>3
<1>6. ASSUME Shrinks, \A q \in Requests : req'[q] = req[q] \/ req'[q].pc # "reissue"
      PROVE  Rotating(f)' \subseteq Rotating(f) /\ LiveIn(f)' = {}
  <2>1. LiveIn(f)' = {}  BY <1>6 DEF Shrinks, LiveIn
  <2>2. Rotating(f)' \subseteq Rotating(f)  BY <1>0, <1>6 DEF Shrinks, Rotating
  <2> QED  BY <2>1, <2>2
<1>7. ASSUME NEW r \in Requests, Retire(r) \/ Revoke(r) \/ ResetCommit(r)
      PROVE  Rotating(f)' \subseteq Rotating(f) /\ LiveIn(f)' = {}
  <2>1. Shrinks /\ Turn(r) /\ req'[r].pc = "idle"
    BY <1>7, RetireEffect, RevokeEffect, CommitEffect
  <2> QED  BY <1>6, <2>1 DEF Turn
<1>8. ASSUME NEW t \in Tokens, ExpireRefresh(t)
      PROVE  Rotating(f)' \subseteq Rotating(f) /\ LiveIn(f)' = {}
  BY <1>6, <1>8, ExpireEffect
<1> QED  BY <1>1, <1>2, <1>4, <1>5, <1>7, <1>8, SessionStep, Zenon

\* A session that has ended stays so: only a rotation accepted before the end
\* can still bring it a live token (auth.service.ts:135-147).
THEOREM EndedSessionsStayEnded == Spec => EndedStaysEnded
<1>1. Init => Typed  BY InitTypes DEF Typed
<1>2. Typed /\ [Next]_vars => Typed'  BY StepTypes
<1>3. ASSUME Typed, [Next]_vars
      PROVE  [\A f \in {Family(t) : t \in held} : LiveIn(f) = {} =>
                 /\ Rotating(f)' \subseteq Rotating(f)
                 /\ Rotating(f) = {} => LiveIn(f)' = {}]_vars
  BY <1>3, EndedStep, Zenon
<1> QED  BY <1>1, <1>2, <1>3, PTL DEF Spec, EndedStaysEnded

-----------------------------------------------------------------------------
(* One-time tokens.                                                        *)

Holding == {"create", "commit", "markUser", "markToken"}

\* A step that touches no one-time token and nobody who holds on to one.
Calm ==
    /\ onetime' = onetime
    /\ doubled \subseteq doubled' /\ overlapped \subseteq overlapped'
    /\ \A q \in Requests : req'[q].pc \in Holding => req'[q] = req[q]
    /\ \A u \in Users : account[u].verified => account'[u].verified

LEMMA CalmTurn ==
    ASSUME Typed, NEW r \in Requests, Turn(r), req'[r].pc \notin Holding,
           UNCHANGED <<onetime, doubled, overlapped>>,
           \A u \in Users : account[u].verified => account'[u].verified
    PROVE  Calm
  BY DEF Calm, Turn

\* A token is accepted, created, used, or expires; or others are withdrawn.
Withdraw(r, kind, u) ==
    /\ req'[r].pc = "create" /\ req'[r].kind = kind /\ req'[r].user = u /\ Turn(r)
    /\ \A x \in OneTime : /\ onetime'[x].user = onetime[x].user
                          /\ onetime'[x].kind = onetime[x].kind
                          /\ onetime'[x].uses = onetime[x].uses
                          /\ onetime'[x].status = IF x \in Outstanding(kind, u)
                                                  THEN "revoked" ELSE onetime[x].status
    /\ overlapped \subseteq overlapped' /\ doubled' = doubled /\ account' = account
    /\ \A q \in Requests \ {r} :
          req[q].pc = "create" /\ req[q].kind = kind /\ req[q].user = u => <<kind, u>> \in overlapped'

LEMMA WithdrawEffect ==
    ASSUME Typed, NEW r \in Requests, NEW kind, NEW u, Supersede(r),
           kind = req[r].kind, u = req[r].user
    PROVE  kind \in Kinds /\ u \in Users /\ Withdraw(r, kind, u)
<1>1. req \in [Requests -> Handlers] /\ req[r] \in Handlers  BY RowTypes
<1>a. kind \in Kinds /\ u \in Users
  <2>1. req[r].kind \in Kinds  BY <1>1 DEF Handlers
  <2> QED  BY <2>1 DEF Supersede, Typed, UserInv
<1>2. req'[r].pc = "create" /\ req'[r].kind = kind /\ req'[r].user = u /\ Turn(r)
  <2>1. /\ [req[r] EXCEPT !.pc = "create"].pc = "create"
        /\ [req[r] EXCEPT !.pc = "create"].kind = kind
        /\ [req[r] EXCEPT !.pc = "create"].user = u
    BY <1>1 DEF Handlers
  <2> QED  BY <1>1, <2>1 DEF Supersede, Turn
<1>3. ASSUME NEW x \in OneTime
      PROVE  /\ [onetime[x] EXCEPT !.status = "revoked"].status = "revoked"
             /\ [onetime[x] EXCEPT !.status = "revoked"].user = onetime[x].user
             /\ [onetime[x] EXCEPT !.status = "revoked"].kind = onetime[x].kind
             /\ [onetime[x] EXCEPT !.status = "revoked"].uses = onetime[x].uses
  <2>1. onetime[x] \in OneTimes  BY RowTypes
  <2> QED  BY <2>1 DEF OneTimes
<1>4. \A x \in OneTime : /\ onetime'[x].user = onetime[x].user
                         /\ onetime'[x].kind = onetime[x].kind
                         /\ onetime'[x].uses = onetime[x].uses
                         /\ onetime'[x].status = IF x \in Outstanding(kind, u)
                                                 THEN "revoked" ELSE onetime[x].status
  BY <1>3 DEF Supersede, RevokeOutstanding
<1> QED  BY <1>a, <1>2, <1>4 DEF Supersede, Withdraw

LEMMA OneTimeStep ==
    ASSUME Typed, [Next]_vars
    PROVE  \/ Calm
           \/ \E r \in Requests, kind \in Kinds, u \in Users : Withdraw(r, kind, u)
           \/ \E r \in Requests, o \in OneTime :
                 ResetPassword(r, o) \/ VerifyEmail(r, o) \/ CreateOneTime(r, o)
           \/ \E r \in Requests : ResetCommit(r) \/ MarkUser(r) \/ MarkToken(r)
           \/ \E o \in OneTime : ExpireOneTime(o)
<1>a. ASSUME NEW u \in Users
      PROVE  /\ account[u] \in Accounts /\ Confirmed(account[u]).verified
             /\ [account[u] EXCEPT !.exists = TRUE].verified = account[u].verified
  <2>1. account[u] \in Accounts  BY RowTypes
  <2> QED  BY <2>1 DEF Accounts, Confirmed
<1>b. account \in [Users -> Accounts] /\ req \in [Requests -> Handlers]  BY RowTypes
<1>c. ASSUME NEW r \in Requests
      PROVE  /\ [req[r] EXCEPT !.pc = "lookup"].pc = "lookup"
             /\ [req[r] EXCEPT !.pc = "issue"].pc = "issue"
             /\ [req[r] EXCEPT !.pc = "supersede"].pc = "supersede"
             /\ [req[r] EXCEPT !.pc = "create"].pc = "create"
  <2>1. req[r] \in Handlers  BY <1>b
  <2> QED  BY <2>1 DEF Handlers
<1>d. Kinds = {"reset", "verify"}  BY DEF Kinds
<1>1. ASSUME NEW r \in Requests, NEW u, Lookup(r, u) PROVE Calm
  <2>1. req'[r].pc = "issue" /\ Turn(r)  BY <1>1, <1>b DEF Lookup, Handler, Turn
  <2> QED  BY <1>1, <2>1, CalmTurn DEF Lookup, rows, history, Holding
<1>2. ASSUME NEW r \in Requests, NEW u \in Users, LoginUnknown(r, u) PROVE Calm
  <2>1. req'[r].pc = "ensure" /\ Turn(r)  BY <1>2, <1>b DEF LoginUnknown, Handler, Turn
  <2> QED  BY <1>2, <2>1, CalmTurn DEF LoginUnknown, rows, history, Holding
<1>3. ASSUME NEW r \in Requests, NEW u \in Users, FederatedLogin(r, u) PROVE Calm
  <2>1. req'[r].pc = "issue" /\ Turn(r)  BY <1>3, <1>b DEF FederatedLogin, Handler, Turn
  <2>2. \A x \in Users : account[x].verified => account'[x].verified
    BY <1>a, <1>b, <1>3 DEF FederatedLogin, SyncFederatedUser
  <2> QED  BY <1>3, <2>1, <2>2, CalmTurn DEF FederatedLogin, history, Holding
<1>4. ASSUME NEW r \in Requests, NEW u \in Users, Register(r, u) PROVE Calm
  <2>1. req'[r].pc = "confirm" /\ Turn(r)  BY <1>4, <1>b DEF Register, Creating, Turn
  <2>2. \A x \in Users : account[x].verified => account'[x].verified
    BY <1>a, <1>b, <1>4 DEF Register
  <2> QED  BY <1>4, <2>1, <2>2, CalmTurn DEF Register, history, Holding
<1>5. ASSUME NEW r \in Requests, NEW u \in Users, ForgotPassword(r, u) \/ ResendVerification(r, u)
      PROVE  Calm
  <2>1. req'[r].pc = "supersede" /\ Turn(r)
    BY <1>5, <1>b DEF ForgotPassword, ResendVerification, Creating, Turn
  <2> QED  BY <1>5, <2>1, CalmTurn DEF ForgotPassword, ResendVerification, rows, history, Holding
<1>6. ASSUME NEW r \in Requests, NEW u \in Users, Start(r, u) PROVE Calm
  <2>1. Login(r, u) => Lookup(r, u)  BY DEF Login
  <2> QED  BY <1>1, <1>2, <1>3, <1>4, <1>5, <1>6, <2>1 DEF Start
<1>7. ASSUME NEW r \in Requests, NEW t \in Tokens, Refresh(r, t) PROVE Calm
  <2>1. req'[r].pc = "reissue" /\ Turn(r)  BY <1>7, <1>b DEF Refresh, Handler, Turn
  <2> QED  BY <1>7, <2>1, CalmTurn DEF Refresh, rows, Holding
<1>8. ASSUME NEW r \in Requests, NEW t \in Tokens, Logout(r, t) PROVE Calm
  <2>1. req'[r].pc = "revoke" /\ Turn(r)  BY <1>8, <1>b DEF Logout, Handler, Turn
  <2> QED  BY <1>8, <2>1, CalmTurn DEF Logout, rows, history, Holding
<1>9. ASSUME NEW r \in Requests, NEW t \in Tokens, Issue(r, t) PROVE Calm
  <2>1. req'[r].pc = "idle" /\ Turn(r)  BY <1>9, IssueEffect
  <2> QED  BY <1>9, <2>1, CalmTurn DEF Issue, Holding
<1>10. ASSUME NEW r \in Requests, NEW t \in Tokens, Reissue(r, t) PROVE Calm
  <2>1. req'[r].pc = "retire" /\ Turn(r)  BY <1>10, ReissueEffect
  <2> QED  BY <1>10, <2>1, CalmTurn DEF Reissue, Holding
<1>11. ASSUME NEW r \in Requests, EnsureUser(r) PROVE Calm
  <2>1. req'[r].pc \in {"lookup", "idle"} /\ Turn(r)
    BY <1>11, <1>b, <1>c, IdleType DEF EnsureUser, Turn
  <2>2. req[r].user \in Users  BY <1>11 DEF EnsureUser, Typed, UserInv
  <2>3. \A x \in Users : account[x].verified => account'[x].verified
    BY <1>11, <1>a, <1>b, <2>2 DEF EnsureUser
  <2> QED  BY <1>11, <2>1, <2>3, CalmTurn DEF EnsureUser, history, Holding
<1>12. ASSUME NEW r \in Requests, LookupEnsured(r) PROVE Calm
  BY <1>1, <1>12 DEF LookupEnsured
<1>13. ASSUME NEW r \in Requests, ConfirmRegistered(r) PROVE Calm
  <2>1. req'[r].pc \in {"issue", "supersede"} /\ Turn(r)
    BY <1>13, <1>b, <1>c DEF ConfirmRegistered, Turn
  <2> QED  BY <1>13, <2>1, CalmTurn DEF ConfirmRegistered, rows, history, Holding
<1>19. ASSUME NEW r \in Requests, Supersede(r)
       PROVE  \E kind \in Kinds, u \in Users : Withdraw(r, kind, u)
  <2>1. PICK kind, u : kind = req[r].kind /\ u = req[r].user  OBVIOUS
  <2> QED  BY <1>19, <2>1, WithdrawEffect
<1>14. ASSUME NEW r \in Requests, Retire(r) PROVE Calm
  <2>1. req'[r].pc = "idle" /\ Turn(r)  BY <1>14, RetireEffect
  <2> QED  BY <1>14, <2>1, CalmTurn DEF Retire, Holding
<1>15. ASSUME NEW r \in Requests, Revoke(r) PROVE Calm
  <2>1. req'[r].pc = "idle" /\ Turn(r)  BY <1>15, RevokeEffect
  <2> QED  BY <1>15, <2>1, CalmTurn DEF Revoke, Holding
<1>16. ASSUME NEW r \in Requests, HandlerFails(r) PROVE Calm
  <2>1. req'[r].pc = "idle" /\ Turn(r)  BY <1>16, <1>b, IdleType DEF HandlerFails, Turn
  <2> QED  BY <1>16, <2>1, CalmTurn DEF HandlerFails, rows, Holding
<1>17. ASSUME NEW t \in Tokens, ExpireRefresh(t) PROVE Calm
  BY <1>17 DEF ExpireRefresh, Calm
<1>18. CASE UNCHANGED vars  BY <1>18 DEF vars, rows, history, Calm
<1> QED
  BY <1>6, <1>7, <1>8, <1>9, <1>10, <1>11, <1>12, <1>13, <1>14, <1>15, <1>16, <1>17, <1>18,
     <1>19, Zenon DEF Next

Using1 == {"commit", "markUser", "markToken"}
Presents(r, o) == req[r].pc \in Using1 /\ req[r].old = o

LEMMA AcceptEffect ==
    ASSUME Typed, NEW r \in Requests, NEW o \in OneTime, ResetPassword(r, o) \/ VerifyEmail(r, o)
    PROVE  /\ req'[r].pc \in {"commit", "markUser"} /\ req'[r].old = o /\ Turn(r)
           /\ onetime[o].status = "live" /\ doubled \subseteq doubled'
           /\ \A q \in Requests \ {r} : Presents(q, o) => o \in doubled'
           /\ UNCHANGED <<account, onetime, overlapped>>
<1>1. PICK kind \in Kinds, next \in {"commit", "markUser"} : AcceptOneTime(r, o, kind, next)
  BY Zenon DEF ResetPassword, VerifyEmail, Kinds
<1>2. req \in [Requests -> Handlers]  BY RowTypes
<1>3. req'[r].pc = next /\ req'[r].old = o /\ Turn(r)
  BY <1>1, <1>2 DEF AcceptOneTime, Using, Turn
<1> QED  BY <1>1, <1>3 DEF AcceptOneTime, Accepted, Presents, Using1, rows

LEMMA UsedEffect ==
    ASSUME Typed, NEW r \in Requests, ResetCommit(r) \/ MarkToken(r)
    PROVE  /\ req[r].pc \in {"commit", "markToken"} /\ req'[r].pc = "idle" /\ Turn(r)
           /\ req[r].old \in OneTime /\ onetime[req[r].old].user = req[r].user
           /\ req[r].user \in Users
           /\ onetime[req[r].old].kind = (IF req[r].pc = "commit" THEN "reset" ELSE "verify")
           /\ onetime'[req[r].old].uses = onetime[req[r].old].uses + 1
           /\ onetime'[req[r].old].status = "used"
           /\ \A x \in OneTime : onetime'[x].user = onetime[x].user /\ onetime'[x].kind = onetime[x].kind
           /\ \A x \in OneTime \ {req[r].old} : onetime'[x] = onetime[x]
           /\ \A u \in Users : account[u].verified => account'[u].verified
           /\ UNCHANGED <<doubled, overlapped>>
<1>1. req \in [Requests -> Handlers] /\ account \in [Users -> Accounts]  BY RowTypes
<1>2. req'[r].pc = "idle" /\ Turn(r)  BY <1>1, IdleType DEF ResetCommit, MarkToken, Turn
<1>3. PICK o : o = req[r].old  OBVIOUS
<1>4. /\ o \in OneTime /\ onetime[o].status # "none" /\ onetime[o].user = req[r].user
      /\ req[r].user \in Users /\ req[r].pc \in {"commit", "markToken"}
      /\ onetime[o].kind = (IF req[r].pc = "commit" THEN "reset" ELSE "verify")
  BY <1>3 DEF ResetCommit, MarkToken, Typed, HandInv, UserInv, Created
<1>5. onetime' = [onetime EXCEPT ![o] = Used(@)]  BY <1>3 DEF ResetCommit, MarkToken
<1>6. /\ \A x \in OneTime : onetime'[x].user = onetime[x].user /\ onetime'[x].kind = onetime[x].kind
      /\ \A x \in OneTime \ {o} : onetime'[x] = onetime[x]
      /\ onetime'[o].status = "used" /\ onetime'[o].uses = onetime[o].uses + 1
  <2>1. /\ \A x \in OneTime : onetime'[x].user = onetime[x].user /\ onetime'[x].kind = onetime[x].kind
        /\ \A x \in OneTime \ {o} : onetime'[x] = onetime[x]
    BY <1>4, <1>5, UseType
  <2>2. onetime'[o] = Used(onetime[o])  BY <1>4, <1>5, RowTypes
  <2> QED  BY <2>1, <2>2 DEF Used
<1>7. \A u \in Users : account[u].verified => account'[u].verified
  <2>1. ASSUME NEW u \in Users
        PROVE  [account[u] EXCEPT !.pw = account[u].pw + 1].verified = account[u].verified
    <3>1. account[u] \in Accounts  BY <1>1
    <3> QED  BY <3>1 DEF Accounts
  <2> QED  BY <1>1, <1>4, <2>1 DEF ResetCommit, MarkToken
<1>8. UNCHANGED <<doubled, overlapped>>  BY DEF ResetCommit, MarkToken, history
<1> QED  BY <1>2, <1>3, <1>4, <1>6, <1>7, <1>8

LEMMA MarkUserEffect ==
    ASSUME Typed, NEW r \in Requests, MarkUser(r)
    PROVE  /\ req[r].pc = "markUser" /\ req'[r].pc = "markToken" /\ Turn(r)
           /\ req'[r].old = req[r].old /\ req'[r].user = req[r].user /\ req[r].user \in Users
           /\ account'[req[r].user].verified
           /\ \A u \in Users : account[u].verified => account'[u].verified
           /\ UNCHANGED <<onetime, doubled, overlapped>>
<1>1. req \in [Requests -> Handlers] /\ account \in [Users -> Accounts]  BY RowTypes
<1>2. /\ [req[r] EXCEPT !.pc = "markToken"].pc = "markToken"
      /\ [req[r] EXCEPT !.pc = "markToken"].old = req[r].old
      /\ [req[r] EXCEPT !.pc = "markToken"].user = req[r].user
  <2>1. req[r] \in Handlers  BY <1>1
  <2> QED  BY <2>1 DEF Handlers
<1>3. /\ req'[r].pc = "markToken" /\ Turn(r)
      /\ req'[r].old = req[r].old /\ req'[r].user = req[r].user
  BY <1>1, <1>2 DEF MarkUser, Turn
<1>4. PICK u : u = req[r].user  OBVIOUS
<1>5. u \in Users /\ req[r].pc = "markUser"  BY <1>4 DEF MarkUser, Typed, UserInv
<1>6. \A x \in Users : [account[x] EXCEPT !.verified = TRUE].verified
  <2>1. \A x \in Users : account[x] \in Accounts  BY <1>1
  <2> QED  BY <2>1 DEF Accounts
<1>7. account' = [account EXCEPT ![u] = [account[u] EXCEPT !.verified = TRUE]]
  BY <1>4 DEF MarkUser
<1>8. account'[u].verified /\ \A x \in Users : account[x].verified => account'[x].verified
  BY <1>1, <1>5, <1>6, <1>7
<1> QED  BY <1>3, <1>4, <1>5, <1>8 DEF MarkUser, history

LEMMA ExpireOneEffect ==
    ASSUME Typed, NEW o \in OneTime, ExpireOneTime(o)
    PROVE  /\ \A x \in OneTime : /\ onetime'[x].user = onetime[x].user
                                 /\ onetime'[x].kind = onetime[x].kind
                                 /\ onetime'[x].uses = onetime[x].uses
           /\ \A x \in OneTime \ {o} : onetime'[x] = onetime[x]
           /\ onetime'[o].status = "expired"
           /\ UNCHANGED <<account, req, doubled, overlapped>>
<1>1. onetime[o] \in OneTimes /\ onetime \in [OneTime -> OneTimes]  BY RowTypes
<1>2. /\ [onetime[o] EXCEPT !.status = "expired"].status = "expired"
      /\ [onetime[o] EXCEPT !.status = "expired"].user = onetime[o].user
      /\ [onetime[o] EXCEPT !.status = "expired"].kind = onetime[o].kind
      /\ [onetime[o] EXCEPT !.status = "expired"].uses = onetime[o].uses
  BY <1>1 DEF OneTimes
<1> QED  BY <1>1, <1>2 DEF ExpireOneTime, history

\* A one-time token that was never accepted twice at once has one handler at
\* most, which is the first to use it.
OnceInv ==
    \A o \in OneTime \ doubled :
        /\ \A q \in Requests, r \in Requests : Presents(q, o) /\ Presents(r, o) => q = r
        /\ \A r \in Requests : Presents(r, o) => onetime[o].uses = 0
        /\ onetime[o].uses <= 1

LEMMA OnceStep == ASSUME Typed, OnceInv, [Next]_vars PROVE OnceInv'
<1>0. /\ \A x \in OneTime : /\ onetime[x].uses \in Nat
                            /\ onetime[x].status = "used" <=> onetime[x].uses > 0
      /\ \A q \in Requests : req[q].pc \in Using1 => req[q].old \in Created
  <2>1. \A x \in OneTime : onetime[x] \in OneTimes  BY RowTypes
  <2> QED  BY <2>1, RowTypes DEF Typed, HandInv, OneTimes, Using1
<1>1. ASSUME doubled \subseteq doubled', \A x \in OneTime : onetime'[x].uses = onetime[x].uses,
             \A q \in Requests, x \in OneTime : Presents(q, x)' => Presents(q, x)
      PROVE  OnceInv'
  <2> HIDE DEF Presents
  <2> QED  BY <1>1 DEF OnceInv
<1>2. CASE Calm
  <2>1. \A q \in Requests, x \in OneTime : Presents(q, x)' => Presents(q, x)
    BY <1>2 DEF Calm, Presents, Using1, Holding
  <2> QED  BY <1>1, <1>2, <2>1 DEF Calm
<1>3. ASSUME NEW r \in Requests, NEW kind \in Kinds, NEW u \in Users, Withdraw(r, kind, u)
      PROVE  OnceInv'
  <2>1. \A q \in Requests, x \in OneTime : Presents(q, x)' => Presents(q, x)
    BY <1>3 DEF Withdraw, Presents, Using1, Turn
  <2> QED  BY <1>1, <1>3, <2>1 DEF Withdraw
<1>4. ASSUME NEW r \in Requests, NEW o \in OneTime, ResetPassword(r, o) \/ VerifyEmail(r, o)
      PROVE  OnceInv'
  <2>1. /\ req'[r].old = o /\ Turn(r) /\ onetime[o].status = "live" /\ doubled \subseteq doubled'
        /\ \A q \in Requests \ {r} : Presents(q, o) => o \in doubled'
        /\ onetime' = onetime
    BY <1>4, AcceptEffect
  <2>2. onetime[o].uses = 0  BY <1>0, <2>1
  <2>3. \A q \in Requests \ {r}, x \in OneTime : Presents(q, x)' <=> Presents(q, x)
    BY <2>1 DEF Turn, Presents
  <2>4. \A x \in OneTime : Presents(r, x)' => x = o  BY <2>1 DEF Presents
  <2> HIDE DEF Presents
  <2> QED  BY <2>1, <2>2, <2>3, <2>4 DEF OnceInv
<1>5. ASSUME NEW r \in Requests, NEW o \in OneTime, CreateOneTime(r, o) PROVE OnceInv'
  <2>1. /\ o \notin Created /\ req'[r].pc \in {"idle", "issue"} /\ onetime'[o].uses = 0
        /\ \A x \in OneTime \ {o} : onetime'[x] = onetime[x]
        /\ \A q \in Requests \ {r} : req'[q] = req[q]
    BY <1>5, CreateType
  <2>2. \A q \in Requests, x \in OneTime : Presents(q, x)' => Presents(q, x) /\ x # o
    BY <1>0, <2>1 DEF Presents, Using1
  <2>3. doubled' = doubled  BY <1>5 DEF CreateOneTime, history
  <2> HIDE DEF Presents
  <2> QED  BY <2>1, <2>2, <2>3 DEF OnceInv
<1>6. ASSUME NEW r \in Requests, ResetCommit(r) \/ MarkToken(r) PROVE OnceInv'
  <2>1. PICK o : o = req[r].old  OBVIOUS
  <2>2. /\ req[r].pc \in {"commit", "markToken"} /\ req'[r].pc = "idle" /\ Turn(r)
        /\ o \in OneTime /\ onetime'[o].uses = onetime[o].uses + 1
        /\ \A x \in OneTime \ {o} : onetime'[x] = onetime[x]
        /\ doubled' = doubled
    BY <1>6, <2>1, UsedEffect
  <2>3. \A q \in Requests, x \in OneTime : Presents(q, x)' => Presents(q, x) /\ q # r
    BY <2>2 DEF Presents, Using1, Turn
  <2>4. Presents(r, o)  BY <2>1, <2>2 DEF Presents, Using1
  <2> HIDE DEF Presents
  <2>5. ASSUME NEW x \in OneTime \ doubled'
        PROVE  /\ \A q \in Requests, p \in Requests : Presents(q, x)' /\ Presents(p, x)' => q = p
               /\ \A q \in Requests : Presents(q, x)' => onetime'[x].uses = 0
               /\ onetime'[x].uses <= 1
    <3>1. CASE x = o
      <4>1. \A q \in Requests : ~Presents(q, x)'  BY <2>2, <2>3, <2>4, <3>1 DEF OnceInv
      <4>2. onetime[x].uses = 0  BY <2>2, <2>4, <3>1 DEF OnceInv
      <4> QED  BY <2>2, <3>1, <4>1, <4>2
    <3>2. CASE x # o  BY <2>2, <2>3, <3>2 DEF OnceInv
    <3> QED  BY <3>1, <3>2
  <2> QED  BY <2>5 DEF OnceInv
<1>7. ASSUME NEW r \in Requests, MarkUser(r) PROVE OnceInv'
  <2>1. /\ req[r].pc = "markUser" /\ Turn(r) /\ req'[r].old = req[r].old
        /\ onetime' = onetime /\ doubled' = doubled
    BY <1>7, MarkUserEffect
  <2>2. \A q \in Requests, x \in OneTime : Presents(q, x)' => Presents(q, x)
    BY <2>1 DEF Turn, Presents, Using1
  <2> QED  BY <1>1, <2>1, <2>2
<1>8. ASSUME NEW o \in OneTime, ExpireOneTime(o) PROVE OnceInv'
  <2>1. \A q \in Requests, x \in OneTime : Presents(q, x)' => Presents(q, x)
    BY <1>8, ExpireOneEffect DEF Presents
  <2>2. doubled' = doubled /\ \A x \in OneTime : onetime'[x].uses = onetime[x].uses
    BY <1>8, ExpireOneEffect
  <2> QED  BY <1>1, <2>1, <2>2
<1> QED  BY <1>2, <1>3, <1>4, <1>5, <1>6, <1>7, <1>8, OneTimeStep, Zenon

Creates(r, k, u) == req[r].pc = "create" /\ req[r].kind = k /\ req[r].user = u
Ready(o, k, u) == onetime[o].kind = k /\ onetime[o].user = u /\ onetime[o].status \in {"unsent", "live"}

\* Where no two creations overlapped, there is one creator at most, nothing is
\* ready while it is at work, and one token when it is done.
UsableOf(k, u) ==
    /\ \A q \in Requests, r \in Requests : Creates(q, k, u) /\ Creates(r, k, u) => q = r
    /\ \A r \in Requests, o \in OneTime : Creates(r, k, u) => ~Ready(o, k, u)
    /\ \A o \in OneTime, p \in OneTime : Ready(o, k, u) /\ Ready(p, k, u) => o = p

UsableInv == \A k \in Kinds, u \in Users : <<k, u>> \in overlapped \/ UsableOf(k, u)

LEMMA UsableKept ==
    ASSUME UsableInv, overlapped \subseteq overlapped',
           \A r \in Requests, k \in Kinds, u \in Users : Creates(r, k, u)' => Creates(r, k, u),
           \A o \in OneTime, k \in Kinds, u \in Users : Ready(o, k, u)' => Ready(o, k, u)
    PROVE  UsableInv'
<1> HIDE DEF Creates, Ready
<1> QED  BY DEF UsableInv, UsableOf

LEMMA UsableStep == ASSUME Typed, UsableInv, [Next]_vars PROVE UsableInv'
<1>1. CASE Calm
  <2>1. /\ \A r \in Requests, k \in Kinds, u \in Users : Creates(r, k, u)' => Creates(r, k, u)
        /\ \A o \in OneTime, k \in Kinds, u \in Users : Ready(o, k, u)' => Ready(o, k, u)
    BY <1>1 DEF Calm, Creates, Ready, Holding
  <2> QED  BY <1>1, <2>1, UsableKept DEF Calm
<1>2. ASSUME NEW r \in Requests, NEW kind \in Kinds, NEW u \in Users, Withdraw(r, kind, u)
      PROVE  UsableInv'
  <2>1. overlapped \subseteq overlapped'
        /\ \A q \in Requests \ {r} : Creates(q, kind, u) => <<kind, u>> \in overlapped'
    BY <1>2 DEF Withdraw, Creates
  <2>2. /\ \A q \in Requests \ {r}, k \in Kinds, v \in Users : Creates(q, k, v)' => Creates(q, k, v)
        /\ \A k \in Kinds, v \in Users : Creates(r, k, v)' => k = kind /\ v = u
    BY <1>2 DEF Withdraw, Turn, Creates
  <2>3. \A o \in OneTime : ~Ready(o, kind, u)'
    BY <1>2 DEF Withdraw, Ready, Outstanding
  <2>4. \A o \in OneTime, k \in Kinds, v \in Users : Ready(o, k, v)' => Ready(o, k, v)
    BY <1>2 DEF Withdraw, Ready
  <2> HIDE DEF Creates, Ready
  <2>5. ASSUME NEW k \in Kinds, NEW v \in Users, <<k, v>> \notin overlapped' PROVE UsableOf(k, v)'
    <3>1. UsableOf(k, v)  BY <2>1, <2>5 DEF UsableInv
    <3>2. CASE k = kind /\ v = u  BY <2>1, <2>2, <2>3, <2>5, <3>2 DEF UsableOf
    <3>3. CASE ~(k = kind /\ v = u)  BY <2>2, <2>4, <3>1, <3>3 DEF UsableOf
    <3> QED  BY <3>2, <3>3
  <2> QED  BY <2>5 DEF UsableInv
<1>3. ASSUME NEW r \in Requests, NEW o \in OneTime, ResetPassword(r, o) \/ VerifyEmail(r, o)
      PROVE  UsableInv'
  <2>1. req'[r].pc \in {"commit", "markUser"} /\ Turn(r) /\ UNCHANGED <<onetime, overlapped>>
    BY <1>3, AcceptEffect
  <2>2. /\ \A q \in Requests, k \in Kinds, u \in Users : Creates(q, k, u)' => Creates(q, k, u)
        /\ \A x \in OneTime, k \in Kinds, u \in Users : Ready(x, k, u)' => Ready(x, k, u)
    BY <2>1 DEF Creates, Ready, Turn
  <2> QED  BY <2>1, <2>2, UsableKept
<1>4. ASSUME NEW r \in Requests, NEW o \in OneTime, CreateOneTime(r, o) PROVE UsableInv'
  <2>1. /\ req[r].pc = "create" /\ req'[r].pc \in {"idle", "issue"}
        /\ onetime'[o].user = req[r].user /\ onetime'[o].kind = req[r].kind
        /\ \A x \in OneTime \ {o} : onetime'[x] = onetime[x]
        /\ \A q \in Requests \ {r} : req'[q] = req[q]
    BY <1>4, CreateType
  <2>2. overlapped' = overlapped  BY <1>4 DEF CreateOneTime, history
  <2>3. \A q \in Requests, k \in Kinds, u \in Users : Creates(q, k, u)' => Creates(q, k, u) /\ q # r
    BY <2>1 DEF Creates
  <2>4. \A x \in OneTime, k \in Kinds, u \in Users :
           Ready(x, k, u)' => Ready(x, k, u) \/ (x = o /\ Creates(r, k, u))
    BY <2>1 DEF Creates, Ready
  <2> HIDE DEF Creates, Ready
  <2>5. ASSUME NEW k \in Kinds, NEW u \in Users, UsableOf(k, u) PROVE UsableOf(k, u)'
    BY <2>3, <2>4, <2>5 DEF UsableOf
  <2> QED  BY <2>2, <2>5 DEF UsableInv
<1>5. ASSUME NEW r \in Requests, ResetCommit(r) \/ MarkToken(r) PROVE UsableInv'
  <2>1. PICK o : o = req[r].old  OBVIOUS
  <2>2. /\ req'[r].pc = "idle" /\ Turn(r) /\ o \in OneTime /\ onetime'[o].status = "used"
        /\ \A x \in OneTime \ {o} : onetime'[x] = onetime[x]
        /\ overlapped' = overlapped
    BY <1>5, <2>1, UsedEffect
  <2>3. /\ \A q \in Requests, k \in Kinds, u \in Users : Creates(q, k, u)' => Creates(q, k, u)
        /\ \A x \in OneTime, k \in Kinds, u \in Users : Ready(x, k, u)' => Ready(x, k, u)
    BY <2>2 DEF Creates, Ready, Turn
  <2> QED  BY <2>2, <2>3, UsableKept
<1>6. ASSUME NEW r \in Requests, MarkUser(r) PROVE UsableInv'
  <2>1. req'[r].pc = "markToken" /\ Turn(r) /\ UNCHANGED <<onetime, overlapped>>
    BY <1>6, MarkUserEffect
  <2>2. /\ \A q \in Requests, k \in Kinds, u \in Users : Creates(q, k, u)' => Creates(q, k, u)
        /\ \A x \in OneTime, k \in Kinds, u \in Users : Ready(x, k, u)' => Ready(x, k, u)
    BY <2>1 DEF Creates, Ready, Turn
  <2> QED  BY <2>1, <2>2, UsableKept
<1>7. ASSUME NEW o \in OneTime, ExpireOneTime(o) PROVE UsableInv'
  <2>1. /\ \A x \in OneTime \ {o} : onetime'[x] = onetime[x]
        /\ onetime'[o].status = "expired" /\ UNCHANGED <<req, overlapped>>
    BY <1>7, ExpireOneEffect
  <2>2. /\ \A q \in Requests, k \in Kinds, u \in Users : Creates(q, k, u)' => Creates(q, k, u)
        /\ \A x \in OneTime, k \in Kinds, u \in Users : Ready(x, k, u)' => Ready(x, k, u)
    BY <2>1 DEF Creates, Ready
  <2> QED  BY <2>1, <2>2, UsableKept
<1> QED  BY <1>1, <1>2, <1>3, <1>4, <1>5, <1>6, <1>7, OneTimeStep, Zenon

\* The account is verified before its token is used up, and stays so.
VerifiedInv ==
    /\ \A r \in Requests : req[r].pc = "markToken" => account[req[r].user].verified
    /\ UsedMeansVerified

LEMMA VerifiedStep == ASSUME Typed, VerifiedInv, [Next]_vars PROVE VerifiedInv'
<1>0. /\ \A o \in OneTime : onetime[o].status = "used" => onetime[o].user \in Users
      /\ \A r \in Requests : req[r].pc # "idle" => req[r].user \in Users
  BY DEF Typed, UserInv, Created
<1>1. ASSUME \A u \in Users : account[u].verified => account'[u].verified,
             \A q \in Requests : req'[q].pc = "markToken" => req'[q] = req[q],
             \A o \in OneTime : onetime'[o].status = "used" =>
                 /\ onetime[o].status = "used" /\ onetime'[o].kind = onetime[o].kind
                 /\ onetime'[o].user = onetime[o].user
      PROVE  VerifiedInv'
  <2>1. \A q \in Requests : req'[q].pc = "markToken" => account'[req'[q].user].verified
    BY <1>0, <1>1 DEF VerifiedInv
  <2>2. UsedMeansVerified'  BY <1>0, <1>1 DEF VerifiedInv, UsedMeansVerified
  <2> QED  BY <2>1, <2>2 DEF VerifiedInv
<1>2. CASE Calm  BY <1>1, <1>2 DEF Calm, Holding
<1>3. ASSUME NEW r \in Requests, NEW kind \in Kinds, NEW u \in Users, Withdraw(r, kind, u)
      PROVE  VerifiedInv'
  <2>1. \A o \in OneTime : onetime'[o].status = "used" => onetime[o].status = "used"
    BY <1>3 DEF Withdraw
  <2>2. \A q \in Requests : req'[q].pc = "markToken" => req'[q] = req[q]
    BY <1>3 DEF Withdraw, Turn
  <2> QED  BY <1>1, <1>3, <2>1, <2>2 DEF Withdraw
<1>4. ASSUME NEW r \in Requests, NEW o \in OneTime, ResetPassword(r, o) \/ VerifyEmail(r, o)
      PROVE  VerifiedInv'
  <2>1. req'[r].pc \in {"commit", "markUser"} /\ Turn(r) /\ UNCHANGED <<account, onetime>>
    BY <1>4, AcceptEffect
  <2> QED  BY <1>1, <2>1 DEF Turn
<1>5. ASSUME NEW r \in Requests, NEW o \in OneTime, CreateOneTime(r, o) PROVE VerifiedInv'
  <2>1. /\ req'[r].pc \in {"idle", "issue"} /\ onetime'[o].status \in {"live", "unsent"}
        /\ \A x \in OneTime \ {o} : onetime'[x] = onetime[x]
        /\ \A q \in Requests \ {r} : req'[q] = req[q]
    BY <1>5, CreateType
  <2>2. account' = account  BY <1>5 DEF CreateOneTime
  <2> QED  BY <1>1, <2>1, <2>2
<1>6. ASSUME NEW r \in Requests, ResetCommit(r) \/ MarkToken(r) PROVE VerifiedInv'
  <2>1. PICK o : o = req[r].old  OBVIOUS
  <2>2. PICK u : u = req[r].user  OBVIOUS
  <2>3. /\ req[r].pc \in {"commit", "markToken"} /\ req'[r].pc = "idle" /\ Turn(r)
        /\ o \in OneTime /\ u \in Users /\ onetime[o].user = u
        /\ onetime[o].kind = (IF req[r].pc = "commit" THEN "reset" ELSE "verify")
        /\ \A x \in OneTime : onetime'[x].user = onetime[x].user /\ onetime'[x].kind = onetime[x].kind
        /\ \A x \in OneTime \ {o} : onetime'[x] = onetime[x]
        /\ \A x \in Users : account[x].verified => account'[x].verified
    BY <1>6, <2>1, <2>2, UsedEffect
  <2>4. \A q \in Requests : req'[q].pc = "markToken" => account'[req'[q].user].verified
    BY <1>0, <2>3 DEF VerifiedInv, Turn
  <2>5. onetime[o].kind = "verify" => account[u].verified
    BY <2>2, <2>3 DEF VerifiedInv
  <2>6. UsedMeansVerified'
    BY <1>0, <2>3, <2>5 DEF VerifiedInv, UsedMeansVerified
  <2> QED  BY <2>4, <2>6 DEF VerifiedInv
<1>7. ASSUME NEW r \in Requests, MarkUser(r) PROVE VerifiedInv'
  <2>1. PICK u : u = req[r].user  OBVIOUS
  <2>2. /\ Turn(r) /\ req'[r].user = u /\ u \in Users /\ account'[u].verified
        /\ \A x \in Users : account[x].verified => account'[x].verified
        /\ onetime' = onetime
    BY <1>7, <2>1, MarkUserEffect
  <2>3. \A q \in Requests : req'[q].pc = "markToken" => account'[req'[q].user].verified
    BY <1>0, <2>2 DEF VerifiedInv, Turn
  <2>4. UsedMeansVerified'  BY <1>0, <2>2 DEF VerifiedInv, UsedMeansVerified
  <2> QED  BY <2>3, <2>4 DEF VerifiedInv
<1>8. ASSUME NEW o \in OneTime, ExpireOneTime(o) PROVE VerifiedInv'
  <2>1. /\ \A x \in OneTime \ {o} : onetime'[x] = onetime[x]
        /\ onetime'[o].status = "expired" /\ UNCHANGED <<req, account>>
    BY <1>8, ExpireOneEffect
  <2> QED  BY <1>1, <2>1
<1> QED  BY <1>2, <1>3, <1>4, <1>5, <1>6, <1>7, <1>8, OneTimeStep, Zenon

LEMMA OneTimeInit == Init => OnceInv /\ UsableInv /\ VerifiedInv
<1> SUFFICES ASSUME Init PROVE OnceInv /\ UsableInv /\ VerifiedInv
  OBVIOUS
<1>1. \A o \in OneTime : onetime[o].status = "none" /\ onetime[o].uses = 0
  BY DEF Init, NoOneTime
<1>2. \A r \in Requests : req[r].pc = "idle"  BY IdleType DEF Init
<1>3. OnceInv  BY <1>1, <1>2 DEF OnceInv, Presents, Using1
<1>4. UsableInv  BY <1>1, <1>2 DEF UsableInv, UsableOf, Creates, Ready
<1>5. VerifiedInv  BY <1>1, <1>2 DEF VerifiedInv, UsedMeansVerified
<1> QED  BY <1>3, <1>4, <1>5

\* For any number of requests at once: a one-time token is used up once unless
\* two handlers had accepted it, an account has one that can be presented unless
\* two creations overlapped, and the account is verified before its verification
\* token is used up (auth.service.ts:178-193, 210-233, 246-261, 284-296).
THEOREM OneTimeTokensHold == Spec => []OneTimeTokens
<1>1. Init => Typed /\ OnceInv /\ UsableInv /\ VerifiedInv
  BY InitTypes, OneTimeInit DEF Typed
<1>2. Typed /\ OnceInv /\ UsableInv /\ VerifiedInv /\ [Next]_vars
         => (Typed /\ OnceInv /\ UsableInv /\ VerifiedInv)'
  BY StepTypes, OnceStep, UsableStep, VerifiedStep
<1>3. ASSUME Typed, OnceInv, UsableInv, VerifiedInv PROVE OneTimeTokens
  <2>1. \A o \in OneTime : onetime[o].uses \in Nat
    <3>1. \A o \in OneTime : onetime[o] \in OneTimes  BY <1>3, RowTypes
    <3> QED  BY <3>1 DEF OneTimes
  <2>2. OneTimeMeansOnce  BY <1>3, <2>1 DEF OnceInv, OneTimeMeansOnce
  <2>3. ASSUME NEW k \in Kinds, NEW u \in Users, <<k, u>> \notin overlapped
        PROVE  Cardinality({o \in Outstanding(k, u) : onetime[o].status # "expired"}) <= 1
    <3>1. UsableOf(k, u)  BY <1>3, <2>3 DEF UsableInv
    <3>2. \A o \in {x \in Outstanding(k, u) : onetime[x].status # "expired"} :
             o \in OneTime /\ Ready(o, k, u)
      BY DEF Outstanding, Ready
    <3> HIDE DEF Ready
    <3> QED  BY <3>1, <3>2, AtMostOne DEF UsableOf
  <2>4. OneUsableToken  BY <2>3 DEF OneUsableToken
  <2> QED  BY <1>3, <2>2, <2>4 DEF VerifiedInv, OneTimeTokens
<1> QED  BY <1>1, <1>2, <1>3, PTL DEF Spec
=============================================================================
