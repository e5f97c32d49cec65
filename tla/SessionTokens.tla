---------------------------- MODULE SessionTokens ----------------------------
(***************************************************************************)
(* Accounts, refresh tokens and the one-time tokens of password reset and  *)
(* e-mail verification: the handlers of auth.routes.ts and the functions   *)
(* of auth.service.ts they call.  Any number of handlers run at once, on   *)
(* any number of gateways, and every database call a handler awaits is a   *)
(* step of its own; only a password reset commits in one transaction.  A   *)
(* lookup that only finds an account (none is ever deleted), or that the   *)
(* unique address repeats, is part of the next call.                       *)
(*                                                                         *)
(* A refresh token starts a family (the session of one login) or continues *)
(* the family of the token it replaces.  Tokens are numbered as issued.    *)
(***************************************************************************)
EXTENDS Naturals, FiniteSets

CONSTANTS
    Users,        \* e-mail addresses
    Requests,     \* handlers that may run at once
    MaxRefresh,   \* bound on refresh tokens ever issued
    MaxOneTime,   \* bound on one-time tokens ever issued
    MaxRows,      \* bound on tokens of both sorts
    Development,  \* NODE_ENV is not "production": a login creates its account
    Federated,    \* AUTH_PROVIDER is not "local"
    MaxFaults,    \* bound on handlers that end in an error or with their process
    Nobody

ASSUME SessionAssumption ==
    /\ MaxRefresh \in Nat /\ MaxOneTime \in Nat /\ MaxRows \in Nat
    /\ MaxFaults \in Nat
    /\ Development \in BOOLEAN /\ Federated \in BOOLEAN
    /\ Nobody \notin Users

Tokens  == 1..MaxRefresh
OneTime == 1..MaxOneTime
Kinds   == {"reset", "verify"}

VARIABLES
    account,    \* per e-mail: does it exist, version of its password, verified?
    refresh,    \* refresh-token rows: status, user, family, password version read
    onetime,    \* PasswordResetToken and EmailVerificationToken rows
    req,        \* per handler: the call it is about to make and what it read
    held,       \* refresh tokens a client was given
    cut,        \* families a logout, reset, expiry or lost answer ended (history)
    forked,     \* families two overlapping or one broken rotation split (history)
    crossed,    \* tokens issued after a reset by a handler from before it (history)
    doubled,    \* one-time tokens two handlers had accepted at once (history)
    overlapped, \* <<kind, user>> for which two creations overlapped (history)
    faults

rows    == <<account, refresh, onetime>>
history == <<cut, forked, crossed, doubled, overlapped>>
vars    == <<rows, req, held, history, faults>>

Steps == {"idle", "ensure", "lookup", "issue", "reissue", "retire", "revoke",
          "confirm", "supersede", "create", "commit", "markUser", "markToken"}

NoToken == [status |-> "none", user |-> Nobody, family |-> 0, gen |-> 0]
NoOneTime == [status |-> "none", kind |-> "reset", user |-> Nobody, uses |-> 0]

\* What a handler knows: of a session it issues, continues or ends, and of a
\* one-time token it creates (and whether a session follows) or uses.
Handler(pc, u, t, gen) ==
    [pc |-> pc, user |-> u, old |-> t, new |-> 0, gen |-> gen,
     kind |-> "reset", session |-> FALSE]
Creating(pc, u, gen, kind, session) ==
    [pc |-> pc, user |-> u, old |-> 0, new |-> 0, gen |-> gen,
     kind |-> kind, session |-> session]
Using(pc, o, kind) ==
    [pc |-> pc, user |-> onetime[o].user, old |-> o, new |-> 0, gen |-> 0,
     kind |-> kind, session |-> FALSE]
Idle == Handler("idle", Nobody, 0, 0)

TypeOK ==
    /\ account \in [Users -> [exists : BOOLEAN, pw : Nat, verified : BOOLEAN]]
    /\ refresh \in [Tokens ->
          [status : {"none", "live", "expired", "revoked"},
           user : Users \cup {Nobody}, family : 0..MaxRefresh, gen : Nat]]
    /\ onetime \in [OneTime ->
          [status : {"none", "unsent", "live", "expired", "revoked", "used"},
           kind : Kinds, user : Users \cup {Nobody}, uses : Nat]]
    /\ req \in [Requests ->
          [pc : Steps, user : Users \cup {Nobody}, old : Nat, new : 0..MaxRefresh,
           gen : Nat, kind : Kinds, session : BOOLEAN]]
    /\ \A o \in OneTime : onetime[o].status = "used" <=> onetime[o].uses > 0
    /\ held \in SUBSET Tokens
    /\ \A t \in held : refresh[t].status # "none"
    /\ cut \in SUBSET Tokens /\ forked \in SUBSET Tokens /\ crossed \in SUBSET Tokens
    /\ doubled \in SUBSET OneTime
    /\ overlapped \in SUBSET (Kinds \X Users)
    /\ faults \in 0..MaxFaults

Init ==
    /\ account = [u \in Users |-> [exists |-> FALSE, pw |-> 0, verified |-> FALSE]]
    /\ refresh = [t \in Tokens |-> NoToken]
    /\ onetime = [o \in OneTime |-> NoOneTime]
    /\ req = [r \in Requests |-> Idle]
    /\ held = {} /\ cut = {} /\ forked = {} /\ crossed = {}
    /\ doubled = {} /\ overlapped = {}
    /\ faults = 0

Fault == faults < MaxFaults /\ faults' = faults + 1
Family(t) == refresh[t].family
Unrevoked(t) == refresh[t].status \in {"live", "expired"}
Issued == {t \in Tokens : refresh[t].status # "none"}
Created == {o \in OneTime : onetime[o].status # "none"}
Room == Cardinality(Issued) + Cardinality(Created) < MaxRows
FamiliesOf(u) == {Family(t) : t \in {s \in Issued : refresh[s].user = u}}

\* findUnique(tokenHash) and the checks on revokedAt and expiresAt.
ValidIfExpired(t) == Unrevoked(t)
Valid(t) == refresh[t].status = "live"
AcceptedAlways(o) == onetime[o].status \in {"live", "used"}
Accepted(o) == onetime[o].status = "live"

-----------------------------------------------------------------------------
(* issueRefreshToken.                                                      *)

NextId(t) == Room /\ t = Cardinality(Issued) + 1

Insert(r, t, family) ==
    /\ NextId(t)
    /\ refresh' = [refresh EXCEPT ![t] =
          [status |-> "live", user |-> req[r].user, family |-> family, gen |-> req[r].gen]]
    /\ crossed' = IF req[r].gen < account[req[r].user].pw
                  THEN crossed \cup {t} ELSE crossed

\* The last call of login, federated-login and register; the answer takes the
\* token to the client unless the audit entry or the process fails first.
Issue(r, t) ==
    /\ req[r].pc = "issue"
    /\ Insert(r, t, t)
    /\ \/ held' = held \cup {t} /\ UNCHANGED faults
       \/ Fault /\ UNCHANGED held
    /\ req' = [req EXCEPT ![r] = Idle]
    /\ UNCHANGED <<account, onetime, cut, forked, doubled, overlapped>>

-----------------------------------------------------------------------------
(* Login, federated login, registration.                                   *)

\* The account that ensureDevelopmentUser and syncFederatedUser leave.
Confirmed(row) == [exists |-> TRUE, pw |-> row.pw, verified |-> TRUE]

\* verifyPasswordLogin with a password that matches what it reads.
Lookup(r, u) ==
    /\ account[u].exists
    /\ req' = [req EXCEPT ![r] = Handler("issue", u, 0, account[u].pw)]
    /\ UNCHANGED <<rows, held, history, faults>>

Login(r, u) == req[r].pc = "idle" /\ Lookup(r, u)

\* ensureDevelopmentUser finds no account and goes on to create it.
LoginUnknown(r, u) ==
    /\ Development
    /\ req[r].pc = "idle" /\ ~account[u].exists
    /\ req' = [req EXCEPT ![r] = Handler("ensure", u, 0, 0)]
    /\ UNCHANGED <<rows, held, history, faults>>

\* The address is unique: whoever comes second gets an error.
EnsureUser(r) ==
    LET u == req[r].user IN
    /\ req[r].pc = "ensure"
    /\ IF account[u].exists
       THEN req' = [req EXCEPT ![r] = Idle] /\ UNCHANGED account
       ELSE /\ account' = [account EXCEPT ![u] = Confirmed(@)]
            /\ req' = [req EXCEPT ![r] = [@ EXCEPT !.pc = "lookup"]]
    /\ UNCHANGED <<refresh, onetime, held, history, faults>>

LookupEnsured(r) == req[r].pc = "lookup" /\ Lookup(r, req[r].user)

\* Upsert by e-mail.
SyncFederatedUser(u) ==
    account' = [account EXCEPT ![u] = Confirmed(@)]

\* verifyFederatedLogin accepts the assertion of the provider.
FederatedLogin(r, u) ==
    /\ Federated
    /\ req[r].pc = "idle"
    /\ SyncFederatedUser(u)
    /\ req' = [req EXCEPT ![r] = Handler("issue", u, 0, account[u].pw)]
    /\ UNCHANGED <<refresh, onetime, held, history, faults>>

\* registerUser; createEmailVerificationToken and issueRefreshToken follow.
Register(r, u) ==
    /\ req[r].pc = "idle" /\ ~account[u].exists
    /\ account' = [account EXCEPT ![u] = [@ EXCEPT !.exists = TRUE]]
    /\ req' = [req EXCEPT ![r] =
          Creating("confirm", u, account[u].pw, "verify", TRUE)]
    /\ UNCHANGED <<refresh, onetime, held, history, faults>>

-----------------------------------------------------------------------------
(* One-time tokens: createPasswordResetToken, createEmailVerificationToken. *)

Outstanding(kind, u) ==
    {o \in OneTime : /\ onetime[o].kind = kind /\ onetime[o].user = u
                     /\ onetime[o].status \in {"unsent", "live", "expired"}}

RevokeOutstanding(kind, u) ==
    onetime' = [o \in OneTime |-> IF o \in Outstanding(kind, u)
                                  THEN [onetime[o] EXCEPT !.status = "revoked"]
                                  ELSE onetime[o]]

\* findUnique: the account exists, and for a verification is not verified yet.
ForgotPassword(r, u) ==
    /\ req[r].pc = "idle" /\ account[u].exists
    /\ req' = [req EXCEPT ![r] = Creating("supersede", u, 0, "reset", FALSE)]
    /\ UNCHANGED <<rows, held, history, faults>>

ResendVerification(r, u) ==
    /\ req[r].pc = "idle" /\ account[u].exists /\ ~account[u].verified
    /\ req' = [req EXCEPT ![r] = Creating("supersede", u, 0, "verify", FALSE)]
    /\ UNCHANGED <<rows, held, history, faults>>

\* A verified account needs no token: registration goes on with the session.
ConfirmRegistered(r) ==
    /\ req[r].pc = "confirm"
    /\ req' = [req EXCEPT ![r] = [@ EXCEPT !.pc =
          IF account[req[r].user].verified THEN "issue" ELSE "supersede"]]
    /\ UNCHANGED <<rows, held, history, faults>>

\* updateMany, whatever was verified since; the row is created by the next call.
Supersede(r) ==
    LET kind == req[r].kind
        u == req[r].user
    IN
    /\ req[r].pc = "supersede"
    /\ RevokeOutstanding(kind, u)
    /\ overlapped' = IF \E q \in Requests \ {r} : req[q].pc = "create" /\ req[q].kind = kind
                                                    /\ req[q].user = u
                     THEN overlapped \cup {<<kind, u>>} ELSE overlapped
    /\ req' = [req EXCEPT ![r] = [@ EXCEPT !.pc = "create"]]
    /\ UNCHANGED <<account, refresh, held, cut, forked, crossed, doubled, faults>>

\* create, then the e-mail, which may fail and leave a row nobody can present.
CreateOneTime(r, o) ==
    LET sent(status, next) ==
          /\ onetime' = [onetime EXCEPT ![o] =
                [status |-> status, kind |-> req[r].kind, user |-> req[r].user, uses |-> 0]]
          /\ req' = [req EXCEPT ![r] = next]
    IN
    /\ req[r].pc = "create"
    /\ Room /\ o = Cardinality(Created) + 1
    /\ \/ /\ sent("live", IF req[r].session THEN [req[r] EXCEPT !.pc = "issue"] ELSE Idle)
          /\ UNCHANGED faults
       \/ Fault /\ sent("unsent", Idle)
    /\ UNCHANGED <<account, refresh, held, history>>

Used(row) == [status |-> "used", kind |-> row.kind, user |-> row.user, uses |-> row.uses + 1]

AcceptOneTime(r, o, kind, next) ==
    /\ req[r].pc = "idle"
    /\ onetime[o].kind = kind /\ Accepted(o)
    /\ req' = [req EXCEPT ![r] = Using(next, o, kind)]
    /\ doubled' = IF \E q \in Requests \ {r} :
                        req[q].pc \in {"commit", "markUser", "markToken"} /\ req[q].old = o
                  THEN doubled \cup {o} ELSE doubled
    /\ UNCHANGED <<rows, held, cut, forked, crossed, overlapped, faults>>

-----------------------------------------------------------------------------
(* resetPasswordWithToken, verifyEmailWithToken.                           *)

ResetPassword(r, o) == AcceptOneTime(r, o, "reset", "commit")

KeepSessions(u) == UNCHANGED refresh
RevokeSessions(u) ==
    refresh' = [t \in Tokens |-> IF refresh[t].user = u /\ Unrevoked(t)
                                 THEN [refresh[t] EXCEPT !.status = "revoked"]
                                 ELSE refresh[t]]

\* $transaction: the password, the token, all sessions of the user.
ResetCommit(r) ==
    LET u == req[r].user
        o == req[r].old
    IN
    /\ req[r].pc = "commit"
    /\ account' = [account EXCEPT ![u] = [@ EXCEPT !.pw = account[u].pw + 1]]
    /\ onetime' = [onetime EXCEPT ![o] = Used(@)]
    /\ RevokeSessions(u)
    /\ cut' = cut \cup FamiliesOf(u)
    /\ req' = [req EXCEPT ![r] = Idle]
    /\ UNCHANGED <<held, forked, crossed, doubled, overlapped, faults>>

VerifyEmail(r, o) == AcceptOneTime(r, o, "verify", "markUser")

MarkUser(r) ==
    /\ req[r].pc = "markUser"
    /\ account' = [account EXCEPT ![req[r].user] = [@ EXCEPT !.verified = TRUE]]
    /\ req' = [req EXCEPT ![r] = [@ EXCEPT !.pc = "markToken"]]
    /\ UNCHANGED <<refresh, onetime, held, history, faults>>

MarkToken(r) ==
    LET o == req[r].old IN
    /\ req[r].pc = "markToken"
    /\ onetime' = [onetime EXCEPT ![o] = Used(@)]
    /\ req' = [req EXCEPT ![r] = Idle]
    /\ UNCHANGED <<account, refresh, held, history, faults>>

-----------------------------------------------------------------------------
(* rotateRefreshToken and revokeRefreshToken.                              *)

RetireFirst(r, t) ==
    /\ req[r].pc = "idle"
    /\ t \in held /\ Valid(t)
    /\ refresh' = [refresh EXCEPT ![t] = [@ EXCEPT !.status = "revoked"]]
    /\ req' = [req EXCEPT ![r] = Handler("reissue", refresh[t].user, t, refresh[t].gen)]
    /\ UNCHANGED <<account, onetime, held, history, faults>>

Refresh(r, t) ==
    /\ req[r].pc = "idle"
    /\ t \in held /\ Valid(t)
    /\ req' = [req EXCEPT ![r] = Handler("reissue", refresh[t].user, t, refresh[t].gen)]
    /\ forked' = IF \E q \in Requests \ {r} :
                       req[q].pc \in {"reissue", "retire"} /\ req[q].old = t
                 THEN forked \cup {Family(t)} ELSE forked
    /\ UNCHANGED <<rows, held, cut, crossed, doubled, overlapped, faults>>

Reissue(r, t) ==
    /\ req[r].pc = "reissue"
    /\ Insert(r, t, Family(req[r].old))
    /\ req' = [req EXCEPT ![r] =
          [Handler("retire", req[r].user, req[r].old, req[r].gen) EXCEPT !.new = t]]
    /\ UNCHANGED <<account, onetime, held, cut, forked, doubled, overlapped, faults>>

NotRetired(t) == UNCHANGED refresh
Retired(t) == refresh' = [refresh EXCEPT ![t] = [@ EXCEPT !.status = "revoked"]]

\* update(revokedAt); the answer takes the successor to the client, unless the
\* audit entry or the process fails first.
Retire(r) ==
    /\ req[r].pc = "retire"
    /\ Retired(req[r].old)
    /\ \/ held' = held \cup {req[r].new} /\ UNCHANGED <<cut, faults>>
       \/ Fault /\ cut' = cut \cup {Family(req[r].old)} /\ UNCHANGED held
    /\ req' = [req EXCEPT ![r] = Idle]
    /\ UNCHANGED <<account, onetime, forked, crossed, doubled, overlapped>>

Logout(r, t) ==
    /\ req[r].pc = "idle"
    /\ t \in held /\ Unrevoked(t)
    /\ req' = [req EXCEPT ![r] = Handler("revoke", refresh[t].user, t, 0)]
    /\ UNCHANGED <<rows, held, history, faults>>

Revoke(r) ==
    /\ req[r].pc = "revoke"
    /\ Retired(req[r].old)
    /\ cut' = cut \cup {Family(req[r].old)}
    /\ req' = [req EXCEPT ![r] = Idle]
    /\ UNCHANGED <<account, onetime, held, forked, crossed, doubled, overlapped, faults>>

-----------------------------------------------------------------------------
(* Time and failures.                                                      *)

ExpireRefresh(t) ==
    /\ refresh[t].status = "live"
    /\ refresh' = [refresh EXCEPT ![t] = [@ EXCEPT !.status = "expired"]]
    /\ cut' = cut \cup {Family(t)}
    /\ UNCHANGED <<account, onetime, req, held, forked, crossed, doubled, overlapped, faults>>

ExpireOneTime(o) ==
    /\ onetime[o].status = "live"
    /\ onetime' = [onetime EXCEPT ![o] = [@ EXCEPT !.status = "expired"]]
    /\ UNCHANGED <<account, refresh, req, held, history, faults>>

\* The call a handler is about to make fails, or its process stops before it.
HandlerFails(r) ==
    /\ req[r].pc # "idle"
    /\ Fault
    /\ forked' = IF req[r].pc = "retire" THEN forked \cup {Family(req[r].old)} ELSE forked
    /\ req' = [req EXCEPT ![r] = Idle]
    /\ UNCHANGED <<rows, held, cut, crossed, doubled, overlapped>>

-----------------------------------------------------------------------------

Start(r, u) ==
    \/ Login(r, u) \/ LoginUnknown(r, u) \/ FederatedLogin(r, u) \/ Register(r, u)
    \/ ForgotPassword(r, u) \/ ResendVerification(r, u)

Next ==
    \/ \E r \in Requests, u \in Users : Start(r, u)
    \/ \E r \in Requests, t \in Tokens :
          Refresh(r, t) \/ Logout(r, t) \/ Issue(r, t) \/ Reissue(r, t)
    \/ \E r \in Requests, o \in OneTime :
          ResetPassword(r, o) \/ VerifyEmail(r, o) \/ CreateOneTime(r, o)
    \/ \E r \in Requests :
          \/ EnsureUser(r) \/ LookupEnsured(r) \/ ConfirmRegistered(r) \/ Supersede(r)
          \/ ResetCommit(r) \/ MarkUser(r) \/ MarkToken(r) \/ Retire(r) \/ Revoke(r)
          \/ HandlerFails(r)
    \/ \E t \in Tokens : ExpireRefresh(t)
    \/ \E o \in OneTime : ExpireOneTime(o)

Spec == Init /\ [][Next]_vars

-----------------------------------------------------------------------------
(* Properties.                                                             *)

LiveIn(f) == {t \in Tokens : refresh[t].status = "live" /\ Family(t) = f}
BeingRetired == {req[r].old : r \in {q \in Requests : req[q].pc = "retire"}}

\* A family has one token to continue with: the tokens of a family that are
\* live and not about to be retired are at most one, unless two rotations of
\* one token overlapped or one broke off between its two writes
\* (rotateRefreshToken, auth.service.ts:140-152).
OneLiveToken ==
    \A f \in Tokens \ forked : Cardinality(LiveIn(f) \ BeingRetired) <= 1

\* A client that was given a token can go on with its session: some token of
\* the family it holds is live, until logout, reset, expiry or an answer that
\* was lost after the last write.  Rotation revokes the old token last, so a
\* failure in between costs nothing (auth.service.ts:142-152).
SessionSurvives ==
    \A t \in held : Family(t) \in cut \/ held \cap LiveIn(Family(t)) # {}

Rotating(f) == {r \in Requests : req[r].pc = "reissue" /\ Family(req[r].old) = f}

\* A session that has ended stays so: no rotation of a family without a live
\* token is accepted, and none comes to life unless a rotation accepted before
\* the end was still on its way (auth.service.ts:135-147).
EndedStaysEnded ==
    [][\A f \in {Family(t) : t \in held} : LiveIn(f) = {} =>
          /\ Rotating(f)' \subseteq Rotating(f)
          /\ Rotating(f) = {} => LiveIn(f)' = {}]_vars

\* No session from before a password reset outlives it; the exception are
\* tokens issued after it by handlers that had read the old state
\* (resetPasswordWithToken, auth.service.ts:217-233).
ResetEndsSessions ==
    \A t \in Tokens :
        Unrevoked(t) /\ refresh[t].gen < account[refresh[t].user].pw => t \in crossed

\* A one-time token is used up once, unless two handlers accepted it before
\* either had used it (auth.service.ts:210-233, 284-296).
OneTimeMeansOnce == \A o \in OneTime : onetime[o].uses > 1 => o \in doubled

\* An account has one token of a kind that can be presented: asking again
\* withdraws the earlier one, unless the two requests overlapped
\* (auth.service.ts:178-193, 246-261).
OneUsableToken ==
    \A k \in Kinds, u \in Users :
        <<k, u>> \in overlapped \/
        Cardinality({o \in Outstanding(k, u) : onetime[o].status # "expired"}) <= 1

\* A verification token is used up only after its account was verified:
\* a failure between the two writes can be repaired with the same token
\* (auth.service.ts:288-296).
UsedMeansVerified ==
    \A o \in OneTime :
        onetime[o].kind = "verify" /\ onetime[o].status = "used" =>
            account[onetime[o].user].verified

\* The three together: whoever holds the newest one-time token can use it, and
\* nobody can use one for something that has been done or taken back.
OneTimeTokens == OneTimeMeansOnce /\ OneUsableToken /\ UsedMeansVerified
=============================================================================
