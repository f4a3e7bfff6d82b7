-------------------------- MODULE AuthSessionsProofs --------------------------
(***************************************************************************)
(* Proofs about AuthSessions for every number of requests, pairs,          *)
(* passwords, roles and failed calls.                                      *)
(***************************************************************************)
EXTENDS AuthSessions, TLAPS

\* A request record is built from well-typed parts.
LEMMA NoRequestType == NoRequest \in Request
  BY PasswordsAssumption DEF NoRequest, Request, Snapshot

\* The two keys of a pair are JTIs, and keys of different pairs differ.
LEMMA KeyTypes ==
  ASSUME NEW p \in Pairs
  PROVE  /\ Access(p) \in JTI /\ Refresh(p) \in JTI
         /\ Access(p).pair = p /\ Refresh(p).pair = p
         /\ Access(p) # Refresh(p)
         /\ \A q \in Pairs : q # p => Access(p) # Access(q) /\ Refresh(p) # Refresh(q)
                                      /\ Access(p) # Refresh(q)
  BY DEF Access, Refresh, JTI

-----------------------------------------------------------------------------
(* Lemmas about the control helpers and the request records                *)

LEMMA GotoTypes ==
  ASSUME pc \in [Requests -> Steps], NEW r \in Requests, NEW s, Goto(r, s)
  PROVE  /\ s \in Steps => pc' \in [Requests -> Steps]
         /\ pc'[r] = s
         /\ \A x \in Requests : x # r => pc'[x] = pc[x]
  BY DEF Goto

LEMMA ReturnTypes ==
  ASSUME pc \in [Requests -> Steps], req \in [Requests -> Request],
         NEW r \in Requests, Return(r)
  PROVE  /\ pc' \in [Requests -> Steps] /\ req' \in [Requests -> Request]
         /\ pc'[r] = "idle" /\ req'[r] = NoRequest
         /\ \A x \in Requests : x # r => pc'[x] = pc[x] /\ req'[x] = req[x]
  BY NoRequestType DEF Return, Goto, Steps

LEMMA CallTypes ==
  ASSUME faults \in 0..MaxFaults, NEW ok, Call(ok)
  PROVE  faults' \in 0..MaxFaults
  BY FaultAssumption DEF Call

\* A new request is well typed, with or without a token.
LEMMA NewTokenRequest ==
  ASSUME NEW op \in AllOps, NEW j \in JTI, NEW g \in SUBSET JTI, NEW o \in SUBSET JTI
  PROVE  [NoRequest EXCEPT !.op = op, !.jti = j, !.goneAtStart = g,
                           !.outAtStart = o] \in Request
  BY NoRequestType DEF Request

LEMMA NewUserRequest ==
  ASSUME NEW op \in AllOps
  PROVE  /\ [NoRequest EXCEPT !.op = op] \in Request
         /\ \A u \in Snapshot : [NoRequest EXCEPT !.op = op, !.user = u] \in Request
  BY NoRequestType DEF Request

\* So is a request after one of its local variables is assigned.
LEMMA FieldTypes ==
  ASSUME NEW q \in Request
  PROVE  /\ \A u \in Snapshot : [q EXCEPT !.user = u] \in Request
         /\ \A e \in SUBSET Roles : [q EXCEPT !.existing = e] \in Request
         /\ \A p \in Pairs : [q EXCEPT !.pair = p] \in Request
         /\ \A t \in SUBSET JTI : [q EXCEPT !.todo = t] \in Request
  BY DEF Request

\* And the account after each of its updates.
LEMMA AccountTypes ==
  ASSUME account \in Account
  PROVE  /\ account.password \in Passwords /\ account.roles \subseteq Roles
         /\ \A pw \in Passwords :
              /\ [account EXCEPT !.password = pw] \in Account
              /\ [account EXCEPT !.status = "active", !.password = pw] \in Account
         /\ [account EXCEPT !.status = "deleted", !.roles = {}] \in Account
         /\ \A rs \in SUBSET Roles : [account EXCEPT !.roles = rs] \in Account
  BY DEF Account

LEMMA MutatedTypes ==
  ASSUME NEW op, NEW u \in Snapshot, NEW m \in Mutated(op, u)
  PROVE  m \in Snapshot
  BY DEF Mutated, Snapshot

\* Every branch of the control flow is a step of the program.
LEMMA NextSteps ==
  ASSUME NEW op
  PROVE  /\ AfterCheck(op) \in {"serve", "logoutBlacklist", "findUser"}
         /\ AfterFind(op) \in {"mint", "deleteRow", "updateRow"}
         /\ AfterSync(op) \in {"scan", "mint", "idle"}
  BY DEF AfterCheck, AfterFind, AfterSync

\* SyncRoles ends the request or goes on; its roles are the account's and the entity's.
LEMMA SyncMoves ==
  ASSUME NEW r \in Requests, SyncRoles(r)
  PROVE  Return(r) \/ (Goto(r, AfterSync(req[r].op)) /\ UNCHANGED req)
<1>1. PICK removed \in SUBSET (req[r].existing \ req[r].user.roles),
           added \in SUBSET (req[r].user.roles \ req[r].existing) :
        \/ IF AfterSync(req[r].op) = "idle"
           THEN Return(r)
           ELSE Goto(r, AfterSync(req[r].op)) /\ UNCHANGED req
        \/ Return(r)
  BY Zenon DEF SyncRoles
<1>2. QED
  BY <1>1, Zenon

LEMMA SyncNext ==
  ASSUME pc \in [Requests -> Steps], req \in [Requests -> Request],
         NEW r \in Requests, SyncRoles(r)
  PROVE  /\ pc' \in [Requests -> Steps] /\ req' \in [Requests -> Request]
         /\ pc'[r] \in {"idle", "scan", "mint"}
         /\ \A x \in Requests : x # r => pc'[x] = pc[x] /\ req'[x] = req[x]
<1>1. CASE Return(r)
  BY <1>1, ReturnTypes
<1>2. CASE Goto(r, AfterSync(req[r].op)) /\ UNCHANGED req
  <2>1. AfterSync(req[r].op) \in {"scan", "mint", "idle"}
    BY NextSteps
  <2>2. AfterSync(req[r].op) \in Steps
    BY <2>1 DEF Steps
  <2>3. QED
    BY <1>2, <2>1, <2>2, GotoTypes
<1>3. QED
  BY <1>1, <1>2, SyncMoves

LEMMA RequestFields ==
  ASSUME NEW q \in Request
  PROVE  /\ q.user \in Snapshot /\ q.user.password \in Passwords
         /\ q.user.roles \subseteq Roles /\ q.existing \subseteq Roles
         /\ q.todo \subseteq JTI
  BY DEF Request, Snapshot

-----------------------------------------------------------------------------
(* Types are preserved by every step                                        *)

LEMMA TypeStep ==
  ASSUME IInv, [Next]_vars
  PROVE  TypeOK'
<1> USE DEF IInv, TypeOK, redisVars, tokenVars
<1>1. CASE UNCHANGED vars
  BY <1>1 DEF vars
<1>2. ASSUME NEW r \in Requests, Step(r)
      PROVE  TypeOK'
  <2>1. ASSUME NEW op \in TokenOps, NEW j \in JTI, Begin(r, op, j)
        PROVE  TypeOK'
    <3>1. req' \in [Requests -> Request]
      BY <2>1, NewTokenRequest DEF Begin, TokenOps, AllOps
    <3>2. pc' \in [Requests -> Steps]
      BY <2>1, GotoTypes DEF Begin, Steps, CheckSteps
    <3>3. QED
      BY <2>1, <3>1, <3>2 DEF Begin
  <2>2. ASSUME NEW op \in UserOps, BeginUserOp(r, op)
        PROVE  TypeOK'
    <3>1. req' \in [Requests -> Request]
      BY <2>2, NewUserRequest DEF BeginUserOp, AllOps
    <3>2. pc' \in [Requests -> Steps]
      BY <2>2, GotoTypes DEF BeginUserOp, Steps
    <3>3. QED
      BY <2>2, <3>1, <3>2 DEF BeginUserOp
  <2>3. ASSUME BeginRegister(r)
        PROVE  TypeOK'
    <3>1. \A pw \in Passwords : [password |-> pw, roles |-> {DefaultRole}] \in Snapshot
      BY DefaultRoleAssumption DEF Snapshot
    <3>2. req' \in [Requests -> Request]
      <4>1. PICK pw \in Passwords :
              req' = [req EXCEPT ![r] = [NoRequest EXCEPT
                        !.op = "register",
                        !.user = [password |-> pw, roles |-> {DefaultRole}]]]
        BY <2>3 DEF BeginRegister
      <4>2. [NoRequest EXCEPT !.op = "register",
                !.user = [password |-> pw, roles |-> {DefaultRole}]] \in Request
        BY <3>1, NewUserRequest DEF AllOps
      <4>3. QED
        BY <4>1, <4>2
    <3>3. pc' \in [Requests -> Steps]
      BY <2>3, GotoTypes DEF BeginRegister, Steps
    <3>4. QED
      BY <2>3, <3>2, <3>3 DEF BeginRegister
  <2>4. CheckBlacklist(r) => TypeOK'
    BY CallTypes, ReturnTypes, GotoTypes DEF CheckBlacklist, Steps, CheckSteps
  <2>5. CheckSession(r) => TypeOK'
    BY CallTypes, ReturnTypes, GotoTypes, NextSteps DEF CheckSession, Steps, LogoutSteps
  <2>6. Serve(r) => TypeOK'
    BY ReturnTypes DEF Serve
  <2>7. ASSUME FindUser(r)
        PROVE  TypeOK'
    <3>1. [password |-> account.password, roles |-> {}] \in Snapshot
      BY AccountTypes DEF Snapshot
    <3>2. [req[r] EXCEPT !.user = [password |-> account.password, roles |-> {}]]
             \in Request
      BY <3>1, FieldTypes
    <3>3. pc' \in [Requests -> Steps] /\ req' \in [Requests -> Request]
      BY <2>7, <3>2, ReturnTypes, GotoTypes DEF FindUser, Steps
    <3>4. faults' \in 0..MaxFaults
      BY <2>7, CallTypes DEF FindUser
    <3>5. QED
      BY <2>7, <3>3, <3>4 DEF FindUser
  <2>8. ASSUME InsertUser(r)
        PROVE  TypeOK'
    <3>1. account' \in Account
      BY <2>8, AccountTypes, RequestFields DEF InsertUser
    <3>2. pc' \in [Requests -> Steps] /\ req' \in [Requests -> Request]
      BY <2>8, ReturnTypes, GotoTypes DEF InsertUser, Steps
    <3>3. faults' \in 0..MaxFaults
      BY <2>8, CallTypes DEF InsertUser
    <3>4. QED
      BY <2>8, <3>1, <3>2, <3>3 DEF InsertUser
  <2>9. ASSUME UpdateRow(r)
        PROVE  TypeOK'
    <3>1. account' \in Account
      BY <2>9, AccountTypes, RequestFields DEF UpdateRow
    <3>2. pc' \in [Requests -> Steps] /\ req' \in [Requests -> Request]
      BY <2>9, ReturnTypes, GotoTypes DEF UpdateRow, Steps
    <3>3. faults' \in 0..MaxFaults
      BY <2>9, CallTypes DEF UpdateRow
    <3>4. QED
      BY <2>9, <3>1, <3>2, <3>3 DEF UpdateRow
  <2>10. DeleteRow(r) => TypeOK'
    BY CallTypes, ReturnTypes, AccountTypes DEF DeleteRow
  <2>11. ASSUME SyncRead(r)
         PROVE  TypeOK'
    <3>1. req' \in [Requests -> Request]
      <4>1. [req[r] EXCEPT !.existing = account.roles] \in Request
        BY FieldTypes, AccountTypes
      <4>2. QED
        BY <2>11, <4>1, ReturnTypes DEF SyncRead
    <3>2. pc' \in [Requests -> Steps]
      BY <2>11, ReturnTypes, GotoTypes DEF SyncRead, Steps
    <3>3. faults' \in 0..MaxFaults
      BY <2>11, CallTypes DEF SyncRead
    <3>4. QED
      BY <2>11, <3>1, <3>2, <3>3 DEF SyncRead
  <2>12. ASSUME SyncRoles(r)
         PROVE  TypeOK'
    <3>1. account' \in Account
      BY <2>12, AccountTypes, RequestFields DEF SyncRoles
    <3>2. pc' \in [Requests -> Steps] /\ req' \in [Requests -> Request]
      BY <2>12, SyncNext
    <3>3. faults' \in 0..MaxFaults
      BY <2>12, CallTypes DEF SyncRoles
    <3>4. QED
      BY <2>12, <3>1, <3>2, <3>3 DEF SyncRoles
  <2>13. ASSUME Mint(r)
         PROVE  TypeOK'
    <3>1. req' \in [Requests -> Request]
      BY <2>13, ReturnTypes, FieldTypes DEF Mint
    <3>2. pc' \in [Requests -> Steps]
      BY <2>13, ReturnTypes, GotoTypes DEF Mint, Steps, StoreSteps
    <3>3. grant' \in [Pairs -> Snapshot]
      BY <2>13, RequestFields DEF Mint
    <3>4. QED
      BY <2>13, <3>1, <3>2, <3>3 DEF Mint
  <2>14. StoreAccess(r) => TypeOK'
    BY CallTypes, GotoTypes, KeyTypes
    DEF StoreAccess, Steps, StoreSteps, RequestInv
  <2>15. StoreRefresh(r) => TypeOK'
    BY CallTypes, ReturnTypes, KeyTypes DEF StoreRefresh, StoreSteps, RequestInv
  <2>16. ASSUME ScanStart(r)
         PROVE  TypeOK'
    <3>1. req' \in [Requests -> Request]
      BY <2>16, FieldTypes DEF ScanStart
    <3>2. pc' \in [Requests -> Steps]
      BY <2>16, GotoTypes DEF ScanStart, Steps
    <3>3. QED
      BY <2>16, <3>1, <3>2 DEF ScanStart
  <2>17. ScanDelete(r) => TypeOK'
    BY DEF ScanDelete
  <2>18. ScanEnd(r) => TypeOK'
    BY CallTypes, ReturnTypes DEF ScanEnd
  <2>19. LogoutBlacklist(r) => TypeOK'
    BY CallTypes, GotoTypes DEF LogoutBlacklist, RequestInv, LogoutSteps, Steps
  <2>20. LogoutLookup(r) => TypeOK'
    BY CallTypes, GotoTypes DEF LogoutLookup, LogoutSteps, Steps
  <2>21. LogoutRefresh(r) => TypeOK'
    BY CallTypes, GotoTypes, KeyTypes DEF LogoutRefresh, RequestInv, LogoutSteps, Steps, JTI
  <2>22. LogoutRefreshKey(r) => TypeOK'
    BY CallTypes, GotoTypes, KeyTypes
    DEF LogoutRefreshKey, DeleteKey, RequestInv, LogoutSteps, Steps, JTI
  <2>23. LogoutAccessKey(r) => TypeOK'
    BY CallTypes, ReturnTypes DEF LogoutAccessKey, DeleteKey, RequestInv, LogoutSteps
  <2>24. ASSUME FindRoles(r)
         PROVE  TypeOK'
    <3>1. \A u \in Mutated(req[r].op, [password |-> req[r].user.password,
                                       roles |-> account.roles]) : u \in Snapshot
      BY AccountTypes, RequestFields, MutatedTypes DEF Snapshot
    <3>2. pc' \in [Requests -> Steps]
      BY <2>24, ReturnTypes, GotoTypes, NextSteps DEF FindRoles, Steps
    <3>3. req' \in [Requests -> Request]
      <4>1. CASE Return(r)
        BY <4>1, ReturnTypes
      <4>2. CASE ~ Return(r)
        <5>1. PICK u \in Mutated(req[r].op, [password |-> req[r].user.password,
                                             roles |-> account.roles]) :
                req' = [req EXCEPT ![r] = [@ EXCEPT !.user = u]]
          BY <2>24, <4>2 DEF FindRoles
        <5>2. [req[r] EXCEPT !.user = u] \in Request
          BY <3>1, FieldTypes
        <5>3. QED
          BY <5>1, <5>2
      <4>3. QED
        BY <4>1, <4>2
    <3>4. faults' \in 0..MaxFaults
      BY <2>24, CallTypes DEF FindRoles
    <3>5. QED
      BY <2>24, <3>2, <3>3, <3>4 DEF FindRoles
  <2>25. QED
    BY <1>2, <2>1, <2>2, <2>3, <2>4, <2>5, <2>6, <2>7, <2>8, <2>9, <2>10, <2>11,
       <2>12, <2>13, <2>14, <2>15, <2>16, <2>17, <2>18, <2>19, <2>20, <2>21, <2>22,
       <2>23, <2>24 DEF Step
<1>3. ASSUME NEW j \in JTI, Expire(j) \/ DropSession(j) \/ DropBlacklist(j)
      PROVE  TypeOK'
  BY <1>3 DEF Expire, DropSession, DropBlacklist
<1>4. QED
  BY <1>1, <1>2, <1>3 DEF Next, Time

\* The initial state satisfies the inductive invariant.
THEOREM InitIInv == Init => IInv
<1> SUFFICES ASSUME Init PROVE IInv
  OBVIOUS
<1>1. TypeOK
  <2>1. account \in Account
    BY DefaultRoleAssumption DEF Init, Account
  <2>2. grant \in [Pairs -> Snapshot]
    BY PasswordsAssumption DEF Init, NoRequest, Snapshot
  <2>3. req \in [Requests -> Request]
    BY NoRequestType DEF Init
  <2>4. QED
    BY <2>1, <2>2, <2>3, FaultAssumption DEF Init, TypeOK, Steps
<1>2. \A r \in Requests : pc[r] = "idle" /\ req[r].goneAtStart = {}
  BY DEF Init, NoRequest
<1>3. QED
  BY <1>1, <1>2 DEF Init, IInv, StoreInv, RequestInv, UniqueWriter, NoResurrection,
     InvalidatedNeverAccepted, CheckSteps, LogoutSteps, StoreSteps

-----------------------------------------------------------------------------
(* The inductive step.  Most steps only move one request forward, or remove  *)
(* keys and revoke tokens that a client holds; Kept and Moved say so, and     *)
(* RevocationStep is the argument for all of them.  The steps that mint a     *)
(* pair and write its keys are treated one by one.                            *)

Kept(x) == pc'[x] = pc[x] /\ req'[x] = req[x]

Moved(x) ==
  /\ pc'[x] \in Steps \ StoreSteps
  /\ pc'[x] \in CheckSteps \cup LogoutSteps =>
       req'[x].jti \in JTI /\ req'[x].jti.pair \in held
  /\ req'[x].goneAtStart # {} => pc'[x] \in CheckSteps /\ req'[x].jti \in erased

\* A step that mints nothing and writes no session key preserves the invariant
\* if it revokes tokens of held pairs only.
LEMMA RevocationStep ==
  ASSUME IInv, TypeOK', UNCHANGED <<minted, held>>,
         \A x \in Requests : Kept(x) \/ Moved(x),
         sessions' \subseteq sessions,
         erased \subseteq erased',
         erased' \cap sessions' = {},
         \A j \in erased' \ (sessions \cup erased) : j.pair \in held,
         \A j \in blacklist' \cup expired' : j.pair \in held
  PROVE  IInv'
<1>1. StoreInv'
  BY DEF IInv, StoreInv
<1>2. RequestInv'
  <2> SUFFICES ASSUME NEW x \in Requests
               PROVE  /\ pc'[x] \in CheckSteps \cup LogoutSteps =>
                           req'[x].jti \in JTI /\ req'[x].jti.pair \in held'
                      /\ pc'[x] \in StoreSteps =>
                           /\ req'[x].pair \in minted' \ held'
                           /\ Refresh(req'[x].pair) \notin sessions' \cup erased'
                      /\ pc'[x] = "storeAccess" =>
                           Access(req'[x].pair) \notin sessions' \cup erased'
                      /\ req'[x].goneAtStart # {} => req'[x].jti \in erased'
    BY DEF RequestInv
  <2>1. CASE Moved(x)
    BY <2>1 DEF Moved, StoreSteps
  <2>2. CASE Kept(x)
    <3>1. pc[x] \in StoreSteps => /\ Refresh(req[x].pair).pair \notin held
                                  /\ Access(req[x].pair).pair \notin held
      BY KeyTypes DEF IInv, TypeOK, RequestInv
    <3>2. pc[x] \in StoreSteps => Refresh(req[x].pair) \notin sessions' \cup erased'
      BY <3>1 DEF IInv, RequestInv
    <3>3. pc[x] = "storeAccess" => Access(req[x].pair) \notin sessions' \cup erased'
      BY <3>1 DEF IInv, RequestInv, StoreSteps
    <3>4. QED
      BY <2>2, <3>2, <3>3 DEF IInv, RequestInv, Kept
  <2>3. QED
    BY <2>1, <2>2
<1>3. UniqueWriter'
  BY DEF IInv, UniqueWriter, Kept, Moved
<1>4. NoResurrection'
  BY DEF NoResurrection
<1>5. InvalidatedNeverAccepted'
  BY DEF IInv, InvalidatedNeverAccepted, Kept, Moved
<1>6. QED
  BY <1>1, <1>2, <1>3, <1>4, <1>5 DEF IInv

\* A request that has passed its checks presented a token that was not erased.
LEMMA PastChecks ==
  ASSUME IInv, NEW r \in Requests, pc[r] \notin CheckSteps
  PROVE  req[r].goneAtStart = {}
  BY DEF IInv, InvalidatedNeverAccepted

LEMMA NoRequestIsFresh == NoRequest.goneAtStart = {} /\ NoRequest.outAtStart = {}
  BY DEF NoRequest

\* Updating one local variable of a request leaves the others alone.
LEMMA FieldUpdates ==
  ASSUME req \in [Requests -> Request], NEW r \in Requests, NEW v,
         \/ req' = [req EXCEPT ![r] = [@ EXCEPT !.user = v]]
         \/ req' = [req EXCEPT ![r] = [@ EXCEPT !.existing = v]]
         \/ req' = [req EXCEPT ![r] = [@ EXCEPT !.todo = v]]
         \/ req' = [req EXCEPT ![r] = [@ EXCEPT !.pair = v]]
  PROVE  /\ req'[r].goneAtStart = req[r].goneAtStart /\ req'[r].jti = req[r].jti
         /\ req'[r].outAtStart = req[r].outAtStart
         /\ \A x \in Requests : x # r => req'[x] = req[x]
  BY DEF Request

\* The steps that touch neither keys nor tokens.
QuietStep(r) ==
  \/ \E op \in UserOps : BeginUserOp(r, op)
  \/ BeginRegister(r) \/ Serve(r) \/ FindUser(r) \/ FindRoles(r) \/ InsertUser(r)
  \/ UpdateRow(r) \/ DeleteRow(r) \/ SyncRead(r) \/ SyncRoles(r)
  \/ ScanStart(r) \/ ScanEnd(r)

\* What a request remembers of the token it presented is forgotten when the
\* request ends, and carried along otherwise.
Carried(r) ==
  \/ req'[r].goneAtStart = {} /\ req'[r].outAtStart = {}
  \/ /\ pc[r] \notin CheckSteps
     /\ req'[r].goneAtStart = req[r].goneAtStart
     /\ req'[r].outAtStart = req[r].outAtStart
     /\ req'[r].jti = req[r].jti

\* A quiet step moves one request among the quiet steps.
LEMMA QuietFrame ==
  ASSUME TypeOK, NEW r \in Requests, QuietStep(r)
  PROVE  /\ UNCHANGED <<sessions, blacklist, expired, minted, held, erased, loggedOut>>
         /\ \A x \in Requests : x # r => Kept(x)
         /\ pc'[r] \in Steps \ (CheckSteps \cup LogoutSteps \cup StoreSteps)
         /\ Carried(r)
<1> USE DEF redisVars, tokenVars
<1>1. UNCHANGED <<sessions, blacklist, expired, minted, held, erased, loggedOut>>
  BY DEF QuietStep, BeginUserOp, BeginRegister, Serve, FindUser, FindRoles, InsertUser,
     UpdateRow, DeleteRow, SyncRead, SyncRoles, ScanStart, ScanEnd
<1>2. \A x \in Requests : x # r => Kept(x)
  <2> USE DEF Kept, TypeOK
  <2>1. ASSUME NEW op \in UserOps, BeginUserOp(r, op)
        PROVE  \A x \in Requests : x # r => Kept(x)
    BY <2>1, GotoTypes DEF BeginUserOp
  <2>2. BeginRegister(r) => \A x \in Requests : x # r => Kept(x)
    BY GotoTypes DEF BeginRegister
  <2>3. /\ FindUser(r) => \A x \in Requests : x # r => Kept(x)
        /\ FindRoles(r) => \A x \in Requests : x # r => Kept(x)
    <3>1. FindUser(r) => \A x \in Requests : x # r => Kept(x)
      BY GotoTypes, ReturnTypes, FieldUpdates DEF FindUser
    <3>2. FindRoles(r) => \A x \in Requests : x # r => Kept(x)
      BY GotoTypes, ReturnTypes, FieldUpdates DEF FindRoles
    <3>3. QED
      BY <3>1, <3>2
  <2>4. InsertUser(r) \/ UpdateRow(r) => \A x \in Requests : x # r => Kept(x)
    BY GotoTypes, ReturnTypes DEF InsertUser, UpdateRow
  <2>5. Serve(r) \/ DeleteRow(r) \/ ScanEnd(r) => \A x \in Requests : x # r => Kept(x)
    BY ReturnTypes DEF Serve, DeleteRow, ScanEnd
  <2>6. SyncRead(r) \/ ScanStart(r) => \A x \in Requests : x # r => Kept(x)
    BY GotoTypes, ReturnTypes, FieldUpdates DEF SyncRead, ScanStart
  <2>7. SyncRoles(r) => \A x \in Requests : x # r => Kept(x)
    BY SyncNext
  <2>8. QED
    BY <2>1, <2>2, <2>3, <2>4, <2>5, <2>6, <2>7 DEF QuietStep
<1>3. pc'[r] \in Steps \ (CheckSteps \cup LogoutSteps \cup StoreSteps)
  <2> USE DEF TypeOK, Steps, CheckSteps, LogoutSteps, StoreSteps
  <2>1. ASSUME NEW op \in UserOps, BeginUserOp(r, op)
        PROVE  pc'[r] \in Steps \ (CheckSteps \cup LogoutSteps \cup StoreSteps)
    BY <2>1, GotoTypes DEF BeginUserOp
  <2>2. /\ BeginRegister(r) => pc'[r] = "insertUser"
        /\ ScanStart(r) => pc'[r] = "scanning"
        /\ InsertUser(r) \/ UpdateRow(r) => pc'[r] \in {"idle", "syncRead"}
        /\ SyncRead(r) => pc'[r] \in {"idle", "syncRoles"}
    <3>1. BeginRegister(r) => pc'[r] = "insertUser"
      BY GotoTypes DEF BeginRegister
    <3>2. ScanStart(r) => pc'[r] = "scanning"
      BY GotoTypes DEF ScanStart
    <3>3. InsertUser(r) => pc'[r] \in {"idle", "syncRead"}
      BY GotoTypes, ReturnTypes DEF InsertUser
    <3>4. UpdateRow(r) => pc'[r] \in {"idle", "syncRead"}
      BY GotoTypes, ReturnTypes DEF UpdateRow
    <3>5. SyncRead(r) => pc'[r] \in {"idle", "syncRoles"}
      BY GotoTypes, ReturnTypes DEF SyncRead
    <3>6. QED
      BY <3>1, <3>2, <3>3, <3>4, <3>5
  <2>3. Serve(r) \/ DeleteRow(r) \/ ScanEnd(r)
        => pc'[r] \in Steps \ (CheckSteps \cup LogoutSteps \cup StoreSteps)
    BY ReturnTypes DEF Serve, DeleteRow, ScanEnd
  <2>4. /\ FindUser(r) => pc'[r] \in {"idle", "findRoles"}
        /\ FindRoles(r) => pc'[r] \in {"idle", "mint", "deleteRow", "updateRow"}
    <3>1. FindUser(r) => pc'[r] \in {"idle", "findRoles"}
      BY GotoTypes, ReturnTypes DEF FindUser
    <3>2. ASSUME FindRoles(r)
          PROVE  pc'[r] \in {"idle", "mint", "deleteRow", "updateRow"}
      <4>1. AfterFind(req[r].op) \in {"mint", "deleteRow", "updateRow"}
        BY NextSteps
      <4>2. Goto(r, AfterFind(req[r].op)) \/ Return(r)
        BY <3>2 DEF FindRoles
      <4>3. CASE Return(r)
        BY <4>3, ReturnTypes
      <4>4. CASE Goto(r, AfterFind(req[r].op))
        BY <4>1, <4>4, GotoTypes
      <4>5. QED
        BY <4>2, <4>3, <4>4
    <3>3. QED
      BY <3>1, <3>2
  <2>5. SyncRoles(r) => pc'[r] \in Steps \ (CheckSteps \cup LogoutSteps \cup StoreSteps)
    BY SyncNext
  <2>6. QED
    BY <2>1, <2>2, <2>3, <2>4, <2>5 DEF QuietStep
<1>4. Carried(r)
  <2> USE NoRequestIsFresh DEF TypeOK, CheckSteps, Carried
  <2>1. ASSUME NEW op \in UserOps, BeginUserOp(r, op)
        PROVE  Carried(r)
    BY <2>1, NoRequestType DEF BeginUserOp, Request
  <2>2. BeginRegister(r) => Carried(r)
    BY NoRequestType DEF BeginRegister, Request
  <2>3. ASSUME FindUser(r) \/ FindRoles(r)
        PROVE  Carried(r)
    <3>1. CASE Return(r)
      BY <3>1, ReturnTypes
    <3>2. CASE ~ Return(r)
      <4>1. PICK u : req' = [req EXCEPT ![r] = [@ EXCEPT !.user = u]]
        BY <2>3, <3>2 DEF FindUser, FindRoles
      <4>2. QED
        BY <2>3, <4>1, FieldUpdates DEF FindUser, FindRoles
    <3>3. QED
      BY <3>1, <3>2
  <2>4. InsertUser(r) \/ UpdateRow(r) => Carried(r)
    BY ReturnTypes DEF InsertUser, UpdateRow
  <2>5. Serve(r) \/ DeleteRow(r) \/ ScanEnd(r) => Carried(r)
    BY ReturnTypes DEF Serve, DeleteRow, ScanEnd
  <2>6. SyncRead(r) \/ ScanStart(r) => Carried(r)
    BY ReturnTypes, FieldUpdates DEF SyncRead, ScanStart
  <2>7. SyncRoles(r) => Carried(r)
    BY ReturnTypes DEF SyncRoles
  <2>8. QED
    BY <2>1, <2>2, <2>3, <2>4, <2>5, <2>6, <2>7 DEF QuietStep
<1>5. QED
  BY <1>1, <1>2, <1>3, <1>4

\* A request that moves among the quiet steps relies on nothing.
LEMMA QuietSteps ==
  ASSUME IInv, TypeOK', NEW r \in Requests, QuietStep(r)
  PROVE  IInv'
<1>1. /\ UNCHANGED <<sessions, blacklist, expired, minted, held, erased>>
      /\ \A x \in Requests : x # r => Kept(x)
      /\ pc'[r] \in Steps \ (CheckSteps \cup LogoutSteps \cup StoreSteps)
      /\ Carried(r)
  BY QuietFrame DEF IInv
<1>2. req'[r].goneAtStart = {}
  BY <1>1, PastChecks DEF Carried
<1>3. Moved(r)
  BY <1>1, <1>2 DEF Moved
<1>4. QED
  BY <1>1, <1>3, RevocationStep DEF IInv, StoreInv, NoResurrection

\* A client presents a token it holds, and the checks reject an erased one.
LEMMA CheckingSteps ==
  ASSUME IInv, TypeOK', NEW r \in Requests,
         \/ \E op \in TokenOps, j \in JTI : Begin(r, op, j)
         \/ CheckBlacklist(r)
         \/ CheckSession(r)
  PROVE  IInv'
<1> USE DEF redisVars, tokenVars
<1>1. UNCHANGED <<sessions, blacklist, expired, minted, held, erased>>
  BY DEF Begin, CheckBlacklist, CheckSession
<1>2. \A x \in Requests : x # r => Kept(x)
  BY GotoTypes, ReturnTypes DEF Begin, CheckBlacklist, CheckSession, Kept, IInv, TypeOK
<1>3. Moved(r)
  <2>1. ASSUME NEW op \in TokenOps, NEW j \in JTI, Begin(r, op, j)
        PROVE  Moved(r)
    <3>1. pc'[r] = "checkBlacklist"
      BY <2>1, GotoTypes DEF Begin, IInv, TypeOK
    <3>2. /\ req'[r].jti = j
          /\ req'[r].goneAtStart = {j} \cap erased
      BY <2>1, NoRequestType DEF Begin, IInv, TypeOK, Request
    <3>3. QED
      BY <2>1, <3>1, <3>2 DEF Begin, Moved, Steps, StoreSteps, CheckSteps, LogoutSteps
  <2>2. ASSUME CheckBlacklist(r)
        PROVE  Moved(r)
    <3>1. \/ pc'[r] = "idle" /\ req'[r] = NoRequest
          \/ pc'[r] = "checkSession" /\ req'[r] = req[r]
      BY <2>2, GotoTypes, ReturnTypes DEF CheckBlacklist, IInv, TypeOK
    <3>2. QED
      BY <2>2, <3>1, NoRequestIsFresh
      DEF CheckBlacklist, IInv, RequestInv, Moved, Steps, StoreSteps, CheckSteps,
          LogoutSteps
  <2>3. ASSUME CheckSession(r)
        PROVE  Moved(r)
    <3>1. \/ pc'[r] = "idle" /\ req'[r] = NoRequest
          \/ /\ pc'[r] \in {"serve", "logoutBlacklist", "findUser"}
             /\ req'[r] = req[r]
             /\ req[r].jti \in sessions
      BY <2>3, GotoTypes, ReturnTypes, NextSteps
      DEF CheckSession, HasSessionKey, IInv, TypeOK
    <3>2. req[r].jti \in sessions => req[r].goneAtStart = {}
      BY DEF IInv, RequestInv, NoResurrection
    <3>3. QED
      BY <2>3, <3>1, <3>2, NoRequestIsFresh
      DEF CheckSession, IInv, RequestInv, Moved, Steps, StoreSteps, CheckSteps,
          LogoutSteps
  <2>4. QED
    BY <2>1, <2>2, <2>3
<1>4. QED
  BY <1>1, <1>2, <1>3, RevocationStep DEF IInv, StoreInv, NoResurrection

\* Logout and the bulk scan only revoke tokens and remove keys.
LEMMA RevokingSteps ==
  ASSUME IInv, TypeOK', NEW r \in Requests,
         \/ LogoutBlacklist(r) \/ LogoutLookup(r) \/ LogoutRefresh(r)
         \/ LogoutRefreshKey(r) \/ LogoutAccessKey(r) \/ ScanDelete(r)
  PROVE  IInv'
<1> USE DEF redisVars, tokenVars
<1>1. CASE ScanDelete(r)
  BY <1>1, RevocationStep DEF ScanDelete, Kept, IInv, StoreInv, NoResurrection
<1>2. CASE ~ ScanDelete(r)
  <2>1. pc[r] \in LogoutSteps
    BY <1>2 DEF LogoutBlacklist, LogoutLookup, LogoutRefresh, LogoutRefreshKey,
       LogoutAccessKey, LogoutSteps
  <2>2. /\ req[r].jti \in JTI /\ req[r].jti.pair \in held
        /\ req[r].goneAtStart = {}
    BY <2>1, PastChecks DEF IInv, RequestInv, LogoutSteps, CheckSteps
  <2>3. /\ Refresh(req[r].jti.pair) \in JTI
        /\ Refresh(req[r].jti.pair).pair \in held
    BY <2>2, KeyTypes DEF JTI
  <2>4. \A x \in Requests : x # r => Kept(x)
    BY <1>2, GotoTypes, ReturnTypes
    DEF LogoutBlacklist, LogoutLookup, LogoutRefresh, LogoutRefreshKey,
        LogoutAccessKey, Kept, IInv, TypeOK
  <2>5. Moved(r)
    <3>1. \/ pc'[r] = "idle" /\ req'[r] = NoRequest
          \/ pc'[r] \in LogoutSteps /\ req'[r] = req[r]
      BY <1>2, GotoTypes, ReturnTypes
      DEF LogoutBlacklist, LogoutLookup, LogoutRefresh, LogoutRefreshKey,
          LogoutAccessKey, LogoutSteps, IInv, TypeOK
    <3>2. QED
      BY <2>2, <3>1, NoRequestIsFresh
      DEF Moved, Steps, StoreSteps, CheckSteps, LogoutSteps
  <2>6. /\ UNCHANGED <<minted, held, expired>>
        /\ sessions' \subseteq sessions
        /\ erased \subseteq erased' /\ erased' \cap sessions' = {}
        /\ \A j \in erased' \ erased : j.pair \in held
        /\ \A j \in blacklist' : j.pair \in held
    BY <1>2, <2>2, <2>3
    DEF LogoutBlacklist, LogoutLookup, LogoutRefresh, LogoutRefreshKey,
        LogoutAccessKey, DeleteKey, IInv, StoreInv, NoResurrection
  <2>7. QED
    BY <2>4, <2>5, <2>6, RevocationStep DEF IInv, StoreInv
<1>3. QED
  BY <1>1, <1>2

\* So does the passing of time.
LEMMA TimeSteps ==
  ASSUME IInv, TypeOK', Time
  PROVE  IInv'
<1>1. \A x \in Requests : Kept(x)
  BY DEF Time, Expire, DropSession, DropBlacklist, Kept
<1>2. /\ UNCHANGED <<minted, held>>
      /\ sessions' \subseteq sessions
      /\ erased \subseteq erased' /\ erased' \cap sessions' = {}
      /\ \A j \in erased' \ erased : j \in sessions
      /\ \A j \in blacklist' \cup expired' : j.pair \in held
  BY DEF Time, Expire, DropSession, DropBlacklist, redisVars, tokenVars, IInv,
     StoreInv, NoResurrection
<1>3. QED
  BY <1>1, <1>2, RevocationStep

\* A pair is minted fresh: nothing was ever written under its keys.
LEMMA MintStep ==
  ASSUME IInv, TypeOK', NEW r \in Requests, Mint(r)
  PROVE  IInv'
<1> USE DEF redisVars, tokenVars
<1>1. CASE Return(r)
  <2>1. UNCHANGED <<sessions, blacklist, expired, held, erased>> /\ minted \subseteq minted'
    BY DEF Mint
  <2>2. \A x \in Requests : x # r => Kept(x)
    BY <1>1, ReturnTypes DEF Kept, IInv, TypeOK
  <2>3. pc'[r] = "idle" /\ req'[r] = NoRequest
    BY <1>1, ReturnTypes DEF IInv, TypeOK
  <2>4. minted' = minted
    BY <1>1, <2>3, GotoTypes DEF Mint, IInv, TypeOK
  <2>5. Moved(r)
    BY <2>3, NoRequestIsFresh DEF Moved, Steps, StoreSteps, CheckSteps, LogoutSteps
  <2>6. QED
    BY <2>1, <2>2, <2>4, <2>5, RevocationStep DEF IInv, StoreInv, NoResurrection
<1>2. CASE ~ Return(r)
  <2>1. PICK p \in Pairs \ minted :
          /\ minted' = minted \cup {p}
          /\ req' = [req EXCEPT ![r] = [@ EXCEPT !.pair = p]]
    BY <1>2 DEF Mint
  <2>2. /\ UNCHANGED <<sessions, blacklist, expired, held, erased>>
        /\ Goto(r, "storeAccess")
    BY <1>2 DEF Mint
  <2>3. /\ pc'[r] = "storeAccess"
        /\ \A x \in Requests : x # r => Kept(x)
    BY <2>1, <2>2, GotoTypes, FieldUpdates DEF Kept, IInv, TypeOK
  <2>4. req'[r].pair = p /\ req'[r].goneAtStart = {}
    <3>1. req'[r].pair = p
      BY <2>1 DEF IInv, TypeOK, Request
    <3>2. req'[r].goneAtStart = req[r].goneAtStart
      BY <2>1, FieldUpdates DEF IInv, TypeOK
    <3>3. QED
      BY <3>1, <3>2, PastChecks DEF Mint, CheckSteps
  <2>5. Access(p) \notin sessions \cup erased /\ Refresh(p) \notin sessions \cup erased
    BY <2>1, KeyTypes DEF IInv, StoreInv
  <2>6. StoreInv'
    BY <2>1, <2>2 DEF IInv, StoreInv
  <2>7. RequestInv'
    BY <2>1, <2>2, <2>3, <2>4, <2>5
    DEF IInv, StoreInv, RequestInv, Kept, CheckSteps, LogoutSteps, StoreSteps
  <2>8. UniqueWriter'
    BY <2>1, <2>3, <2>4 DEF IInv, RequestInv, UniqueWriter, Kept
  <2>9. NoResurrection' /\ InvalidatedNeverAccepted'
    BY <2>2, <2>3, <2>4 DEF IInv, NoResurrection, InvalidatedNeverAccepted, Kept
  <2>10. QED
    BY <2>6, <2>7, <2>8, <2>9 DEF IInv
<1>3. QED
  BY <1>1, <1>2

\* Writing the access key: only its own request knows the pair.
LEMMA StoreAccessStep ==
  ASSUME IInv, TypeOK', NEW r \in Requests, StoreAccess(r)
  PROVE  IInv'
<1> DEFINE p == req[r].pair
<1>1. /\ UNCHANGED <<req, blacklist, expired, minted, held, erased>>
      /\ sessions' \subseteq sessions \cup {Access(p)}
      /\ pc'[r] = "storeRefresh"
      /\ \A x \in Requests : x # r => pc'[x] = pc[x]
  BY GotoTypes DEF StoreAccess, tokenVars, IInv, TypeOK
<1>2. /\ p \in Pairs /\ p \in minted \ held
      /\ Access(p) \notin erased
      /\ req[r].goneAtStart = {}
  BY PastChecks DEF IInv, TypeOK, RequestInv, StoreAccess, StoreSteps, CheckSteps
<1>3. \A q \in Pairs : Refresh(q) # Access(p) /\ (q # p => Access(q) # Access(p))
  BY <1>2, KeyTypes
<1>4. \A x \in Requests : x # r /\ pc[x] \in StoreSteps =>
        req[x].pair \in Pairs /\ req[x].pair # p
  BY DEF IInv, TypeOK, RequestInv, UniqueWriter, StoreAccess, StoreSteps
<1>5. StoreInv'
  BY <1>1, <1>2, KeyTypes DEF IInv, StoreInv
<1>6. RequestInv'
  BY <1>1, <1>2, <1>3, <1>4
  DEF IInv, RequestInv, StoreAccess, StoreSteps, CheckSteps, LogoutSteps
<1>7. UniqueWriter'
  BY <1>1, <1>4 DEF IInv, UniqueWriter
<1>8. NoResurrection' /\ InvalidatedNeverAccepted'
  BY <1>1, <1>2 DEF IInv, NoResurrection, InvalidatedNeverAccepted, CheckSteps
<1>9. QED
  BY <1>5, <1>6, <1>7, <1>8 DEF IInv

\* Writing the refresh key, and handing the pair to the client.
LEMMA StoreRefreshStep ==
  ASSUME IInv, TypeOK', NEW r \in Requests, StoreRefresh(r)
  PROVE  IInv'
<1> DEFINE p == req[r].pair
<1>1. /\ UNCHANGED <<blacklist, expired, minted, erased>>
      /\ held' = held \cup {p}
      /\ sessions' \subseteq sessions \cup {Refresh(p)}
      /\ pc'[r] = "idle" /\ req'[r] = NoRequest
      /\ \A x \in Requests : x # r => Kept(x)
  BY ReturnTypes DEF StoreRefresh, Kept, IInv, TypeOK
<1>2. /\ p \in Pairs /\ p \in minted \ held
      /\ Refresh(p) \notin erased
  BY DEF IInv, TypeOK, RequestInv, StoreRefresh, StoreSteps
<1>3. \A q \in Pairs : Access(q) # Refresh(p) /\ (q # p => Refresh(q) # Refresh(p))
  BY <1>2, KeyTypes
<1>4. \A x \in Requests : x # r /\ pc[x] \in StoreSteps =>
        req[x].pair \in Pairs /\ req[x].pair # p
  BY DEF IInv, TypeOK, RequestInv, UniqueWriter, StoreRefresh, StoreSteps
<1>5. StoreInv'
  BY <1>1, <1>2, KeyTypes DEF IInv, StoreInv
<1>6. RequestInv'
  BY <1>1, <1>2, <1>3, <1>4, NoRequestIsFresh
  DEF IInv, RequestInv, Kept, StoreSteps, CheckSteps, LogoutSteps
<1>7. UniqueWriter'
  BY <1>1 DEF IInv, UniqueWriter, Kept, StoreSteps
<1>8. NoResurrection' /\ InvalidatedNeverAccepted'
  BY <1>1, <1>2, NoRequestIsFresh
  DEF IInv, NoResurrection, InvalidatedNeverAccepted, Kept
<1>9. QED
  BY <1>5, <1>6, <1>7, <1>8 DEF IInv

\* The inductive invariant is preserved by every step.
THEOREM NextIInv == IInv /\ [Next]_vars => IInv'
<1> SUFFICES ASSUME IInv, [Next]_vars PROVE IInv'
  OBVIOUS
<1>1. TypeOK'
  BY TypeStep
<1>2. CASE UNCHANGED vars
  <2>1. /\ UNCHANGED <<sessions, blacklist, expired, minted, held, erased>>
        /\ \A x \in Requests : Kept(x)
    BY <1>2 DEF vars, Kept
  <2>2. QED
    BY <1>1, <2>1, RevocationStep DEF IInv, StoreInv, NoResurrection
<1>3. ASSUME NEW r \in Requests, Step(r)
      PROVE  IInv'
  <2>1. CASE QuietStep(r)
    BY <1>1, <2>1, QuietSteps
  <2>2. CASE \/ \E op \in TokenOps, j \in JTI : Begin(r, op, j)
             \/ CheckBlacklist(r)
             \/ CheckSession(r)
    BY <1>1, <2>2, CheckingSteps
  <2>3. CASE \/ LogoutBlacklist(r) \/ LogoutLookup(r) \/ LogoutRefresh(r)
             \/ LogoutRefreshKey(r) \/ LogoutAccessKey(r) \/ ScanDelete(r)
    BY <1>1, <2>3, RevokingSteps
  <2>4. CASE Mint(r)
    BY <1>1, <2>4, MintStep
  <2>5. CASE StoreAccess(r)
    BY <1>1, <2>5, StoreAccessStep
  <2>6. CASE StoreRefresh(r)
    BY <1>1, <2>6, StoreRefreshStep
  <2>7. QED
    BY <1>3, <2>1, <2>2, <2>3, <2>4, <2>5, <2>6 DEF Step, QuietStep
<1>4. CASE Time
  BY <1>1, <1>4, TimeSteps
<1>5. QED
  BY <1>2, <1>3, <1>4 DEF Next

\* The invariant holds in every reachable state.
THEOREM InvariantIInv == Spec => []IInv
<1>1. QED
  BY InitIInv, NextIInv, PTL DEF Spec

\* The state of the session store is well typed: no request writes a key that
\* is not the key of a minted pair, however the calls fail and interleave.
THEOREM TypeCorrect == Spec => []TypeOK
<1>1. IInv => TypeOK
  BY DEF IInv
<1>2. QED
  BY <1>1, InvariantIInv, PTL

\* A session key that Logout, a bulk invalidation or its TTL removed is never
\* written again by a request in flight.
THEOREM Resurrection == Spec => []NoResurrection
<1>1. IInv => NoResurrection
  BY DEF IInv
<1>2. QED
  BY <1>1, InvariantIInv, PTL

\* A token whose session was gone before the request arrived is rejected by
\* ValidateToken and RefreshToken, whatever cache calls fail.
THEOREM FailsClosed == Spec => []InvalidatedNeverAccepted
<1>1. IInv => InvalidatedNeverAccepted
  BY DEF IInv
<1>2. QED
  BY <1>1, InvariantIInv, PTL

-----------------------------------------------------------------------------
(* The session store implements TokenLifecycle                              *)

Written == sessions \cup erased

\* A step that changes one token, forwards, is a step of the lifecycle.
LEMMA OneToken ==
  ASSUME NEW j \in JTI,
         \A k \in JTI \ {j} : life'[k] = life[k],
         \/ life'[j] = life[j]
         \/ life'[j] = "dead"
         \/ life[j] = "unissued" /\ life'[j] = "live"
  PROVE  [Lifecycle!Next]_life
<1>1. life = [k \in JTI |-> life[k]] /\ life' = [k \in JTI |-> life'[k]]
  BY DEF life
<1>2. CASE life'[j] = life[j]
  BY <1>1, <1>2
<1>3. CASE life[j] = "unissued" /\ life'[j] = "live"
  BY <1>1, <1>3 DEF Lifecycle!Next, Lifecycle!Issue
<1>4. CASE life[j] # "dead" /\ life'[j] = "dead"
  BY <1>1, <1>4 DEF Lifecycle!Next, Lifecycle!Retire
<1>5. QED
  BY <1>2, <1>3, <1>4

\* A step that makes no token acceptable and forgets no key, and that is about
\* one token only, retires at most that token.
LEMMA RetireOne ==
  ASSUME NEW j \in JTI,
         Live' \in {Live, Live \ {j}},
         Written' \in {Written, Written \cup {j}}
  PROVE  [Lifecycle!Next]_life
<1>1. \A k \in JTI \ {j} : life'[k] = life[k]
  BY DEF life, Written
<1>2. Live \subseteq Written
  BY DEF Live, Written
<1>3. life'[j] = life[j] \/ life'[j] = "dead"
  BY <1>2 DEF life, Written
<1>4. QED
  BY <1>1, <1>3, OneToken

\* Writing a key that never was, of a token nobody has revoked, issues it.
LEMMA IssueOne ==
  ASSUME NEW j \in JTI, j \notin Written \cup blacklist \cup expired,
         UNCHANGED <<erased, blacklist, expired>>,
         sessions' \in {sessions, sessions \cup {j}}
  PROVE  [Lifecycle!Next]_life
<1>1. \A k \in JTI \ {j} : life'[k] = life[k]
  BY DEF life, Live, Written
<1>2. life[j] = "unissued" /\ life'[j] \in {"unissued", "live"}
  BY DEF life, Live, Written
<1>3. QED
  BY <1>1, <1>2, OneToken

\* Every step of the session store is a step of the lifecycle, or invisible.
LEMMA LifecycleStep ==
  ASSUME IInv, [Next]_vars
  PROVE  [Lifecycle!Next]_life
<1> USE DEF redisVars, tokenVars
<1>1. ASSUME UNCHANGED <<sessions, blacklist, expired, erased>>
      PROVE  [Lifecycle!Next]_life
  BY <1>1 DEF life, Live
<1>2. ASSUME NEW r \in Requests, Step(r)
      PROVE  [Lifecycle!Next]_life
  <2>1. CASE \/ QuietStep(r) \/ CheckBlacklist(r) \/ CheckSession(r) \/ Mint(r)
             \/ LogoutLookup(r) \/ \E op \in TokenOps, j \in JTI : Begin(r, op, j)
    BY <1>1, <2>1
    DEF QuietStep, BeginUserOp, BeginRegister, Serve, FindUser, FindRoles, InsertUser,
        UpdateRow, DeleteRow, SyncRead, SyncRoles, ScanStart, ScanEnd,
        CheckBlacklist, CheckSession, Mint, LogoutLookup, Begin
  <2>2. CASE StoreAccess(r)
    <3>1. /\ Access(req[r].pair) \in JTI
          /\ Access(req[r].pair) \notin Written \cup blacklist \cup expired
      BY <2>2, KeyTypes
      DEF StoreAccess, StoreSteps, IInv, TypeOK, RequestInv, StoreInv, Written
    <3>2. QED
      BY <2>2, <3>1, IssueOne DEF StoreAccess
  <2>3. CASE StoreRefresh(r)
    <3>1. /\ Refresh(req[r].pair) \in JTI
          /\ Refresh(req[r].pair) \notin Written \cup blacklist \cup expired
      BY <2>3, KeyTypes
      DEF StoreRefresh, StoreSteps, IInv, TypeOK, RequestInv, StoreInv, Written
    <3>2. QED
      BY <2>3, <3>1, IssueOne DEF StoreRefresh
  <2>4. CASE ScanDelete(r)
    BY <2>4, RetireOne DEF ScanDelete, Live, Written, IInv, TypeOK
  <2>5. CASE \/ LogoutBlacklist(r) \/ LogoutRefresh(r) \/ LogoutRefreshKey(r)
             \/ LogoutAccessKey(r)
    <3>1. req[r].jti \in JTI /\ Refresh(req[r].jti.pair) \in JTI
      BY <2>5, KeyTypes
      DEF LogoutBlacklist, LogoutRefresh, LogoutRefreshKey, LogoutAccessKey,
          LogoutSteps, IInv, TypeOK, RequestInv
    <3>2. CASE LogoutBlacklist(r)
      <4>1. /\ blacklist' = blacklist \/ blacklist' = blacklist \cup {req[r].jti}
            /\ UNCHANGED <<sessions, erased, expired>>
        BY <3>2 DEF LogoutBlacklist
      <4>2. QED
        BY <3>1, <4>1, RetireOne DEF Live, Written
    <3>3. CASE LogoutRefresh(r)
      <4>1. /\ \/ blacklist' = blacklist
               \/ blacklist' = blacklist \cup {Refresh(req[r].jti.pair)}
            /\ UNCHANGED <<sessions, erased, expired>>
        BY <3>3 DEF LogoutRefresh
      <4>2. QED
        BY <3>1, <4>1, RetireOne DEF Live, Written
    <3>4. CASE LogoutRefreshKey(r)
      <4>1. DeleteKey(Refresh(req[r].jti.pair)) /\ UNCHANGED <<blacklist, expired>>
        BY <3>4 DEF LogoutRefreshKey
      <4>2. QED
        BY <3>1, <4>1, RetireOne DEF DeleteKey, Live, Written
    <3>5. CASE LogoutAccessKey(r)
      <4>1. DeleteKey(req[r].jti) /\ UNCHANGED <<blacklist, expired>>
        BY <3>5 DEF LogoutAccessKey
      <4>2. QED
        BY <3>1, <4>1, RetireOne DEF DeleteKey, Live, Written
    <3>6. QED
      BY <2>5, <3>2, <3>3, <3>4, <3>5
  <2>6. QED
    BY <1>2, <2>1, <2>2, <2>3, <2>4, <2>5 DEF Step, QuietStep
<1>3. ASSUME NEW j \in JTI, Expire(j) \/ DropSession(j) \/ DropBlacklist(j)
      PROVE  [Lifecycle!Next]_life
  <2>1. CASE Expire(j)
    BY <2>1, RetireOne DEF Expire, Live, Written
  <2>2. CASE DropSession(j)
    BY <2>2, RetireOne DEF DropSession, Live, Written
  <2>3. CASE DropBlacklist(j)
    BY <2>3, RetireOne DEF DropBlacklist, Live, Written
  <2>4. QED
    BY <1>3, <2>1, <2>2, <2>3
<1>4. CASE UNCHANGED vars
  BY <1>1, <1>4 DEF vars
<1>5. QED
  BY <1>2, <1>3, <1>4 DEF Next, Time

\* The session store implements TokenLifecycle: whatever requests interleave
\* and whatever calls fail, a token that the session key, the revocation list
\* or its exp claim has shut out is never let through again.
THEOREM ImplementsLifecycle == Spec => TokensNeverRevive
<1>1. Init => Lifecycle!Init
  BY DEF Init, Lifecycle!Init, life, Live
<1>2. IInv /\ [Next]_vars => [Lifecycle!Next]_life
  BY LifecycleStep
<1>3. QED
  BY <1>1, <1>2, InvariantIInv, PTL DEF Spec, TokensNeverRevive, Lifecycle!Spec

-----------------------------------------------------------------------------
(* Logout revokes the access token and deletes its session, and ValidateToken  *)
(* looks at both: one failed call leaves one of the two in the way.            *)

\* Tokens are only ever revoked, sessions erased and calls failed: the
\* evidence a logout leaves does not go away.
LEMMA EvidenceStays ==
  ASSUME TypeOK, [Next]_vars
  PROVE  /\ blacklist \cup expired \subseteq (blacklist \cup expired)'
         /\ expired \subseteq expired' /\ erased \subseteq erased'
         /\ loggedOut \subseteq loggedOut'
         /\ faults \in Nat /\ faults' \in Nat /\ faults <= faults'
<1> USE DEF redisVars, tokenVars, Call, DeleteKey
<1>1. faults \in Nat /\ faults + 1 \in Nat /\ faults <= faults + 1
  BY FaultAssumption DEF TypeOK
<1>2. CASE UNCHANGED vars
  BY <1>1, <1>2 DEF vars
<1>3. CASE Time
  BY <1>1, <1>3 DEF Time, Expire, DropSession, DropBlacklist
<1>4. ASSUME NEW r \in Requests, Step(r)
      PROVE  /\ blacklist \cup expired \subseteq (blacklist \cup expired)'
             /\ expired \subseteq expired' /\ erased \subseteq erased'
             /\ loggedOut \subseteq loggedOut'
             /\ faults' \in {faults, faults + 1}
  <2>1. CASE \/ \E op \in TokenOps, j \in JTI : Begin(r, op, j)
             \/ CheckBlacklist(r) \/ CheckSession(r)
    BY <2>1 DEF Begin, CheckBlacklist, CheckSession
  <2>2. CASE \/ \E op \in UserOps : BeginUserOp(r, op)
             \/ BeginRegister(r) \/ Serve(r) \/ FindUser(r) \/ FindRoles(r)
             \/ InsertUser(r) \/ UpdateRow(r) \/ DeleteRow(r)
    BY <2>2 DEF BeginUserOp, BeginRegister, Serve, FindUser, FindRoles, InsertUser,
       UpdateRow, DeleteRow
  <2>3. CASE SyncRead(r) \/ SyncRoles(r) \/ ScanStart(r) \/ ScanEnd(r) \/ ScanDelete(r)
    BY <2>3 DEF SyncRead, SyncRoles, ScanStart, ScanEnd, ScanDelete
  <2>4. CASE Mint(r) \/ StoreAccess(r) \/ StoreRefresh(r)
    BY <2>4 DEF Mint, StoreAccess, StoreRefresh
  <2>5. CASE \/ LogoutBlacklist(r) \/ LogoutLookup(r) \/ LogoutRefresh(r)
             \/ LogoutRefreshKey(r) \/ LogoutAccessKey(r)
    BY <2>5 DEF LogoutBlacklist, LogoutLookup, LogoutRefresh, LogoutRefreshKey,
       LogoutAccessKey
  <2>6. QED
    BY <1>4, <2>1, <2>2, <2>3, <2>4, <2>5 DEF Step
<1>5. QED
  BY <1>1, <1>2, <1>3, <1>4 DEF Next

-----------------------------------------------------------------------------
(* What the invariant asks of the requests a step does not move, and of the   *)
(* one it does                                                               *)

\* A request that does not move keeps what it relies on.
LEMMA KeptRequest ==
  ASSUME TypeOK, LogoutInv, [Next]_vars, NEW x \in Requests, Kept(x)
  PROVE  LogoutRequest(x)'
<1>1. LogoutRequest(x)
  BY DEF LogoutInv
<1>2. faults' = 0 => faults = 0
  BY EvidenceStays
<1>3. faults' <= 1 => faults <= 1
  BY EvidenceStays
<1>4. QED
  BY <1>1, <1>2, <1>3, EvidenceStays DEF Kept, LogoutRequest

\* A request that leaves the checks and the logout with the token it presented,
\* or with none, relies on nothing new.
LEMMA QuietRequest ==
  ASSUME TypeOK, LogoutInv, [Next]_vars, NEW r \in Requests, Carried(r),
         pc'[r] \notin CheckSteps \cup LogoutSteps
  PROVE  LogoutRequest(r)'
<1>1. LogoutRequest(r)
  BY DEF LogoutInv
<1>2. faults' <= 1 => faults <= 1
  BY EvidenceStays
<1>3. CASE req'[r].outAtStart = {}
  BY <1>3 DEF LogoutRequest
<1>4. CASE /\ pc[r] \notin CheckSteps
           /\ req'[r].outAtStart = req[r].outAtStart
           /\ req'[r].jti = req[r].jti
  BY <1>1, <1>2, <1>4, EvidenceStays DEF LogoutRequest, CheckSteps
<1>5. QED
  BY <1>3, <1>4 DEF Carried

\* A request that returns relies on nothing.
LEMMA ReturnedRequest ==
  ASSUME NEW r \in Requests, pc'[r] = "idle", req'[r] = NoRequest
  PROVE  LogoutRequest(r)'
  BY NoRequestIsFresh DEF LogoutRequest, LogoutSteps

-----------------------------------------------------------------------------
(* The two halves of the invariant                                           *)

\* Logout returns after both of its defences: a failed call takes away one.
LEMMA StoreHalf ==
  ASSUME IInv, LogoutInv, [Next]_vars
  PROVE  LogoutStore'
<1>1. LogoutStore /\ TypeOK
  BY DEF LogoutInv, IInv
<1>2. CASE loggedOut' = loggedOut
  BY <1>1, <1>2, EvidenceStays DEF LogoutStore
<1>3. ASSUME NEW r \in Requests, LogoutAccessKey(r)
      PROVE  LogoutStore'
  <2>1. loggedOut' = loggedOut \cup {req[r].jti}
    BY <1>3 DEF LogoutAccessKey
  <2>2. PICK ok \in BOOLEAN : /\ Call(ok)
                              /\ erased' = IF ok THEN erased \cup {req[r].jti} ELSE erased
    BY <1>3 DEF LogoutAccessKey, DeleteKey
  <2>3. faults = 0 => req[r].jti \in blacklist \cup expired
    BY <1>3 DEF LogoutInv, LogoutRequest, LogoutAccessKey, LogoutSteps
  <2>4. CASE ok
    <3>1. faults' = faults /\ req[r].jti \in erased'
      BY <2>2, <2>4 DEF Call
    <3>2. QED
      BY <1>1, <2>1, <2>3, <3>1, EvidenceStays DEF LogoutStore
  <2>5. CASE ~ ok
    <3>1. faults' = faults + 1 /\ erased' = erased
      BY <2>2, <2>5 DEF Call
    <3>2. faults' # 0 /\ (faults' <= 1 => faults = 0)
      BY <1>1, <3>1, EvidenceStays
    <3>3. QED
      BY <1>1, <2>1, <2>3, <3>2, EvidenceStays DEF LogoutStore
  <2>6. QED
    BY <2>4, <2>5
<1>4. CASE UNCHANGED vars \/ Time
  BY <1>2, <1>4 DEF vars, Time, Expire, DropSession, DropBlacklist
<1>5. ASSUME NEW r \in Requests, Step(r), ~ LogoutAccessKey(r)
      PROVE  loggedOut' = loggedOut
  <2>1. CASE \/ \E op \in TokenOps, j \in JTI : Begin(r, op, j)
             \/ CheckBlacklist(r) \/ CheckSession(r)
    BY <2>1 DEF Begin, CheckBlacklist, CheckSession
  <2>2. CASE QuietStep(r)
    BY <2>2
    DEF QuietStep, BeginUserOp, BeginRegister, Serve, FindUser, FindRoles, InsertUser,
        UpdateRow, DeleteRow, SyncRead, SyncRoles, ScanStart, ScanEnd
  <2>3. CASE Mint(r) \/ StoreAccess(r) \/ StoreRefresh(r) \/ ScanDelete(r)
    BY <2>3 DEF Mint, StoreAccess, StoreRefresh, ScanDelete
  <2>4. CASE \/ LogoutBlacklist(r) \/ LogoutLookup(r) \/ LogoutRefresh(r)
             \/ LogoutRefreshKey(r)
    BY <2>4 DEF LogoutBlacklist, LogoutLookup, LogoutRefresh, LogoutRefreshKey
  <2>5. QED
    BY <1>5, <2>1, <2>2, <2>3, <2>4 DEF Step, QuietStep
<1>6. QED
  BY <1>2, <1>3, <1>4, <1>5 DEF Next

\* The checks: a failed Exists on the revocation list uses up the one failure,
\* and the session of a logged-out token is then erased.
LEMMA CheckedRequest ==
  ASSUME IInv, LogoutInv, [Next]_vars, NEW r \in Requests,
         \/ \E op \in TokenOps, j \in JTI : Begin(r, op, j)
         \/ CheckBlacklist(r)
         \/ CheckSession(r)
  PROVE  LogoutRequest(r)'
<1>1. LogoutRequest(r) /\ LogoutStore /\ TypeOK
  BY DEF LogoutInv, IInv
<1>2. ASSUME NEW op \in TokenOps, NEW j \in JTI, Begin(r, op, j)
      PROVE  LogoutRequest(r)'
  <2>1. pc'[r] = "checkBlacklist" /\ loggedOut' = loggedOut
    BY <1>1, <1>2, GotoTypes DEF Begin, TypeOK
  <2>2. req'[r].jti = j /\ req'[r].outAtStart = {j} \cap loggedOut
    BY <1>1, <1>2, NoRequestType DEF Begin, TypeOK, Request
  <2>3. QED
    BY <2>1, <2>2 DEF LogoutRequest, LogoutSteps
<1>3. CASE CheckBlacklist(r)
  <2>1. PICK ok \in BOOLEAN :
          /\ Call(ok)
          /\ IF ok /\ req[r].jti \in blacklist
             THEN Return(r)
             ELSE Goto(r, "checkSession") /\ UNCHANGED req
    BY <1>3 DEF CheckBlacklist
  <2>2. CASE ok /\ req[r].jti \in blacklist
    BY <1>1, <2>1, <2>2, ReturnTypes, ReturnedRequest DEF TypeOK
  <2>3. CASE ~ (ok /\ req[r].jti \in blacklist)
    <3>1. pc'[r] = "checkSession" /\ req'[r] = req[r]
      BY <1>1, <2>1, <2>3, GotoTypes DEF TypeOK
    <3>2. UNCHANGED <<blacklist, expired, erased, loggedOut>>
      BY <1>3 DEF CheckBlacklist, redisVars, tokenVars
    <3>3. /\ ~ ok => (faults' <= 1 => faults = 0)
          /\ ok => faults' = faults
      BY <1>1, <2>1, EvidenceStays DEF Call
    <3>4. req[r].jti \in loggedOut /\ faults' <= 1 => req[r].jti \in expired \cup erased
      BY <1>1, <2>3, <3>3 DEF LogoutStore
    <3>5. QED
      BY <1>1, <3>1, <3>2, <3>4 DEF LogoutRequest, LogoutSteps
  <2>4. QED
    BY <2>2, <2>3
<1>4. CASE CheckSession(r)
  <2>1. PICK ok \in BOOLEAN :
          /\ Call(ok)
          /\ IF ok /\ HasSessionKey(req[r].op, req[r].jti)
             THEN Goto(r, AfterCheck(req[r].op)) /\ UNCHANGED req
             ELSE Return(r)
    BY <1>4 DEF CheckSession
  <2>2. CASE ~ (ok /\ HasSessionKey(req[r].op, req[r].jti))
    BY <1>1, <2>1, <2>2, ReturnTypes, ReturnedRequest DEF TypeOK
  <2>3. CASE ok /\ HasSessionKey(req[r].op, req[r].jti)
    <3>1. /\ pc'[r] \in {"serve", "logoutBlacklist", "findUser"}
          /\ req'[r] = req[r]
      BY <1>1, <2>1, <2>3, GotoTypes, NextSteps DEF TypeOK
    <3>2. faults' = faults /\ UNCHANGED <<blacklist, expired, erased, loggedOut>>
      BY <1>4, <2>1, <2>3 DEF CheckSession, Call, redisVars, tokenVars
    <3>3. req[r].jti \notin erased
      BY <2>3 DEF HasSessionKey, IInv, NoResurrection
    <3>4. pc[r] = "checkSession"
      BY <1>4 DEF CheckSession
    <3>5. QED
      BY <1>1, <3>1, <3>2, <3>3, <3>4 DEF LogoutRequest, LogoutSteps
  <2>4. QED
    BY <2>2, <2>3
<1>5. QED
  BY <1>2, <1>3, <1>4

\* The logout: past its first call the token is revoked, or a call has failed.
LEMMA LogoutRequestStep ==
  ASSUME IInv, LogoutInv, [Next]_vars, NEW r \in Requests,
         \/ LogoutBlacklist(r) \/ LogoutLookup(r) \/ LogoutRefresh(r)
         \/ LogoutRefreshKey(r) \/ LogoutAccessKey(r)
  PROVE  LogoutRequest(r)'
<1>1. LogoutRequest(r) /\ TypeOK
  BY DEF LogoutInv, IInv
<1>2. /\ faults' = 0 => faults = 0
      /\ faults' <= 1 => faults <= 1
  BY <1>1, EvidenceStays
<1>3. CASE LogoutAccessKey(r)
  BY <1>1, <1>3, ReturnTypes, ReturnedRequest DEF LogoutAccessKey, TypeOK
<1>4. CASE ~ LogoutAccessKey(r)
  <2>1. /\ pc[r] \in LogoutSteps
        /\ pc'[r] \in LogoutSteps \ {"logoutBlacklist"}
        /\ req'[r] = req[r]
    BY <1>1, <1>4, GotoTypes
    DEF LogoutBlacklist, LogoutLookup, LogoutRefresh, LogoutRefreshKey, LogoutSteps,
        TypeOK
  <2>2. faults' = 0 => req[r].jti \in (blacklist \cup expired)'
    <3>1. CASE LogoutBlacklist(r)
      <4>1. PICK ok \in BOOLEAN :
              /\ Call(ok)
              /\ blacklist' = IF ok /\ req[r].jti \notin expired
                              THEN blacklist \cup {req[r].jti} ELSE blacklist
        BY <3>1 DEF LogoutBlacklist
      <4>2. faults' = 0 => ok
        BY <1>1, <4>1, EvidenceStays DEF Call
      <4>3. expired' = expired
        BY <3>1 DEF LogoutBlacklist, tokenVars
      <4>4. QED
        BY <4>1, <4>2, <4>3
    <3>2. CASE ~ LogoutBlacklist(r)
      <4>1. pc[r] \in LogoutSteps \ {"logoutBlacklist"}
        BY <1>4, <3>2
        DEF LogoutLookup, LogoutRefresh, LogoutRefreshKey, LogoutSteps
      <4>2. QED
        BY <1>1, <1>2, <4>1, EvidenceStays DEF LogoutRequest
    <3>3. QED
      BY <3>1, <3>2
  <2>3. QED
    BY <1>1, <1>2, <2>1, <2>2, EvidenceStays
    DEF LogoutRequest, LogoutSteps
<1>5. QED
  BY <1>3, <1>4

\* Minting a pair and writing its keys: the request carries its token along.
LEMMA MintedRequest ==
  ASSUME IInv, LogoutInv, [Next]_vars, NEW r \in Requests,
         Mint(r) \/ StoreAccess(r) \/ StoreRefresh(r)
  PROVE  LogoutRequest(r)'
<1>1. TypeOK
  BY DEF IInv
<1>2. CASE Return(r)
  BY <1>1, <1>2, ReturnTypes, ReturnedRequest DEF TypeOK
<1>3. CASE ~ Return(r)
  <2>1. pc[r] \notin CheckSteps
    BY DEF Mint, StoreAccess, StoreRefresh, CheckSteps
  <2>2. pc'[r] \notin CheckSteps \cup LogoutSteps
    BY <1>1, <1>3, GotoTypes
    DEF Mint, StoreAccess, StoreRefresh, TypeOK, CheckSteps, LogoutSteps
  <2>3. Carried(r)
    <3>1. CASE StoreAccess(r)
      BY <2>1, <3>1 DEF StoreAccess, Carried
    <3>2. CASE Mint(r)
      <4>1. PICK p \in Pairs : req' = [req EXCEPT ![r] = [@ EXCEPT !.pair = p]]
        BY <1>3, <3>2 DEF Mint
      <4>2. QED
        BY <1>1, <2>1, <4>1, FieldUpdates DEF Carried, TypeOK
    <3>3. QED
      BY <1>3, <3>1, <3>2 DEF StoreRefresh
  <2>4. QED
    BY <1>1, <2>2, <2>3, QuietRequest
<1>4. QED
  BY <1>2, <1>3

-----------------------------------------------------------------------------
\* Initially nothing was logged out.
LEMMA InitLogout == Init => LogoutInv
<1> SUFFICES ASSUME Init PROVE LogoutInv
  OBVIOUS
<1>1. \A r \in Requests : pc[r] = "idle" /\ req[r].outAtStart = {}
  BY NoRequestIsFresh DEF Init
<1>2. QED
  BY <1>1 DEF Init, LogoutInv, LogoutStore, LogoutRequest, LogoutSteps

\* Every step preserves it: one request moves at a time.
LEMMA NextLogout ==
  ASSUME IInv, LogoutInv, [Next]_vars
  PROVE  LogoutInv'
<1>1. LogoutStore'
  BY StoreHalf
<1>2. TypeOK
  BY DEF IInv
<1>3. CASE UNCHANGED vars \/ Time
  <2>1. \A x \in Requests : Kept(x)
    BY <1>3 DEF vars, Time, Expire, DropSession, DropBlacklist, Kept
  <2>2. QED
    BY <1>1, <1>2, <2>1, KeptRequest DEF LogoutInv
<1>4. ASSUME NEW r \in Requests, Step(r)
      PROVE  LogoutInv'
  <2>1. CASE QuietStep(r)
    BY <1>1, <1>2, <2>1, QuietFrame, QuietRequest, KeptRequest DEF LogoutInv
  <2>2. CASE ~ QuietStep(r)
    <3>1. \A x \in Requests : x # r => Kept(x)
      <4>1. CASE \/ \E op \in TokenOps, j \in JTI : Begin(r, op, j)
                 \/ CheckBlacklist(r) \/ CheckSession(r)
        BY <1>2, <4>1, GotoTypes, ReturnTypes
        DEF Begin, CheckBlacklist, CheckSession, Kept, TypeOK
      <4>2. CASE \/ LogoutBlacklist(r) \/ LogoutLookup(r) \/ LogoutRefresh(r)
                 \/ LogoutRefreshKey(r) \/ LogoutAccessKey(r) \/ ScanDelete(r)
        BY <1>2, <4>2, GotoTypes, ReturnTypes
        DEF LogoutBlacklist, LogoutLookup, LogoutRefresh, LogoutRefreshKey,
            LogoutAccessKey, ScanDelete, Kept, TypeOK
      <4>3. CASE StoreAccess(r) \/ StoreRefresh(r)
        BY <1>2, <4>3, GotoTypes, ReturnTypes DEF StoreAccess, StoreRefresh, Kept, TypeOK
      <4>4. CASE Mint(r)
        BY <1>2, <4>4, GotoTypes, ReturnTypes, FieldUpdates DEF Mint, Kept, TypeOK
      <4>5. QED
        BY <1>4, <2>2, <4>1, <4>2, <4>3, <4>4 DEF Step, QuietStep
    <3>2. LogoutRequest(r)'
      <4>1. CASE ScanDelete(r)
        <5>1. Kept(r)
          BY <4>1 DEF ScanDelete, Kept
        <5>2. QED
          BY <1>2, <5>1, KeptRequest
      <4>2. QED
        BY <1>4, <2>2, <4>1, CheckedRequest, LogoutRequestStep, MintedRequest
        DEF Step, QuietStep
    <3>3. QED
      BY <1>1, <1>2, <3>1, <3>2, KeptRequest DEF LogoutInv
  <2>3. QED
    BY <2>1, <2>2
<1>5. QED
  BY <1>3, <1>4 DEF Next

\* One failed call cannot keep a logged-out access token usable before it
\* expires: Logout revokes it and deletes its session, ValidateToken checks both.
THEOREM LogoutHolds == Spec => []LogoutSurvivesOneFault
<1>1. LogoutInv => LogoutSurvivesOneFault
  BY DEF LogoutInv, LogoutRequest, LogoutSurvivesOneFault, CheckSteps
<1>2. IInv /\ LogoutInv /\ [Next]_vars => LogoutInv'
  BY NextLogout
<1>3. QED
  BY <1>1, <1>2, InitLogout, InvariantIInv, PTL DEF Spec

-----------------------------------------------------------------------------
(* One request at a time leaves no token that works and is not current: the   *)
(* requests that change the account erase every session before they return.   *)

\* When no call has failed after a step, the call of this step has answered.
LEMMA Answered ==
  ASSUME TypeOK, [Next]_vars, faults' = 0
  PROVE  faults = 0 /\ \A ok \in BOOLEAN : Call(ok) => ok
BY EvidenceStays DEF Call

\* Nobody but the writing steps changes the account.
LEMMA AccountFrame ==
  ASSUME NEW r \in Requests, Step(r), ~InsertUser(r), ~UpdateRow(r), ~SyncRoles(r),
         ~DeleteRow(r)
  PROVE  account' = account
<1>1. ASSUME \/ \E op \in TokenOps, j \in JTI : Begin(r, op, j)
             \/ \E op \in UserOps : BeginUserOp(r, op)
      PROVE  account' = account
  <2>1. \A op \in TokenOps, j \in JTI : Begin(r, op, j) => account' = account
    BY DEF Begin
  <2>2. \A op \in UserOps : BeginUserOp(r, op) => account' = account
    BY DEF BeginUserOp
  <2>3. QED
    BY <1>1, <2>1, <2>2
<1>2. ASSUME \/ BeginRegister(r) \/ CheckBlacklist(r) \/ CheckSession(r) \/ Serve(r)
             \/ FindUser(r) \/ FindRoles(r) \/ SyncRead(r)
      PROVE  account' = account
  <2>1. BeginRegister(r) => account' = account
    BY DEF BeginRegister
  <2>2. CheckBlacklist(r) \/ CheckSession(r) \/ Serve(r) => account' = account
    BY DEF CheckBlacklist, CheckSession, Serve
  <2>3. FindUser(r) \/ FindRoles(r) \/ SyncRead(r) => account' = account
    BY DEF FindUser, FindRoles, SyncRead
  <2>4. QED
    BY <1>2, <2>1, <2>2, <2>3
<1>3. ASSUME \/ Mint(r) \/ StoreAccess(r) \/ StoreRefresh(r)
             \/ ScanStart(r) \/ ScanDelete(r) \/ ScanEnd(r)
      PROVE  account' = account
  BY <1>3 DEF Mint, StoreAccess, StoreRefresh, ScanStart, ScanDelete, ScanEnd
<1>4. ASSUME \/ LogoutBlacklist(r) \/ LogoutLookup(r) \/ LogoutRefresh(r)
             \/ LogoutRefreshKey(r) \/ LogoutAccessKey(r)
      PROVE  account' = account
  BY <1>4
  DEF LogoutBlacklist, LogoutLookup, LogoutRefresh, LogoutRefreshKey, LogoutAccessKey
<1>5. QED
  BY <1>1, <1>2, <1>3, <1>4 DEF Step

\* Nothing is stored, held or assigned before the account is inserted.
LEMMA AbsentStep ==
  ASSUME IInv, CurrentInv, [Next]_vars
  PROVE  AbsentInv'
<1> USE DEF redisVars, tokenVars
<1>1. TypeOK /\ AbsentInv
  BY DEF IInv, CurrentInv
<1>2. SUFFICES ASSUME account'.status = "absent"
               PROVE  /\ account'.roles = {} /\ sessions' = {} /\ held' = {}
                      /\ \A x \in Requests : pc'[x] \in {"idle", "findUser", "insertUser"}
  BY DEF AbsentInv
<1>3. CASE UNCHANGED vars
  BY <1>1, <1>2, <1>3 DEF vars, AbsentInv
<1>4. CASE Time
  BY <1>1, <1>2, <1>4 DEF Time, Expire, DropSession, DropBlacklist, AbsentInv
<1>5. ASSUME NEW r \in Requests, Step(r)
      PROVE  /\ account'.roles = {} /\ sessions' = {} /\ held' = {}
             /\ \A x \in Requests : pc'[x] \in {"idle", "findUser", "insertUser"}
  <2>1. CASE account.status = "absent"
    <3>1. /\ account.roles = {} /\ sessions = {} /\ held = {}
          /\ \A x \in Requests : pc[x] \in {"idle", "findUser", "insertUser"}
      BY <1>1, <2>1 DEF AbsentInv
    <3>2. \/ \E op \in UserOps : BeginUserOp(r, op)
          \/ BeginRegister(r) \/ FindUser(r) \/ InsertUser(r)
      BY <1>5, <3>1
      DEF Step, Begin, CheckBlacklist, CheckSession, Serve, FindRoles, UpdateRow,
          DeleteRow, SyncRead, SyncRoles, Mint, StoreAccess, StoreRefresh, ScanStart,
          ScanDelete, ScanEnd, LogoutBlacklist, LogoutLookup, LogoutRefresh,
          LogoutRefreshKey, LogoutAccessKey
    <3>3. CASE (\E op \in UserOps : BeginUserOp(r, op)) \/ BeginRegister(r)
      <4>1. /\ Goto(r, "findUser") \/ Goto(r, "insertUser")
            /\ UNCHANGED <<account, sessions, held>>
        <5>1. ASSUME NEW op \in UserOps, BeginUserOp(r, op)
              PROVE  Goto(r, "findUser") /\ UNCHANGED <<account, sessions, held>>
          BY <5>1 DEF BeginUserOp
        <5>2. ASSUME BeginRegister(r)
              PROVE  Goto(r, "insertUser") /\ UNCHANGED <<account, sessions, held>>
          BY <5>2 DEF BeginRegister
        <5>3. QED
          BY <3>3, <5>1, <5>2
      <4>2. QED
        BY <1>1, <3>1, <4>1 DEF Goto, TypeOK
    <3>4. CASE FindUser(r)
      BY <1>1, <2>1, <3>1, <3>4, ReturnTypes DEF FindUser, TypeOK
    <3>5. CASE InsertUser(r)
      <4>1. Return(r) /\ UNCHANGED <<account, sessions, held>>
        BY <1>1, <1>2, <3>5 DEF InsertUser, TypeOK, Account
      <4>2. QED
        BY <1>1, <3>1, <4>1, ReturnTypes DEF TypeOK
    <3>6. QED
      BY <3>2, <3>3, <3>4, <3>5
  <2>2. CASE account.status # "absent"
    <3>1. CASE InsertUser(r) \/ UpdateRow(r)
      BY <1>1, <1>2, <2>2, <3>1 DEF InsertUser, UpdateRow, TypeOK, Account
    <3>2. CASE SyncRoles(r)
      BY <1>1, <1>2, <2>2, <3>2 DEF SyncRoles, TypeOK, Account
    <3>3. CASE DeleteRow(r)
      BY <1>1, <1>2, <2>2, <3>3 DEF DeleteRow, TypeOK, Account
    <3>4. QED
      BY <1>2, <1>5, <2>2, <3>1, <3>2, <3>3, AccountFrame
  <2>3. QED
    BY <2>1, <2>2
<1>6. QED
  BY <1>3, <1>4, <1>5 DEF Next

\* Each step belongs to the operations it is written for.
LEMMA OpsStep ==
  ASSUME IInv, CurrentInv, [Next]_vars
  PROVE  \A x \in Requests : StepOps(x)'
<1> USE DEF redisVars, tokenVars
<1>1. TypeOK /\ \A x \in Requests : StepOps(x)
  BY DEF IInv, CurrentInv
<1>2. ASSUME NEW x \in Requests, pc'[x] = pc[x], req'[x] = req[x]
      PROVE  StepOps(x)'
  BY <1>1, <1>2 DEF StepOps
<1>3. ASSUME NEW x \in Requests, pc'[x] \notin CheckSteps \cup SyncSteps \cup
                {"findUser", "findRoles", "insertUser", "updateRow"}
      PROVE  StepOps(x)'
  BY <1>3 DEF StepOps
<1>4. CASE UNCHANGED vars \/ Time
  BY <1>2, <1>4 DEF vars, Time, Expire, DropSession, DropBlacklist
<1>5. ASSUME NEW r \in Requests, Step(r)
      PROVE  \A x \in Requests : StepOps(x)'
  <2>1. \A x \in Requests : x # r => pc'[x] = pc[x] /\ req'[x] = req[x]
    <3>1. CASE \/ \E op \in TokenOps, j \in JTI : Begin(r, op, j)
               \/ \E op \in UserOps : BeginUserOp(r, op)
               \/ BeginRegister(r) \/ CheckBlacklist(r) \/ CheckSession(r)
      <4>1. ASSUME NEW op \in TokenOps, NEW j \in JTI, Begin(r, op, j)
            PROVE  \A x \in Requests : x # r => pc'[x] = pc[x] /\ req'[x] = req[x]
        BY <1>1, <4>1 DEF Begin, Goto, TypeOK
      <4>2. ASSUME NEW op \in UserOps, BeginUserOp(r, op)
            PROVE  \A x \in Requests : x # r => pc'[x] = pc[x] /\ req'[x] = req[x]
        BY <1>1, <4>2 DEF BeginUserOp, Goto, TypeOK
      <4>3. CASE BeginRegister(r)
        BY <1>1, <4>3 DEF BeginRegister, Goto, TypeOK
      <4>4. CASE CheckBlacklist(r) \/ CheckSession(r)
        BY <1>1, <4>4, GotoTypes, ReturnTypes DEF CheckBlacklist, CheckSession, TypeOK
      <4>5. QED
        BY <3>1, <4>1, <4>2, <4>3, <4>4
    <3>2. CASE Serve(r) \/ FindUser(r) \/ FindRoles(r) \/ InsertUser(r) \/ UpdateRow(r)
      BY <1>1, <3>2, GotoTypes, ReturnTypes
      DEF Serve, FindUser, FindRoles, InsertUser, UpdateRow, TypeOK
    <3>3. CASE DeleteRow(r) \/ SyncRead(r) \/ SyncRoles(r) \/ ScanStart(r)
               \/ ScanDelete(r) \/ ScanEnd(r)
      BY <1>1, <3>3, GotoTypes, ReturnTypes
      DEF DeleteRow, SyncRead, SyncRoles, ScanStart, ScanDelete, ScanEnd, TypeOK
    <3>4. CASE Mint(r) \/ StoreAccess(r) \/ StoreRefresh(r)
      BY <1>1, <3>4, GotoTypes, ReturnTypes DEF Mint, StoreAccess, StoreRefresh, TypeOK
    <3>5. CASE \/ LogoutBlacklist(r) \/ LogoutLookup(r) \/ LogoutRefresh(r)
               \/ LogoutRefreshKey(r) \/ LogoutAccessKey(r)
      BY <1>1, <3>5, GotoTypes, ReturnTypes
      DEF LogoutBlacklist, LogoutLookup, LogoutRefresh, LogoutRefreshKey,
          LogoutAccessKey, TypeOK
    <3>6. QED
      BY <1>5, <3>1, <3>2, <3>3, <3>4, <3>5 DEF Step
  <2>2. StepOps(r)'
    <3>0. StepOps(r)
      BY <1>1
    <3>1. CASE pc'[r] = "idle"
      BY <1>3, <3>1 DEF CheckSteps, SyncSteps
    <3>2. ASSUME NEW op \in TokenOps, NEW j \in JTI, Begin(r, op, j)
          PROVE  StepOps(r)'
      <4>1. pc'[r] = "checkBlacklist" /\ req'[r].op = op
        BY <1>1, <3>2, GotoTypes DEF Begin, TypeOK, NoRequest
      <4>2. QED
        BY <4>1 DEF StepOps, SyncSteps
    <3>3. ASSUME NEW op \in UserOps, BeginUserOp(r, op)
          PROVE  StepOps(r)'
      <4>1. pc'[r] = "findUser" /\ req'[r].op = op
        BY <1>1, <3>3, GotoTypes DEF BeginUserOp, TypeOK, NoRequest
      <4>2. QED
        BY <4>1 DEF StepOps, SyncSteps, CheckSteps
    <3>4. CASE BeginRegister(r)
      <4>1. pc'[r] = "insertUser" /\ req'[r].op = "register"
        BY <1>1, <3>4, GotoTypes DEF BeginRegister, TypeOK, NoRequest
      <4>2. QED
        BY <4>1 DEF StepOps, SyncSteps, CheckSteps
    <3>5. CASE CheckBlacklist(r) /\ ~ Return(r)
      <4>1. pc[r] = "checkBlacklist" /\ pc'[r] = "checkSession" /\ req' = req
        BY <1>1, <3>5, GotoTypes DEF CheckBlacklist, TypeOK
      <4>2. QED
        BY <3>0, <4>1 DEF StepOps, SyncSteps, CheckSteps
    <3>6. CASE CheckSession(r) /\ ~ Return(r)
      <4>1. pc[r] = "checkSession" /\ pc'[r] = AfterCheck(req[r].op) /\ req' = req
        BY <1>1, <3>6, GotoTypes DEF CheckSession, TypeOK
      <4>2. req[r].op \in TokenOps
        BY <3>0, <4>1 DEF StepOps, CheckSteps
      <4>3. CASE pc'[r] = "findUser"
        BY <4>1, <4>2, <4>3 DEF StepOps, SyncSteps, CheckSteps, AfterCheck, TokenOps
      <4>4. CASE pc'[r] # "findUser"
        BY <1>3, <4>1, <4>4, NextSteps DEF SyncSteps, CheckSteps
      <4>5. QED
        BY <4>3, <4>4
    <3>7. CASE FindUser(r) /\ ~ Return(r)
      <4>1. /\ pc[r] = "findUser" /\ pc'[r] = "findRoles"
            /\ req'[r].op = req[r].op
        BY <1>1, <3>7, GotoTypes DEF FindUser, TypeOK, Request
      <4>2. QED
        BY <3>0, <4>1 DEF StepOps, SyncSteps, CheckSteps
    <3>8. CASE FindRoles(r) /\ ~ Return(r)
      <4>1. /\ pc[r] = "findRoles" /\ pc'[r] = AfterFind(req[r].op)
            /\ req'[r].op = req[r].op
        BY <1>1, <3>8, GotoTypes DEF FindRoles, TypeOK, Request
      <4>2. pc'[r] = "updateRow" => req[r].op \in Writers
        BY <3>0, <4>1 DEF StepOps, AfterFind, Writers, UserOps
      <4>3. QED
        BY <4>1, <4>2, NextSteps DEF StepOps, SyncSteps, CheckSteps
    <3>9. CASE (InsertUser(r) \/ UpdateRow(r)) /\ ~ Return(r)
      <4>1. /\ pc[r] \in {"insertUser", "updateRow"} /\ pc'[r] = "syncRead"
            /\ req' = req
        BY <1>1, <3>9, GotoTypes DEF InsertUser, UpdateRow, TypeOK
      <4>2. QED
        BY <3>0, <4>1 DEF StepOps, SyncSteps, CheckSteps
    <3>10. CASE SyncRead(r) /\ ~ Return(r)
      <4>1. /\ pc[r] = "syncRead" /\ pc'[r] = "syncRoles"
            /\ req'[r].op = req[r].op
        BY <1>1, <3>10, GotoTypes DEF SyncRead, TypeOK, Request
      <4>2. QED
        BY <3>0, <4>1 DEF StepOps, SyncSteps, CheckSteps
    <3>11. CASE SyncRoles(r) /\ ~ Return(r)
      <4>1. pc'[r] = AfterSync(req[r].op)
        BY <1>1, <3>11, GotoTypes DEF SyncRoles, TypeOK
      <4>2. QED
        BY <1>3, <4>1, NextSteps DEF SyncSteps, CheckSteps
    <3>12. CASE (Mint(r) \/ StoreAccess(r) \/ ScanStart(r)) /\ ~ Return(r)
      <4>1. pc'[r] \in {"storeAccess", "storeRefresh", "scanning"}
        BY <1>1, <3>12, GotoTypes DEF Mint, StoreAccess, ScanStart, TypeOK
      <4>2. QED
        BY <1>3, <4>1 DEF SyncSteps, CheckSteps
    <3>13. CASE ScanDelete(r)
      BY <1>2, <3>13 DEF ScanDelete
    <3>14. CASE \/ LogoutBlacklist(r) \/ LogoutLookup(r) \/ LogoutRefresh(r)
                \/ LogoutRefreshKey(r)
      <4>1. pc'[r] \in LogoutSteps
        BY <1>1, <3>14, GotoTypes
        DEF LogoutBlacklist, LogoutLookup, LogoutRefresh, LogoutRefreshKey,
            LogoutSteps, TypeOK
      <4>2. QED
        BY <1>3, <4>1 DEF SyncSteps, CheckSteps, LogoutSteps
    <3>15. Return(r) => pc'[r] = "idle"
      BY <1>1, ReturnTypes DEF TypeOK
    <3>16. Serve(r) \/ DeleteRow(r) \/ StoreRefresh(r) \/ ScanEnd(r) \/ LogoutAccessKey(r)
             => Return(r)
      BY DEF Serve, DeleteRow, StoreRefresh, ScanEnd, LogoutAccessKey
    <3>17. QED
      BY <1>5, <3>1, <3>2, <3>3, <3>4, <3>5, <3>6, <3>7, <3>8, <3>9, <3>10, <3>11,
         <3>12, <3>13, <3>14, <3>15, <3>16 DEF Step
  <2>3. QED
    BY <1>2, <2>1, <2>2
<1>6. QED
  BY <1>4, <1>5 DEF Next

\* What one request knows, and what holds once it is settled.
Known(r) ==
    /\ Informed(r)
    /\ ~Unsettled(r) => \A j \in Live : grant[j.pair] = Current

\* A step that changes neither the account nor what was minted, and adds no
\* session, keeps a settled request settled.
LEMMA SettledFrame ==
  ASSUME NEW r \in Requests, Known(r), ~Unsettled(r),
         UNCHANGED <<account, grant>>, Live' \subseteq Live,
         pc'[r] \notin SyncSteps \cup StoreSteps
                       \cup {"findRoles", "updateRow", "mint", "scan", "scanning"}
  PROVE  Known(r)'
<1>1. Informed(r)'
  BY DEF Informed, SyncSteps, StoreSteps
<1>2. Current' = Current /\ \A j \in Live : grant[j.pair] = Current
  BY DEF Known, Current
<1>3. QED
  BY <1>1, <1>2 DEF Known

\* Reading the account: the row, then the roles.
LEMMA KnownReads ==
  ASSUME IInv, NEW r \in Requests, StepOps(r), Known(r), FindUser(r) \/ FindRoles(r)
  PROVE  Known(r)'
<1> USE DEF redisVars, tokenVars
<1>1. TypeOK /\ UNCHANGED <<account, grant, sessions, blacklist, expired>>
  BY DEF IInv, FindUser, FindRoles
<1>2. Live' = Live /\ Current' = Current
  BY <1>1 DEF Live, Current
<1>3. pc[r] \in {"findUser", "findRoles"} /\ ~Unsettled(r)
  BY DEF FindUser, FindRoles, Unsettled, SyncSteps
<1>4. CASE Return(r)
  <2>1. pc'[r] = "idle"
    BY <1>1, <1>4, ReturnTypes DEF TypeOK
  <2>2. QED
    BY <1>1, <1>2, <1>3, <2>1, SettledFrame DEF SyncSteps, StoreSteps
<1>5. CASE FindUser(r) /\ ~Return(r)
  <2>1. pc'[r] = "findRoles" /\ req'[r].user.password = account.password
    BY <1>1, <1>5, GotoTypes DEF FindUser, TypeOK, Request
  <2>2. QED
    BY <1>1, <1>2, <1>3, <2>1 DEF Known, Informed, Unsettled, SyncSteps, StoreSteps
<1>6. CASE FindRoles(r) /\ ~Return(r)
  <2>1. PICK u \in Mutated(req[r].op,
                     [password |-> req[r].user.password, roles |-> account.roles]) :
          req' = [req EXCEPT ![r] = [@ EXCEPT !.user = u]]
    BY <1>6 DEF FindRoles
  <2>2. /\ pc'[r] = AfterFind(req[r].op)
        /\ req'[r].op = req[r].op /\ req'[r].user = u
    <3>1. Goto(r, AfterFind(req[r].op))
      BY <1>6 DEF FindRoles
    <3>2. QED
      BY <1>1, <2>1, <3>1, GotoTypes DEF TypeOK, Request
  <2>3. req[r].user.password = account.password
    BY <1>6 DEF Known, Informed, FindRoles
  <2>4. req[r].op \in UserOps \cup {"changePassword", "refresh"}
    BY <1>6 DEF StepOps, FindRoles
  <2>5. CASE req[r].op \in {"login", "refresh"}
    <3>1. pc'[r] = "mint" /\ u = Current
      BY <2>1, <2>2, <2>3, <2>5 DEF Mutated, AfterFind, Current
    <3>2. QED
      BY <1>1, <1>2, <1>3, <2>2, <3>1 DEF Known, Informed, Unsettled, SyncSteps, StoreSteps
  <2>6. CASE req[r].op = "deleteUser"
    <3>1. pc'[r] = "deleteRow"
      BY <2>2, <2>6 DEF AfterFind
    <3>2. QED
      BY <1>1, <1>2, <1>3, <3>1, SettledFrame DEF SyncSteps, StoreSteps
  <2>7. CASE req[r].op \in Writers
    <3>1. pc'[r] = "updateRow"
      BY <2>2, <2>7 DEF AfterFind, Writers
    <3>2. /\ req[r].op # "changePassword" => u.password = account.password
          /\ req[r].op \in {"changePassword", "updateUser"} => u.roles = account.roles
      BY <2>1, <2>3, <2>7 DEF Mutated, Writers
    <3>3. QED
      BY <1>1, <1>2, <1>3, <2>2, <3>1, <3>2
      DEF Known, Informed, Unsettled, SyncSteps, StoreSteps
  <2>8. QED
    BY <2>4, <2>5, <2>6, <2>7 DEF UserOps, Writers
<1>7. QED
  BY <1>4, <1>5, <1>6

\* Writing the users row: an insertion finds no session, an update leaves the
\* account as it was unless sessions are to be erased.
LEMMA KnownRow ==
  ASSUME IInv, CurrentInv, [Next]_vars, faults' = 0, account'.status = "active",
         NEW r \in Requests,
         \/ InsertUser(r) /\ account.status # "active"
         \/ UpdateRow(r) /\ Known(r)
  PROVE  Known(r)'
<1> USE DEF redisVars, tokenVars
<1>1. TypeOK /\ AbsentInv /\ StepOps(r)
  BY DEF IInv, CurrentInv
<1>2. /\ UNCHANGED <<grant, sessions, blacklist, expired>>
      /\ pc'[r] = "syncRead" /\ req'[r] = req[r]
      /\ account' = [account EXCEPT !.status = "active", !.password = req[r].user.password]
      /\ InsertUser(r) => account.status = "absent"
      /\ UpdateRow(r) => account.status = "active"
  <2>1. CASE InsertUser(r)
    <3>1. pc[r] = "insertUser"
      BY <2>1 DEF InsertUser
    <3>2. account.status # "active" /\ account' # account
      BY <3>1 DEF UpdateRow
    <3>3. /\ account' = [account EXCEPT !.status = "active", !.password = req[r].user.password]
          /\ Goto(r, "syncRead") /\ UNCHANGED req
          /\ account.status = "absent"
      BY <2>1, <3>2 DEF InsertUser
    <3>4. QED
      BY <1>1, <2>1, <3>1, <3>3, GotoTypes DEF InsertUser, UpdateRow, TypeOK
  <2>2. CASE UpdateRow(r)
    <3>1. account.status = "active"
      BY <1>1, <2>2 DEF UpdateRow, TypeOK, Account
    <3>2. /\ account' = [account EXCEPT !.password = req[r].user.password]
          /\ Goto(r, "syncRead") /\ UNCHANGED req
      BY <1>1, <2>2, <3>1, Answered DEF UpdateRow
    <3>3. account' = [account EXCEPT !.status = "active", !.password = req[r].user.password]
      BY <1>1, <3>1, <3>2 DEF TypeOK, Account
    <3>4. pc[r] # "insertUser"
      BY <2>2 DEF UpdateRow
    <3>5. QED
      BY <1>1, <2>2, <3>1, <3>2, <3>3, <3>4, GotoTypes DEF InsertUser, UpdateRow, TypeOK
  <2>3. QED
    BY <2>1, <2>2
<1>3. account'.password = req[r].user.password /\ account'.roles = account.roles
  BY <1>1, <1>2 DEF TypeOK, Account
<1>4. CASE InsertUser(r)
  <2>1. sessions' = {} /\ req[r].op = "register"
    BY <1>1, <1>2, <1>4 DEF AbsentInv, StepOps, InsertUser
  <2>2. QED
    BY <1>2, <1>3, <2>1 DEF Known, Informed, Live, StoreSteps, SyncSteps
<1>5. CASE UpdateRow(r)
  <2>1. pc[r] = "updateRow" /\ Known(r) /\ req[r].op \in Writers /\ ~Unsettled(r)
    BY <1>1, <1>2, <1>5 DEF UpdateRow, StepOps, Unsettled, SyncSteps
  <2>2. Informed(r)'
    BY <1>2, <1>3, <2>1 DEF Known, Informed, StoreSteps, SyncSteps, Writers
  <2>3. CASE req[r].op \in Invalidating
    BY <1>2, <2>2, <2>3 DEF Known, Unsettled, SyncSteps
  <2>4. CASE req[r].op = "updateUser"
    <3>1. Current' = Current /\ Live' = Live
      BY <1>2, <1>3, <2>1, <2>4 DEF Known, Informed, Current, Live
    <3>2. QED
      BY <1>2, <2>1, <2>2, <3>1 DEF Known
  <2>5. QED
    BY <2>1, <2>3, <2>4 DEF Writers, Invalidating
<1>6. QED
  BY <1>4, <1>5

\* Writing the roles: they become those of the entity.
LEMMA KnownSync ==
  ASSUME IInv, [Next]_vars, faults' = 0, account'.status = "active",
         NEW r \in Requests, StepOps(r), SyncRead(r) \/ SyncRoles(r),
         account.status = "active" => Known(r)
  PROVE  Known(r)'
<1> USE DEF redisVars, tokenVars
<1>1. TypeOK /\ UNCHANGED <<grant, sessions, blacklist, expired>>
  BY DEF IInv, SyncRead, SyncRoles
<1>2. Live' = Live
  BY <1>1 DEF Live
<1>3. account.status = "active" /\ Known(r)
  <2>1. SyncRead(r) => account' = account
    BY DEF SyncRead
  <2>2. SyncRoles(r) => account'.status = account.status
    BY <1>1 DEF SyncRoles, TypeOK, Account
  <2>3. QED
    BY <2>1, <2>2
<1>4. pc[r] \in SyncSteps /\ req[r].op \in Writers \cup {"register"}
  BY DEF SyncRead, SyncRoles, SyncSteps, StepOps
<1>5. CASE SyncRead(r)
  <2>1. /\ account' = account
        /\ req' = [req EXCEPT ![r] = [@ EXCEPT !.existing = account.roles]]
        /\ Goto(r, "syncRoles")
    BY <1>1, <1>5, Answered DEF SyncRead
  <2>2. /\ pc'[r] = "syncRoles" /\ req'[r].existing = account.roles
        /\ req'[r].user = req[r].user /\ req'[r].op = req[r].op
    BY <1>1, <2>1, GotoTypes DEF TypeOK, Request
  <2>3. Informed(r)'
    BY <1>1, <1>3, <1>4, <2>1, <2>2 DEF Known, Informed, SyncSteps, StoreSteps
  <2>4. Unsettled(r)' = Unsettled(r)
    BY <1>4, <2>2 DEF Unsettled, SyncSteps
  <2>5. QED
    BY <1>1, <1>2, <1>3, <2>1, <2>3, <2>4 DEF Known, Current
<1>6. CASE SyncRoles(r)
  <2>1. pc[r] = "syncRoles"
    BY <1>6 DEF SyncRoles
  <2>2. /\ account' = [account EXCEPT
                         !.roles = (@ \ (req[r].existing \ req[r].user.roles))
                                     \cup (req[r].user.roles \ req[r].existing)]
        /\ IF AfterSync(req[r].op) = "idle"
           THEN Return(r)
           ELSE Goto(r, AfterSync(req[r].op)) /\ UNCHANGED req
    <3>1. PICK removed, added :
            /\ account' = [account EXCEPT !.roles = (@ \ removed) \cup added]
            /\ \/ /\ removed = req[r].existing \ req[r].user.roles
                  /\ added = req[r].user.roles \ req[r].existing
                  /\ Call(TRUE)
                  /\ IF AfterSync(req[r].op) = "idle"
                     THEN Return(r)
                     ELSE Goto(r, AfterSync(req[r].op)) /\ UNCHANGED req
               \/ Call(account.status # "active"
                        /\ removed = req[r].existing \ req[r].user.roles)
      BY <1>6 DEF SyncRoles
    <3>2. ~ Call(FALSE)
      BY <1>1, Answered
    <3>3. QED
      BY <1>3, <3>1, <3>2
  <2>3. account'.password = account.password /\ account'.roles = req[r].user.roles
    <3>1. req[r].existing = account.roles
      BY <1>3, <2>1 DEF Known, Informed
    <3>2. account'.roles = (account.roles \ (account.roles \ req[r].user.roles))
                              \cup (req[r].user.roles \ account.roles)
      BY <1>1, <2>2, <3>1 DEF TypeOK, Account
    <3>3. QED
      BY <1>1, <2>2, <3>2 DEF TypeOK, Account
  <2>4. req[r].user = Current'
    <3>1. req[r].user \in Snapshot
      BY <1>1, RequestFields DEF TypeOK
    <3>2. req[r].user.password = account.password
      BY <1>3, <1>4 DEF Known, Informed
    <3>3. QED
      BY <2>3, <3>1, <3>2 DEF Current, Snapshot
  <2>5. CASE req[r].op \in Invalidating
    <3>1. pc'[r] = "scan"
      BY <1>1, <2>2, <2>5, GotoTypes DEF AfterSync, Invalidating, TypeOK
    <3>2. Informed(r)'
      BY <3>1 DEF Informed, SyncSteps, StoreSteps
    <3>3. Unsettled(r)'
      BY <3>1 DEF Unsettled
    <3>4. QED
      BY <3>2, <3>3 DEF Known
  <2>6. CASE req[r].op = "register"
    <3>1. pc'[r] = "mint" /\ req'[r] = req[r]
      BY <1>1, <2>2, <2>6, GotoTypes DEF AfterSync, Invalidating, TypeOK
    <3>2. Live' = {}
      BY <1>2, <1>3, <1>4, <2>6 DEF Known, Informed, Live
    <3>3. QED
      BY <2>4, <3>1, <3>2 DEF Known, Informed, SyncSteps, StoreSteps
  <2>7. CASE req[r].op = "updateUser"
    <3>1. pc'[r] = "idle"
      BY <1>1, <2>2, <2>7, ReturnTypes DEF AfterSync, Invalidating, TypeOK
    <3>2. Current' = Current
      BY <1>3, <1>4, <2>3, <2>7 DEF Known, Informed, Current
    <3>3. ~Unsettled(r)
      BY <1>4, <2>7 DEF Unsettled, SyncSteps, Invalidating
    <3>4. QED
      BY <1>1, <1>2, <1>3, <3>1, <3>2, <3>3 DEF Known, Informed, SyncSteps, StoreSteps
  <2>8. QED
    BY <1>4, <2>5, <2>6, <2>7 DEF Writers, Invalidating
<1>7. QED
  BY <1>5, <1>6

\* Minting from what was read, and storing the keys of the pair.
LEMMA KnownMint ==
  ASSUME IInv, [Next]_vars, faults' = 0, NEW r \in Requests, Known(r),
         Mint(r) \/ StoreAccess(r) \/ StoreRefresh(r)
  PROVE  Known(r)'
<1> USE DEF redisVars, tokenVars
<1>1. TypeOK /\ StoreInv /\ RequestInv
  BY DEF IInv
<1>2. UNCHANGED <<account, blacklist, expired>> /\ Current' = Current
  BY DEF Mint, StoreAccess, StoreRefresh, Current
<1>3. ~Unsettled(r) /\ \A j \in Live : grant[j.pair] = Current
  BY DEF Mint, StoreAccess, StoreRefresh, Known, Unsettled, SyncSteps
<1>4. CASE Mint(r) /\ Return(r)
  <2>1. pc'[r] = "idle"
    BY <1>1, <1>4, ReturnTypes DEF TypeOK
  <2>2. UNCHANGED <<grant, sessions>>
    <3>1. pc[r] = "mint" /\ pc'[r] # "storeAccess"
      BY <1>4, <2>1 DEF Mint
    <3>2. QED
      BY <1>1, <1>4, <3>1, GotoTypes DEF Mint, TypeOK
  <2>3. QED
    BY <1>2, <1>3, <2>1, <2>2, SettledFrame DEF Live, SyncSteps, StoreSteps
<1>5. CASE Mint(r) /\ ~Return(r)
  <2>1. PICK p \in Pairs \ minted :
          /\ grant' = [grant EXCEPT ![p] = req[r].user]
          /\ req' = [req EXCEPT ![r] = [@ EXCEPT !.pair = p]]
    BY <1>5 DEF Mint
  <2>2. pc[r] = "mint" /\ pc'[r] = "storeAccess" /\ req'[r].pair = p /\ Live' = Live
    BY <1>1, <1>2, <1>5, <2>1, GotoTypes DEF Mint, TypeOK, Request, Live
  <2>3. grant'[p] = Current
    BY <1>1, <2>1, <2>2 DEF Known, Informed, TypeOK
  <2>4. \A j \in Live : grant'[j.pair] = Current
    <3>1. \A j \in Live : j.pair \in Pairs /\ j.pair # p
      BY <1>1, <2>1 DEF Live, StoreInv, TypeOK, JTI
    <3>2. QED
      BY <1>1, <1>3, <2>1, <3>1 DEF TypeOK
  <2>5. Informed(r)'
    BY <1>2, <2>2, <2>3 DEF Informed, SyncSteps, StoreSteps
  <2>6. QED
    BY <1>2, <2>2, <2>4, <2>5 DEF Known
<1>6. CASE StoreAccess(r) \/ StoreRefresh(r)
  <2>1. pc[r] \in StoreSteps /\ grant' = grant
    BY <1>6 DEF StoreAccess, StoreRefresh, StoreSteps
  <2>2. req[r].pair \in Pairs /\ grant[req[r].pair] = Current
    BY <1>1, <2>1 DEF Known, Informed, RequestInv, TypeOK
  <2>3. sessions' \subseteq sessions \cup {Access(req[r].pair), Refresh(req[r].pair)}
    BY <1>6 DEF StoreAccess, StoreRefresh
  <2>4. \A j \in Live' : grant[j.pair] = Current
    BY <1>2, <1>3, <2>2, <2>3, KeyTypes DEF Live
  <2>5. /\ pc'[r] = "storeRefresh" \/ pc'[r] = "idle"
        /\ pc'[r] = "storeRefresh" => req'[r] = req[r]
    <3>1. CASE StoreAccess(r)
      BY <1>1, <3>1, GotoTypes DEF StoreAccess, TypeOK
    <3>2. CASE StoreRefresh(r)
      BY <1>1, <3>2, ReturnTypes DEF StoreRefresh, TypeOK
    <3>3. QED
      BY <1>6, <3>1, <3>2
  <2>6. Informed(r)'
    BY <1>2, <2>1, <2>2, <2>5 DEF Informed, SyncSteps, StoreSteps
  <2>7. QED
    BY <1>2, <2>1, <2>4, <2>6 DEF Known
<1>7. QED
  BY <1>4, <1>5, <1>6

\* The scan sees every session there is, and ends when it has erased them.
LEMMA KnownScan ==
  ASSUME IInv, [Next]_vars, faults' = 0, NEW r \in Requests, Known(r),
         ScanStart(r) \/ ScanDelete(r) \/ ScanEnd(r)
  PROVE  Known(r)'
<1> USE DEF redisVars, tokenVars
<1>1. TypeOK
  BY DEF IInv
<1>2. CASE ScanStart(r)
  <2>1. pc'[r] = "scanning" /\ req'[r].todo = sessions /\ sessions' = sessions
    BY <1>1, <1>2, GotoTypes DEF ScanStart, TypeOK, Request
  <2>2. QED
    BY <2>1 DEF Known, Informed, Unsettled, SyncSteps, StoreSteps
<1>3. CASE ScanDelete(r)
  <2>1. /\ pc[r] = "scanning" /\ pc'[r] = "scanning" /\ req'[r] = req[r]
        /\ sessions' \subseteq sessions
    BY <1>3 DEF ScanDelete
  <2>2. sessions' \subseteq req'[r].todo
    BY <2>1 DEF Known, Informed
  <2>3. QED
    BY <2>1, <2>2 DEF Known, Informed, Unsettled, SyncSteps, StoreSteps
<1>4. CASE ScanEnd(r)
  <2>1. sessions' = {}
    <3>1. sessions \subseteq req[r].todo
      BY <1>4 DEF Known, Informed, ScanEnd
    <3>2. req[r].todo \cap sessions = {}
      BY <1>1, <1>4, Answered DEF ScanEnd
    <3>3. QED
      BY <1>4, <3>1, <3>2 DEF ScanEnd
  <2>2. pc'[r] = "idle"
    BY <1>1, <1>4, ReturnTypes DEF ScanEnd, TypeOK
  <2>3. Informed(r)'
    BY <2>2 DEF Informed, SyncSteps, StoreSteps
  <2>4. QED
    BY <2>1, <2>3 DEF Known, Live
<1>5. QED
  BY <1>2, <1>3, <1>4

\* Arriving, the checks, serving, a refused insertion and the logout.
AddsNothing(r) ==
    \/ \E op \in TokenOps, j \in JTI : Begin(r, op, j)
    \/ \E op \in UserOps : BeginUserOp(r, op)
    \/ BeginRegister(r) \/ CheckBlacklist(r) \/ CheckSession(r) \/ Serve(r)
    \/ InsertUser(r) /\ Return(r) /\ account' = account
    \/ LogoutBlacklist(r) \/ LogoutLookup(r) \/ LogoutRefresh(r)
    \/ LogoutRefreshKey(r) \/ LogoutAccessKey(r)

LEMMA KnownQuiet ==
  ASSUME IInv, NEW r \in Requests, Known(r), AddsNothing(r)
  PROVE  Known(r)'
<1> USE DEF redisVars, tokenVars
<1> DEFINE Entries == {"idle", "checkBlacklist", "checkSession", "serve", "findUser",
                       "insertUser", "logoutBlacklist"}
           Quiet == /\ pc[r] \in Entries \cup LogoutSteps
                    /\ pc'[r] \in Entries \cup LogoutSteps
                    /\ UNCHANGED <<account, grant, expired>>
                    /\ sessions' \subseteq sessions /\ blacklist \subseteq blacklist'
<1>1. TypeOK
  BY DEF IInv
<1>2. Quiet => Known(r)'
  <2>1. Quiet => /\ Live' \subseteq Live
                 /\ ~Unsettled(r)
                 /\ pc'[r] \notin SyncSteps \cup StoreSteps
                       \cup {"findRoles", "updateRow", "mint", "scan", "scanning"}
    BY DEF Live, Unsettled, SyncSteps, StoreSteps, LogoutSteps
  <2>2. QED
    BY <2>1, SettledFrame
<1> HIDE DEF Quiet
<1>3. ASSUME NEW op \in TokenOps, NEW j \in JTI, Begin(r, op, j)
      PROVE  Quiet
  <2>1. pc[r] = "idle" /\ Goto(r, "checkBlacklist")
    BY <1>3 DEF Begin
  <2>2. UNCHANGED <<account, grant, expired, sessions, blacklist>>
    BY <1>3 DEF Begin
  <2>3. QED
    BY <1>1, <2>1, <2>2, GotoTypes DEF TypeOK, Quiet
<1>4. ASSUME NEW op \in UserOps, BeginUserOp(r, op)
      PROVE  Quiet
  <2>1. pc[r] = "idle" /\ Goto(r, "findUser")
    BY <1>4 DEF BeginUserOp
  <2>2. UNCHANGED <<account, grant, expired, sessions, blacklist>>
    BY <1>4 DEF BeginUserOp
  <2>3. QED
    BY <1>1, <2>1, <2>2, GotoTypes DEF TypeOK, Quiet
<1>5. BeginRegister(r) => Quiet
  BY <1>1, GotoTypes DEF BeginRegister, TypeOK, Quiet
<1>6. CheckBlacklist(r) => Quiet
  BY <1>1, GotoTypes, ReturnTypes DEF CheckBlacklist, TypeOK, Quiet
<1>7. CheckSession(r) => Quiet
  BY <1>1, GotoTypes, ReturnTypes, NextSteps DEF CheckSession, TypeOK, Quiet
<1>8. Serve(r) => Quiet
  BY <1>1, ReturnTypes DEF Serve, TypeOK, Quiet
<1>9. InsertUser(r) /\ Return(r) /\ account' = account => Quiet
  BY <1>1, ReturnTypes DEF InsertUser, TypeOK, Quiet
<1>10. LogoutBlacklist(r) \/ LogoutLookup(r) \/ LogoutRefresh(r) => Quiet
  BY <1>1, GotoTypes
  DEF LogoutBlacklist, LogoutLookup, LogoutRefresh, LogoutSteps, TypeOK, Quiet
<1>11. LogoutRefreshKey(r) => Quiet
  BY <1>1, GotoTypes DEF LogoutRefreshKey, DeleteKey, LogoutSteps, TypeOK, Quiet
<1>12. LogoutAccessKey(r) => Quiet
  BY <1>1, ReturnTypes DEF LogoutAccessKey, DeleteKey, LogoutSteps, TypeOK, Quiet
<1>13. QED
  BY <1>2, <1>3, <1>4, <1>5, <1>6, <1>7, <1>8, <1>9, <1>10, <1>11, <1>12 DEF AddsNothing

\* Time only takes tokens away.
LEMMA KnownTime ==
  ASSUME NEW r \in Requests, Known(r), Time
  PROVE  Known(r)'
<1> USE DEF redisVars, tokenVars
<1>1. /\ UNCHANGED <<account, grant, pc, req>>
      /\ sessions' \subseteq sessions /\ Live' \subseteq Live
  BY DEF Time, Expire, DropSession, DropBlacklist, Live
<1>2. Current' = Current /\ Unsettled(r)' = Unsettled(r)
  BY <1>1 DEF Current, Unsettled
<1>3. Informed(r)'
  BY <1>1, <1>2 DEF Known, Informed
<1>4. QED
  BY <1>1, <1>2, <1>3 DEF Known

-----------------------------------------------------------------------------
\* Initially there is no token at all.
LEMMA InitCurrent == Init => CurrentInv
<1> SUFFICES ASSUME Init PROVE CurrentInv
  OBVIOUS
<1>1. sessions = {} /\ held = {} /\ \A r \in Requests : pc[r] = "idle"
  BY DEF Init
<1>2. account.status = "absent" => account.roles = {}
  BY DEF Init
<1>3. QED
  BY <1>1, <1>2
  DEF CurrentInv, AbsentInv, StepOps, Informed, Live, CheckSteps, SyncSteps, StoreSteps

\* One request at a time preserves it.
LEMMA NextCurrent ==
  ASSUME Solo, IInv, CurrentInv, [Next]_vars
  PROVE  CurrentInv'
<1> USE DEF redisVars, tokenVars
<1>1. AbsentInv' /\ \A x \in Requests : StepOps(x)'
  BY AbsentStep, OpsStep
<1>2. ASSUME faults' = 0, account'.status = "active", NEW r \in Requests
      PROVE  Known(r)'
  <2>1. TypeOK /\ faults = 0 /\ StepOps(r)
    BY <1>2, Answered DEF IInv, CurrentInv
  <2>2. account.status = "active" => Known(r)
    BY <2>1 DEF CurrentInv, Known, Solo
  <2>3. CASE UNCHANGED vars
    <3>1. Known(r)' = Known(r)
      BY <2>3 DEF vars, Known, Informed, Unsettled, Live, Current
    <3>2. QED
      BY <1>2, <2>2, <2>3, <3>1 DEF vars
  <2>4. CASE Time
    <3>1. account' = account
      BY <2>4 DEF Time, Expire, DropSession, DropBlacklist
    <3>2. QED
      BY <1>2, <2>2, <2>4, <3>1, KnownTime
  <2>5. CASE Step(r)
    <3>1. CASE InsertUser(r) \/ UpdateRow(r)
      <4>1. CASE InsertUser(r) /\ account.status = "active"
        <5>1. Return(r) /\ account' = account
          BY <4>1 DEF InsertUser
        <5>2. QED
          BY <2>2, <4>1, <5>1, KnownQuiet DEF AddsNothing
      <4>2. CASE UpdateRow(r)
        <5>1. account.status = "active"
          BY <1>2, <2>1, <4>2 DEF UpdateRow, TypeOK, Account
        <5>2. QED
          BY <1>2, <2>2, <4>2, <5>1, KnownRow
      <4>3. QED
        BY <1>2, <3>1, <4>1, <4>2, KnownRow
    <3>2. CASE SyncRead(r) \/ SyncRoles(r)
      BY <1>2, <2>1, <2>2, <3>2, KnownSync
    <3>3. CASE DeleteRow(r)
      <4>1. account'.status = "deleted"
        BY <1>2, <2>1, <3>3, Answered DEF DeleteRow, TypeOK, Account
      <4>2. QED
        BY <1>2, <4>1
    <3>4. CASE ~(InsertUser(r) \/ UpdateRow(r) \/ SyncRead(r) \/ SyncRoles(r) \/ DeleteRow(r))
      <4>1. account' = account
        BY <2>5, <3>4, AccountFrame
      <4>2. Known(r)
        BY <1>2, <2>2, <4>1
      <4>3. QED
        BY <1>2, <2>1, <2>5, <3>4, <4>2, KnownReads, KnownMint, KnownScan, KnownQuiet
        DEF Step, AddsNothing
    <3>5. QED
      BY <3>1, <3>2, <3>3, <3>4
  <2>6. QED
    <3>1. ASSUME NEW x \in Requests, Step(x)
          PROVE  Step(r)
      BY <3>1 DEF Solo
    <3>2. QED
      BY <2>3, <2>4, <2>5, <3>1 DEF Next
<1>3. ASSUME faults' = 0, account'.status = "active"
      PROVE  /\ \A r \in Requests : Informed(r)'
             /\ (\A r \in Requests : ~Unsettled(r)') =>
                   \A j \in Live' : grant'[j.pair] = Current'
  <2>1. \A r \in Requests : Informed(r)'
    BY <1>2, <1>3 DEF Known
  <2>2. ASSUME NEW r \in Requests, ~Unsettled(r)'
        PROVE  \A j \in Live' : grant'[j.pair] = Current'
    BY <1>2, <1>3, <2>2 DEF Known
  <2>3. Requests # {}
    BY DEF Solo
  <2>4. QED
    BY <2>1, <2>2, <2>3
<1>4. QED
  BY <1>1, <1>3 DEF CurrentInv

\* With one request at a time and no failed call, every token that works was
\* minted from the password and the roles the account has: whatever changes them
\* erases all sessions before it returns (ChangePassword, AssignRole, RemoveRole).
THEOREM LiveTokensAreCurrent == ASSUME Solo PROVE Spec => []LiveTokensCurrent
<1>1. CurrentInv => LiveTokensCurrent
  BY DEF CurrentInv, LiveTokensCurrent, Unsettled, Current, SyncSteps
<1>2. IInv /\ CurrentInv /\ [Next]_vars => CurrentInv'
  BY NextCurrent
<1>3. QED
  BY <1>1, <1>2, InitCurrent, InvariantIInv, PTL DEF Spec
=============================================================================
