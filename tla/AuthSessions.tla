----------------------------- MODULE AuthSessions -----------------------------
(***************************************************************************)
(* Token pairs, session keys and the revocation list of ONE account, as    *)
(* the authentication and user use cases drive them                        *)
(* (internal/application/usecase/auth, usecase/user, infrastructure/auth/  *)
(* jwt).  Every call to PostgreSQL or Redis is a step of its own, so        *)
(* requests interleave between the calls exactly where the code can be     *)
(* preempted.                                                              *)
(*                                                                         *)
(* Bounds: Pairs bounds how many token pairs are ever minted; MaxFaults    *)
(* bounds how many calls to Redis or PostgreSQL fail (a network error, or  *)
(* the client going away and cancelling the request's context).            *)
(***************************************************************************)
EXTENDS Naturals

CONSTANTS
    Requests,     \* requests in flight (goroutines of the server)
    Pairs,        \* access/refresh token pairs that can be minted
    Passwords,    \* password values (the bcrypt hash is abstracted)
    Roles,        \* role identifiers
    DefaultRole,  \* the role a registration assigns (entity.RoleMember)
    Ops,          \* the operations clients issue in this instance
    MaxFaults,    \* how many external calls may fail
    None          \* "no value"

ASSUME DefaultRoleAssumption == DefaultRole \in Roles
ASSUME FaultAssumption == MaxFaults \in Nat
ASSUME NoneAssumption == None \notin Pairs
ASSUME PasswordsAssumption == Passwords # {}

VARIABLES
    account,    \* users row: status, password, and the user_roles rows
    sessions,   \* keys app:session:{user}:{jti} present in Redis
    blacklist,  \* keys app:token:blacklist:{jti} present in Redis
    expired,    \* JTIs whose JWT has passed its exp claim
    minted,     \* pairs GenerateTokenPair has signed
    held,       \* pairs returned to a client
    grant,      \* what each pair was minted from: claims (roles) and password
    pc,         \* next step of each request
    req,        \* local variables of each request
    faults,     \* failed external calls so far
    erased,     \* history: JTIs whose session key was removed
    loggedOut   \* history: access JTIs for which Logout has returned

vars == <<account, sessions, blacklist, expired, minted, held, grant,
          pc, req, faults, erased, loggedOut>>

-----------------------------------------------------------------------------
(* Values *)

JTI == [kind : {"access", "refresh"}, pair : Pairs]
Access(p) == [kind |-> "access", pair |-> p]
Refresh(p) == [kind |-> "refresh", pair |-> p]

Snapshot == [password : Passwords, roles : SUBSET Roles]
Account == [status : {"absent", "active", "deleted"},
            password : Passwords, roles : SUBSET Roles]

\* Operations that present a token, and those that read the user first.
TokenOps == {"read", "logout", "changePassword", "refresh"}
UserOps == {"login", "assignRole", "removeRole", "updateUser", "deleteUser"}
AllOps == TokenOps \cup UserOps \cup {"register"}

\* (mutant) RemoveRole forgets invalidateUserSessions.
MutInvalidating == {"changePassword", "assignRole"}

\* Operations that bulk-delete the account's sessions after their update.
Invalidating == {"changePassword", "assignRole", "removeRole"}

StoreSteps == {"storeAccess", "storeRefresh"}
LogoutSteps == {"logoutBlacklist", "logoutLookup", "logoutRefresh",
                "logoutRefreshKey", "logoutAccessKey"}
CheckSteps == {"checkBlacklist", "checkSession"}
Steps == {"idle", "serve", "findUser", "findRoles", "insertUser", "mint",
          "updateRow", "syncRead", "syncRoles", "deleteRow", "scan", "scanning"}
         \cup StoreSteps \cup LogoutSteps \cup CheckSteps

Request == [op : AllOps \cup {None}, jti : JTI \cup {None},
            pair : Pairs \cup {None}, user : Snapshot,
            existing : SUBSET Roles, todo : SUBSET JTI,
            goneAtStart : SUBSET JTI, outAtStart : SUBSET JTI]

NoRequest == [op |-> None, jti |-> None, pair |-> None,
              user |-> [password |-> CHOOSE pw \in Passwords : TRUE,
                        roles |-> {}],
              existing |-> {}, todo |-> {},
              goneAtStart |-> {}, outAtStart |-> {}]

TypeOK ==
    /\ account \in Account
    /\ sessions \subseteq JTI
    /\ blacklist \subseteq JTI
    /\ expired \subseteq JTI
    /\ minted \subseteq Pairs
    /\ held \subseteq Pairs
    /\ grant \in [Pairs -> Snapshot]
    /\ pc \in [Requests -> Steps]
    /\ req \in [Requests -> Request]
    /\ faults \in 0..MaxFaults
    /\ erased \subseteq JTI
    /\ loggedOut \subseteq JTI

\* A token every check would accept.
Live == sessions \ (blacklist \cup expired)

Init ==
    /\ \E status \in {"absent", "active"}, pw \in Passwords :
         account = [status |-> status, password |-> pw,
                    roles |-> IF status = "active" THEN {DefaultRole} ELSE {}]
    /\ sessions = {} /\ blacklist = {} /\ expired = {}
    /\ minted = {} /\ held = {}
    /\ grant = [p \in Pairs |-> NoRequest.user]
    /\ pc = [r \in Requests |-> "idle"]
    /\ req = [r \in Requests |-> NoRequest]
    /\ faults = 0
    /\ erased = {} /\ loggedOut = {}

-----------------------------------------------------------------------------
(* Control shared by the steps *)

\* An external call answers (ok) or fails; failures are budgeted.
Call(ok) ==
    IF ok THEN UNCHANGED faults
          ELSE faults < MaxFaults /\ faults' = faults + 1

Goto(r, step) == pc' = [pc EXCEPT ![r] = step]

\* The handler returns, with a result or an error.
Return(r) ==
    /\ Goto(r, "idle")
    /\ req' = [req EXCEPT ![r] = NoRequest]

redisVars == <<sessions, blacklist, erased>>
tokenVars == <<expired, minted, held, grant>>

-----------------------------------------------------------------------------
(* Authenticated entry: the middleware's ValidateToken, and RefreshToken    *)

\* A client presents a token it holds; signature and exp are checked first.
\* ValidateRefreshToken looks at no more than that: an access token passes it.
Begin(r, op, j) ==
    /\ pc[r] = "idle"
    /\ op \in TokenOps \cap Ops
    /\ j.pair \in held
    /\ j \notin expired
    /\ req' = [req EXCEPT ![r] = [NoRequest EXCEPT
                 !.op = op, !.jti = j,
                 !.goneAtStart = {j} \cap erased, !.outAtStart = {j} \cap loggedOut]]
    /\ Goto(r, "checkBlacklist")
    /\ UNCHANGED <<account, redisVars, tokenVars, faults, loggedOut>>

\* Exists(blacklist key); an error reads as "not revoked".
CheckBlacklist(r) ==
    /\ pc[r] = "checkBlacklist"
    /\ \E ok \in BOOLEAN :
         /\ Call(ok)
         /\ IF ok /\ req[r].jti \in blacklist
            THEN Return(r)
            ELSE Goto(r, "checkSession") /\ UNCHANGED req
    /\ UNCHANGED <<account, redisVars, tokenVars, loggedOut>>

\* A refresh token carries no userId claim, so as a bearer token it looks up
\* the session of the nil user and is rejected; refresh uses the subject.
HasSessionKey(op, j) == j \in sessions /\ (op = "refresh" \/ j.kind = "access")

AfterCheck(op) ==
    CASE op = "read" -> "serve"
      [] op = "logout" -> "logoutBlacklist"
      [] OTHER -> "findUser"

\* (mutant) an error of the session lookup lets the token through.
MutCheckSession(r) ==
    /\ pc[r] = "checkSession"
    /\ \E ok \in BOOLEAN :
         /\ Call(ok)
         /\ IF ok => HasSessionKey(req[r].op, req[r].jti)
            THEN Goto(r, AfterCheck(req[r].op)) /\ UNCHANGED req
            ELSE Return(r)
    /\ UNCHANGED <<account, redisVars, tokenVars, loggedOut>>

\* Exists(session key); an error reads as "no session".
CheckSession(r) ==
    /\ pc[r] = "checkSession"
    /\ \E ok \in BOOLEAN :
         /\ Call(ok)
         /\ IF ok /\ HasSessionKey(req[r].op, req[r].jti)
            THEN Goto(r, AfterCheck(req[r].op)) /\ UNCHANGED req
            ELSE Return(r)
    /\ UNCHANGED <<account, redisVars, tokenVars, loggedOut>>

\* The protected handler runs.
Serve(r) ==
    /\ pc[r] = "serve"
    /\ Return(r)
    /\ UNCHANGED <<account, redisVars, tokenVars, faults, loggedOut>>

-----------------------------------------------------------------------------
(* Reading the account                                                      *)

\* Login, and the use cases an administrator drives on this account.
BeginUserOp(r, op) ==
    /\ pc[r] = "idle"
    /\ op \in UserOps \cap Ops
    /\ req' = [req EXCEPT ![r] = [NoRequest EXCEPT !.op = op]]
    /\ Goto(r, "findUser")
    /\ UNCHANGED <<account, redisVars, tokenVars, faults, loggedOut>>

\* What the entity looks like after the use case's in-memory mutation.
Mutated(op, user) ==
    CASE op = "changePassword" ->
           {[user EXCEPT !.password = pw] : pw \in Passwords}
      [] op = "assignRole" ->
           {[user EXCEPT !.roles = @ \cup {role}] : role \in Roles}
      [] op = "removeRole" ->
           {[user EXCEPT !.roles = @ \ {role}] : role \in Roles}
      [] OTHER -> {user}

AfterFind(op) ==
    CASE op \in {"login", "refresh"} -> "mint"
      [] op = "deleteUser" -> "deleteRow"
      [] OTHER -> "updateRow"

\* Operations whose handler may refuse a user it has read: the credential
\* check, a role that does not exist, an e-mail address that is taken.
Refusable == {"login", "changePassword", "assignRole", "removeRole", "updateUser"}

\* FindByID / FindByEmail reads the users row: not found, or a failed query,
\* ends the request ...
FindUser(r) ==
    /\ pc[r] = "findUser"
    /\ \E ok \in BOOLEAN :
         /\ Call(ok)
         /\ IF ok /\ account.status = "active"
            THEN /\ req' = [req EXCEPT ![r] = [@ EXCEPT
                              !.user = [password |-> account.password, roles |-> {}]]]
                 /\ Goto(r, "findRoles")
            ELSE Return(r)
    /\ UNCHANGED <<account, redisVars, tokenVars, loggedOut>>

\* ... then loadUserRoles reads the roles in a query of its own, and the use
\* case checks the credential and changes the entity in memory.
FindRoles(r) ==
    /\ pc[r] = "findRoles"
    /\ \/ /\ \E u \in Mutated(req[r].op,
                             [password |-> req[r].user.password, roles |-> account.roles]) :
               req' = [req EXCEPT ![r] = [@ EXCEPT !.user = u]]
          /\ Goto(r, AfterFind(req[r].op))
          /\ Call(TRUE)
       \/ /\ Call(req[r].op \in Refusable)
          /\ Return(r)
    /\ UNCHANGED <<account, redisVars, tokenVars, loggedOut>>

\* Register: ExistsByEmail, FindByName(MEMBER), NewUser.
BeginRegister(r) ==
    /\ pc[r] = "idle"
    /\ "register" \in Ops
    /\ account.status = "absent"
    /\ \E pw \in Passwords :
         req' = [req EXCEPT ![r] = [NoRequest EXCEPT
                   !.op = "register",
                   !.user = [password |-> pw, roles |-> {DefaultRole}]]]
    /\ Goto(r, "insertUser")
    /\ UNCHANGED <<account, redisVars, tokenVars, faults, loggedOut>>

-----------------------------------------------------------------------------
(* Writing the account: Save / Update / Delete, none of them a transaction  *)

\* INSERT INTO users; the unique e-mail index rejects a second account.
InsertUser(r) ==
    /\ pc[r] = "insertUser"
    /\ \E ok \in BOOLEAN :
         /\ Call(ok)
         /\ IF ok /\ account.status = "absent"
            THEN /\ account' = [account EXCEPT !.status = "active",
                                  !.password = req[r].user.password]
                 /\ Goto(r, "syncRead") /\ UNCHANGED req
            ELSE Return(r) /\ UNCHANGED account
    /\ UNCHANGED <<redisVars, tokenVars, loggedOut>>

\* UPDATE users SET email, name, password_hash; no row is an error.
UpdateRow(r) ==
    /\ pc[r] = "updateRow"
    /\ \E ok \in BOOLEAN :
         /\ Call(ok)
         /\ IF ok /\ account.status = "active"
            THEN /\ account' = [account EXCEPT !.password = req[r].user.password]
                 /\ Goto(r, "syncRead") /\ UNCHANGED req
            ELSE Return(r) /\ UNCHANGED account
    /\ UNCHANGED <<redisVars, tokenVars, loggedOut>>

\* syncUserRoles reads the current rows ...
SyncRead(r) ==
    /\ pc[r] = "syncRead"
    /\ \E ok \in BOOLEAN :
         /\ Call(ok)
         /\ IF ok
            THEN /\ req' = [req EXCEPT ![r] = [@ EXCEPT !.existing = account.roles]]
                 /\ Goto(r, "syncRoles")
            ELSE Return(r)
    /\ UNCHANGED <<account, redisVars, tokenVars, loggedOut>>

AfterSync(op) ==
    CASE op \in Invalidating -> "scan"
      [] op = "register" -> "mint"
      [] OTHER -> "idle"

\* ... then deletes the surplus rows and inserts the missing ones, statement
\* by statement: a failure (or, once the account is deleted, the foreign key)
\* leaves a prefix of them done and the use case returns the error.
SyncRoles(r) ==
    LET surplus == req[r].existing \ req[r].user.roles
        missing == req[r].user.roles \ req[r].existing
    IN /\ pc[r] = "syncRoles"
       /\ \E removed \in SUBSET surplus, added \in SUBSET missing :
            /\ added # {} => removed = surplus /\ account.status = "active"
            /\ account' = [account EXCEPT !.roles = (@ \ removed) \cup added]
            /\ \/ /\ removed = surplus /\ added = missing
                  /\ Call(TRUE)
                  /\ IF AfterSync(req[r].op) = "idle"
                     THEN Return(r)
                     ELSE Goto(r, AfterSync(req[r].op)) /\ UNCHANGED req
               \/ /\ removed # surplus \/ added # missing
                  /\ Call(account.status # "active" /\ removed = surplus)
                  /\ Return(r)
       /\ UNCHANGED <<redisVars, tokenVars, loggedOut>>

\* DELETE FROM users, which cascades to user_roles; sessions are not touched.
DeleteRow(r) ==
    /\ pc[r] = "deleteRow"
    /\ \E ok \in BOOLEAN :
         /\ Call(ok)
         /\ account' = IF ok THEN [account EXCEPT !.status = "deleted", !.roles = {}]
                             ELSE account
    /\ Return(r)
    /\ UNCHANGED <<redisVars, tokenVars, loggedOut>>

-----------------------------------------------------------------------------
(* generateAuthOutput                                                       *)

\* GenerateTokenPair: two fresh JTIs, the roles of the entity as claims.  Once
\* the bound Pairs is reached the request takes the signing-error return.
Mint(r) ==
    /\ pc[r] = "mint"
    /\ \/ /\ \E p \in Pairs \ minted :
               /\ minted' = minted \cup {p}
               /\ grant' = [grant EXCEPT ![p] = req[r].user]
               /\ req' = [req EXCEPT ![r] = [@ EXCEPT !.pair = p]]
          /\ Goto(r, "storeAccess")
       \/ /\ minted = Pairs
          /\ Return(r)
          /\ UNCHANGED <<minted, grant>>
    /\ UNCHANGED <<account, redisVars, expired, held, faults, loggedOut>>

\* (mutant) the session is keyed by the pair instead of the access JTI.
MutStoreAccess(r) ==
    /\ pc[r] = "storeAccess"
    /\ sessions' = sessions \cup {req[r].pair}
    /\ Goto(r, "storeRefresh")
    /\ UNCHANGED <<account, blacklist, erased, tokenVars, req, faults, loggedOut>>

\* SetJSON under the access JTI; an error is swallowed.
StoreAccess(r) ==
    /\ pc[r] = "storeAccess"
    /\ \E ok \in BOOLEAN :
         /\ Call(ok)
         /\ sessions' = IF ok THEN sessions \cup {Access(req[r].pair)} ELSE sessions
    /\ Goto(r, "storeRefresh")
    /\ UNCHANGED <<account, blacklist, erased, tokenVars, req, loggedOut>>

\* (mutant) the second write stores the record under both keys again.
MutStoreRefresh(r) ==
    /\ pc[r] = "storeRefresh"
    /\ sessions' = sessions \cup {Access(req[r].pair), Refresh(req[r].pair)}
    /\ held' = held \cup {req[r].pair}
    /\ Return(r)
    /\ UNCHANGED <<account, blacklist, erased, expired, minted, grant, faults, loggedOut>>

\* SetJSON under the refresh JTI, and the pair goes to the client.
StoreRefresh(r) ==
    /\ pc[r] = "storeRefresh"
    /\ \E ok \in BOOLEAN :
         /\ Call(ok)
         /\ sessions' = IF ok THEN sessions \cup {Refresh(req[r].pair)} ELSE sessions
    /\ held' = held \cup {req[r].pair}
    /\ Return(r)
    /\ UNCHANGED <<account, blacklist, erased, expired, minted, grant, loggedOut>>

-----------------------------------------------------------------------------
(* Bulk invalidation: DeletePattern("app:session:{user}:*") is a SCAN loop   *)
(* with one DEL per key it returns.  SCAN returns every key that is there    *)
(* from its start to its end, and may return those added meanwhile.          *)

ScanStart(r) ==
    /\ pc[r] = "scan"
    /\ req' = [req EXCEPT ![r] = [@ EXCEPT !.todo = sessions]]
    /\ Goto(r, "scanning")
    /\ UNCHANGED <<account, redisVars, tokenVars, faults, loggedOut>>

ScanDelete(r) ==
    /\ pc[r] = "scanning"
    /\ \E j \in sessions :
         /\ sessions' = sessions \ {j}
         /\ erased' = erased \cup {j}
    /\ UNCHANGED <<account, blacklist, tokenVars, pc, req, faults, loggedOut>>

\* The cursor is exhausted, or a SCAN or DEL failed: the error is swallowed.
ScanEnd(r) ==
    /\ pc[r] = "scanning"
    /\ Call(req[r].todo \cap sessions = {})
    /\ Return(r)
    /\ UNCHANGED <<account, redisVars, tokenVars, loggedOut>>

-----------------------------------------------------------------------------
(* Logout                                                                   *)

\* (mutant) Logout relies on the session key alone.
MutLogoutBlacklist(r) ==
    /\ pc[r] = "logoutBlacklist"
    /\ Goto(r, "logoutLookup")
    /\ UNCHANGED <<account, redisVars, tokenVars, req, faults, loggedOut>>

\* Blacklist the access token for its remaining lifetime, if any remains.
LogoutBlacklist(r) ==
    /\ pc[r] = "logoutBlacklist"
    /\ \E ok \in BOOLEAN :
         /\ Call(ok)
         /\ blacklist' = IF ok /\ req[r].jti \notin expired
                         THEN blacklist \cup {req[r].jti} ELSE blacklist
    /\ Goto(r, "logoutLookup")
    /\ UNCHANGED <<account, sessions, erased, tokenVars, req, loggedOut>>

\* GetJSON(session): the record names the refresh token of the pair.
LogoutLookup(r) ==
    /\ pc[r] = "logoutLookup"
    /\ \E ok \in BOOLEAN :
         /\ Call(ok)
         /\ Goto(r, IF ok /\ req[r].jti \in sessions
                    THEN "logoutRefresh" ELSE "logoutAccessKey")
    /\ UNCHANGED <<account, redisVars, tokenVars, req, loggedOut>>

LogoutRefresh(r) ==
    /\ pc[r] = "logoutRefresh"
    /\ \E ok \in BOOLEAN :
         /\ Call(ok)
         /\ blacklist' = IF ok THEN blacklist \cup {Refresh(req[r].jti.pair)}
                               ELSE blacklist
    /\ Goto(r, "logoutRefreshKey")
    /\ UNCHANGED <<account, sessions, erased, tokenVars, req, loggedOut>>

\* DEL of one session key.
DeleteKey(j) ==
    \E ok \in BOOLEAN :
       /\ Call(ok)
       /\ sessions' = IF ok THEN sessions \ {j} ELSE sessions
       /\ erased' = IF ok THEN erased \cup {j} ELSE erased

LogoutRefreshKey(r) ==
    /\ pc[r] = "logoutRefreshKey"
    /\ DeleteKey(Refresh(req[r].jti.pair))
    /\ Goto(r, "logoutAccessKey")
    /\ UNCHANGED <<account, blacklist, tokenVars, req, loggedOut>>

LogoutAccessKey(r) ==
    /\ pc[r] = "logoutAccessKey"
    /\ DeleteKey(req[r].jti)
    /\ loggedOut' = loggedOut \cup {req[r].jti}
    /\ Return(r)
    /\ UNCHANGED <<account, blacklist, tokenVars>>

-----------------------------------------------------------------------------
(* Time: exp claims pass, and Redis drops keys whose TTL has run out.        *)
(* Both session keys live as long as the refresh token.                      *)

Expire(j) ==
    /\ j.pair \in held
    /\ j \notin expired
    /\ j.kind = "refresh" => Access(j.pair) \in expired
    /\ expired' = expired \cup {j}
    /\ UNCHANGED <<account, redisVars, minted, held, grant, pc, req, faults, loggedOut>>

DropSession(j) ==
    /\ j \in sessions
    /\ Refresh(j.pair) \in expired
    /\ sessions' = sessions \ {j}
    /\ erased' = erased \cup {j}
    /\ UNCHANGED <<account, blacklist, tokenVars, pc, req, faults, loggedOut>>

\* (mutant) an entry of the revocation list does not last as long as its token.
MutDropBlacklist(j) ==
    /\ j \in blacklist
    /\ blacklist' = blacklist \ {j}
    /\ UNCHANGED <<account, sessions, erased, tokenVars, pc, req, faults, loggedOut>>

DropBlacklist(j) ==
    /\ j \in blacklist \cap expired
    /\ blacklist' = blacklist \ {j}
    /\ UNCHANGED <<account, sessions, erased, tokenVars, pc, req, faults, loggedOut>>

-----------------------------------------------------------------------------
Step(r) ==
    \/ \E op \in TokenOps, j \in JTI : Begin(r, op, j)
    \/ \E op \in UserOps : BeginUserOp(r, op)
    \/ BeginRegister(r)
    \/ CheckBlacklist(r) \/ CheckSession(r) \/ Serve(r)
    \/ FindUser(r) \/ FindRoles(r)
    \/ InsertUser(r) \/ UpdateRow(r) \/ DeleteRow(r)
    \/ SyncRead(r) \/ SyncRoles(r)
    \/ Mint(r) \/ StoreAccess(r) \/ StoreRefresh(r)
    \/ ScanStart(r) \/ ScanDelete(r) \/ ScanEnd(r)
    \/ LogoutBlacklist(r) \/ LogoutLookup(r) \/ LogoutRefresh(r)
    \/ LogoutRefreshKey(r) \/ LogoutAccessKey(r)

Time == \E j \in JTI : Expire(j) \/ DropSession(j) \/ DropBlacklist(j)

Next == (\E r \in Requests : Step(r)) \/ Time

Spec == Init /\ [][Next]_vars

-----------------------------------------------------------------------------
(* Properties                                                               *)

\* A session key that was removed (by Logout, by a bulk invalidation or by its
\* TTL) is never there again: no request in flight writes it back
\* (generateAuthOutput against DeletePattern and Delete).
NoResurrection == erased \cap sessions = {}

\* A token whose session was already gone when the request arrived gets past
\* neither ValidateToken nor RefreshToken, whatever cache calls fail: the
\* lookup of a session fails closed.
InvalidatedNeverAccepted ==
    \A r \in Requests : req[r].goneAtStart # {} => pc[r] \in CheckSteps

\* One failed call cannot keep a logged-out access token usable while it has
\* not expired: Logout both blacklists it and deletes its session, and
\* ValidateToken checks both.
LogoutSurvivesOneFault ==
    faults <= 1 =>
      \A r \in Requests : req[r].outAtStart # {} /\ req[r].jti \notin expired
                            => pc[r] \in CheckSteps

\* A scan that is still running and has not reached j yet.
BeingScanned(j) == \E r \in Requests : pc[r] = "scanning" /\ j \in req[r].todo

\* When no call failed, a finished Logout also killed the refresh token of the
\* pair, however it interleaved with refreshes and bulk invalidations.
LogoutKillsPair ==
    faults = 0 => \A p \in Pairs :
        Access(p) \in loggedOut /\ Refresh(p) \in Live => BeingScanned(Refresh(p))

\* While no request is running, every token that works was minted from the
\* password and the roles the account has now.
LiveTokensCurrent ==
    (faults = 0 /\ account.status = "active" /\ \A r \in Requests : pc[r] = "idle") =>
      \A j \in Live : grant[j.pair] =
                        [password |-> account.password, roles |-> account.roles]

\* ADR 0004: "Password changes and role changes force re-login across all
\* sessions": once a bulk invalidation has run to its end, no token minted
\* from an earlier password works.
PasswordChangeForcesRelogin ==
    faults = 0 /\ (\A r \in Requests : pc[r] = "idle") =>
      \A j \in Live : grant[j.pair].password = account.password

-----------------------------------------------------------------------------
(* The inductive strengthening the proofs use                                *)

\* Keys only exist for minted pairs; revocations and expiry only for pairs a
\* client was given.
StoreInv ==
    /\ held \subseteq minted
    /\ \A j \in sessions \cup erased : j.pair \in minted
    /\ \A j \in blacklist \cup expired : j.pair \in held

\* What a request relies on between two of its calls: the token it presented
\* was held, and the keys it is about to write have never existed.
RequestInv ==
    \A r \in Requests :
      /\ pc[r] \in CheckSteps \cup LogoutSteps =>
            req[r].jti \in JTI /\ req[r].jti.pair \in held
      /\ pc[r] \in StoreSteps =>
            /\ req[r].pair \in minted \ held
            /\ Refresh(req[r].pair) \notin sessions \cup erased
      /\ pc[r] = "storeAccess" => Access(req[r].pair) \notin sessions \cup erased
      /\ req[r].goneAtStart # {} => req[r].jti \in erased

\* No two requests write the keys of the same pair.
UniqueWriter ==
    \A r, s \in Requests :
      pc[r] \in StoreSteps /\ pc[s] \in StoreSteps /\ r # s =>
        req[r].pair # req[s].pair

\* What Logout leaves behind: with no failed call both of its defences stand,
\* with one failed call at least one of them.
LogoutStore ==
    /\ faults = 0 => loggedOut \subseteq erased \cap (blacklist \cup expired)
    /\ faults <= 1 => loggedOut \subseteq erased \cup blacklist \cup expired

\* A logout past its first call has revoked the token, and a request that got a
\* logged-out token past the revocation list will not find its session.
LogoutRequest(r) ==
    /\ pc[r] \in LogoutSteps \ {"logoutBlacklist"} /\ faults = 0 =>
          req[r].jti \in blacklist \cup expired
    /\ req[r].outAtStart # {} => req[r].jti \in loggedOut
    /\ req[r].outAtStart # {} /\ faults <= 1 =>
          \/ pc[r] = "checkBlacklist"
          \/ req[r].jti \in expired
          \/ pc[r] = "checkSession" /\ req[r].jti \in erased

LogoutInv == LogoutStore /\ \A r \in Requests : LogoutRequest(r)

\* Before the account exists nobody has got past reading it.
AbsentInv ==
    account.status = "absent" =>
      /\ account.roles = {} /\ sessions = {} /\ held = {}
      /\ \A r \in Requests : pc[r] \in {"idle", "findUser", "insertUser"}

\* Which operations the steps that write the account belong to.
Writers == {"changePassword", "assignRole", "removeRole", "updateUser"}
SyncSteps == {"syncRead", "syncRoles"}

StepOps(r) ==
    /\ pc[r] \in CheckSteps => req[r].op \in TokenOps
    /\ pc[r] \in {"findUser", "findRoles"} =>
          req[r].op \in UserOps \cup {"changePassword", "refresh"}
    /\ pc[r] = "insertUser" => req[r].op = "register"
    /\ pc[r] = "updateRow" => req[r].op \in Writers
    /\ pc[r] \in SyncSteps => req[r].op \in Writers \cup {"register"}

\* What a request knows of the account and of the sessions between two of its
\* calls, when nobody else touches them and no call fails.
Current == [password |-> account.password, roles |-> account.roles]

Informed(r) ==
    /\ pc[r] = "findRoles" => req[r].user.password = account.password
    /\ pc[r] = "updateRow" =>
          /\ req[r].op # "changePassword" => req[r].user.password = account.password
          /\ req[r].op \in {"changePassword", "updateUser"} => req[r].user.roles = account.roles
    /\ pc[r] \in SyncSteps =>
          /\ req[r].user.password = account.password
          /\ req[r].op \in {"changePassword", "updateUser"} => req[r].user.roles = account.roles
          /\ req[r].op = "register" => sessions = {}
    /\ pc[r] = "syncRoles" => req[r].existing = account.roles
    /\ pc[r] = "mint" => req[r].user = Current
    /\ pc[r] \in StoreSteps => grant[req[r].pair] = Current
    /\ pc[r] = "scanning" => sessions \subseteq req[r].todo

\* The account has changed and the bulk invalidation is still to end.
Unsettled(r) ==
    pc[r] \in {"scan", "scanning"} \/ (pc[r] \in SyncSteps /\ req[r].op \in Invalidating)

CurrentInv ==
    /\ AbsentInv
    /\ \A r \in Requests : StepOps(r)
    /\ faults = 0 /\ account.status = "active" =>
          /\ \A r \in Requests : Informed(r)
          /\ (\A r \in Requests : ~Unsettled(r)) => \A j \in Live : grant[j.pair] = Current

\* One request at a time.
Solo == \E r \in Requests : Requests = {r}

IInv == /\ TypeOK /\ StoreInv /\ RequestInv /\ UniqueWriter
        /\ NoResurrection /\ InvalidatedNeverAccepted

-----------------------------------------------------------------------------
(* Refinement                                                               *)

\* A token whose session key was ever written is live while every check accepts
\* it and dead while one refuses it, as the keys in Redis stand now.
life == [j \in JTI |-> IF j \in Live THEN "live"
                       ELSE IF j \in sessions \cup erased THEN "dead" ELSE "unissued"]

Lifecycle == INSTANCE TokenLifecycle WITH Tokens <- JTI, life <- life

\* A token the checks have begun to refuse they refuse for good: whichever of
\* its session key, its entry in the revocation list and its exp claim goes
\* first, the others go in no order that would let it through again.
TokensNeverRevive == Lifecycle!Spec
=============================================================================
