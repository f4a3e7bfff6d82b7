------------------------------ MODULE Accounts ------------------------------
(***************************************************************************)
(* User accounts and their cache: UserUseCase (create, update, delete,     *)
(* roles, the three reads), AuthUseCase.Register and ChangePassword, and   *)
(* UserRepository beneath them.  An account is cached under its id and     *)
(* under its e-mail address, and shows in list pages.  A write is a        *)
(* statement on users followed by statements on user_roles, without a      *)
(* transaction and without a version check; each statement and each cache  *)
(* call is a step.                                                         *)
(*                                                                         *)
(* Sessions are the subject of AuthSessions, tasks of Tasks.  Names stand  *)
(* for themselves as little as time stamps do: an update that changes no   *)
(* address is one that changes the name.  A call that fails has no effect. *)
(* Bounds: MaxOps requests, MaxFaults failed calls.                        *)
(***************************************************************************)
EXTENDS Naturals, Sequences

CONSTANTS
    Requests,
    Users,        \* user ids, drawn as accounts are created
    Emails,
    Passwords,
    Roles,
    DefaultRole,  \* defaultRegistrationRole
    MaxOps, MaxFaults,
    None

ASSUME AccountsAssumption ==
    /\ DefaultRole \in Roles
    /\ MaxOps \in Nat /\ MaxFaults \in Nat
    /\ None \notin Users \cup Emails \cup Passwords \cup Roles

VARIABLES
    row,      \* users
    roles,    \* user_roles
    cache,    \* app:user:{id}, app:user:email:{email}, one app:users:list:{hash}
    used,     \* ids that were drawn
    pc, req,
    ops, faults,
    wanted,   \* history: what the requests that were answered asked for
    broken,   \* history: accounts written over a newer picture, or half written
    excused   \* history: cache keys that may be stale, see CachesCoherent

vars == <<row, roles, cache, used, pc, req, ops, faults, wanted, broken, excused>>

-----------------------------------------------------------------------------
(* Data *)

Account == [email : Emails, pass : Passwords, roles : SUBSET Roles]

IdKey(u) == <<"id", u>>
EmailKey(e) == <<"email", e>>
ListKey == <<"list", None>>
Keys == {IdKey(u) : u \in Users} \cup {EmailKey(e) : e \in Emails} \cup {ListKey}

\* dto.UserFromEntity; a list page shows no roles, since FindAll loads none.
UserOutput(u, account) == [user |-> u, email |-> account.email, roles |-> account.roles]
ListEntry(u, account) == [user |-> u, email |-> account.email]

Stored == {u \in Users : row[u] # None}
StoredAccount(u) ==
    IF u \in Stored
    THEN [email |-> row[u].email, pass |-> row[u].pass, roles |-> roles[u]]
    ELSE None
Owner(e) == {u \in Stored : row[u].email = e}
Page == {ListEntry(u, row[u]) : u \in Stored}

\* What the database would answer for a key.
Truth(k) ==
    IF k = ListKey THEN Page
    ELSE LET us == IF k[1] = "id" THEN {k[2]} \cap Stored ELSE Owner(k[2]) IN
         IF us = {} THEN None
         ELSE LET u == CHOOSE u \in us : TRUE IN UserOutput(u, StoredAccount(u))

Creations == {"register", "createUser"}
RoleChanges == {"assignRole", "removeRole"}
Writes == Creations \cup RoleChanges \cup {"updateUser", "changePassword", "deleteUser"}
Reads == {"getUser", "getUserByEmail", "listUsers"}

ASSUME NoneAssumption ==
    None \notin Account \cup [email : Emails, pass : Passwords] \cup Writes \cup Reads

Request ==
    [op : Writes \cup Reads \cup {None},
     user : Users \cup {None}, email : Emails \cup {None},
     pass : Passwords \cup {None}, role : Roles \cup {None},
     ent : Account \cup {None},        \* the entity it loaded or made
     page : SUBSET [user : Users, email : Emails],
     rm : SUBSET Roles, add : SUBSET Roles,   \* role statements to come
     drops : Seq(Keys),                \* cache keys to delete, in order
     stale : BOOLEAN]                  \* history: did another write the account
                                       \* after the first read?

\* A request that starts, with its arguments.
Fresh(op, user, email, pass, role) ==
    [op |-> op, user |-> user, email |-> email, pass |-> pass, role |-> role,
     ent |-> None, page |-> {}, rm |-> {}, add |-> {}, drops |-> <<>>, stale |-> FALSE]

NoRequest == Fresh(None, None, None, None, None)

Steps == {"idle", "lookup", "findRow", "findRoles", "checkEmail", "findRole",
          "insertRow", "updateRow", "deleteRow", "syncRead", "syncWrite",
          "drop", "store"}

TypeOK ==
    /\ row \in [Users -> [email : Emails, pass : Passwords] \cup {None}]
    /\ roles \in [Users -> SUBSET Roles]
    /\ DOMAIN cache = Keys
    /\ used \subseteq Users
    /\ pc \in [Requests -> Steps]
    /\ req \in [Requests -> Request]
    /\ ops \in 0..MaxOps /\ faults \in 0..MaxFaults
    /\ wanted \in [Users -> Account \cup {None}]
    /\ broken \subseteq Users /\ excused \subseteq Keys

\* One account exists when the observation starts.
Init ==
    \E u \in Users, e \in Emails, p \in Passwords :
        LET account == [email |-> e, pass |-> p, roles |-> {DefaultRole}] IN
        /\ row = [v \in Users |-> IF v = u THEN [email |-> e, pass |-> p] ELSE None]
        /\ roles = [v \in Users |-> IF v = u THEN {DefaultRole} ELSE {}]
        /\ wanted = [v \in Users |-> IF v = u THEN account ELSE None]
        /\ cache = [k \in Keys |-> None]
        /\ used = {u}
        /\ pc = [r \in Requests |-> "idle"]
        /\ req = [r \in Requests |-> NoRequest]
        /\ ops = 0 /\ faults = 0
        /\ broken = {} /\ excused = {}

-----------------------------------------------------------------------------
(* Steps of a request *)

At(r, step) == pc[r] = step
Goto(r, step, q) == pc' = [pc EXCEPT ![r] = step] /\ req' = [req EXCEPT ![r] = q]
End(r) == Goto(r, "idle", NoRequest)

\* A statement or cache call that answers, or fails without effect.
Call(ok) ==
    \/ ok /\ UNCHANGED faults
    \/ ~ok /\ faults < MaxFaults /\ faults' = faults + 1

Begin(r) ==
    /\ At(r, "idle") /\ ops < MaxOps /\ ops' = ops + 1
    /\ \/ \E op \in Creations, e \in Emails, p \in Passwords :
              Goto(r, "checkEmail", Fresh(op, None, e, p, None))
       \/ \E u \in used, e \in Emails \cup {None} :   \* None: only the name
              Goto(r, "findRow", Fresh("updateUser", u, e, None, None))
       \/ \E u \in used, op \in RoleChanges, o \in Roles :
              Goto(r, "findRow", Fresh(op, u, None, None, o))
       \/ \E u \in used, p \in Passwords :
              Goto(r, "findRow", Fresh("changePassword", u, None, p, None))
       \/ \E u \in used :
              Goto(r, "findRow", Fresh("deleteUser", u, None, None, None))
       \/ \E u \in used :
              Goto(r, "lookup", Fresh("getUser", u, None, None, None))
       \/ \E e \in Emails :
              Goto(r, "lookup", Fresh("getUserByEmail", None, e, None, None))
       \/ Goto(r, "lookup", Fresh("listUsers", None, None, None, None))
    /\ UNCHANGED <<row, roles, cache, used, faults, wanted, broken, excused>>

ReadKey(r) ==
    CASE req[r].op = "getUser" -> IdKey(req[r].user)
      [] req[r].op = "getUserByEmail" -> EmailKey(req[r].email)
      [] OTHER -> ListKey

Lookup(r) ==
    /\ At(r, "lookup")
    /\ \E ok \in BOOLEAN :
          /\ Call(ok)
          /\ IF ok /\ cache[ReadKey(r)] # None THEN End(r) ELSE Goto(r, "findRow", req[r])
    /\ UNCHANGED <<row, roles, cache, used, ops, wanted, broken, excused>>

\* The users of FindByID and FindByEmail.
Found(r) == IF req[r].op = "getUserByEmail" THEN Owner(req[r].email) ELSE {req[r].user} \cap Stored

Loaded(q, u, x) ==
    [q EXCEPT !.user = u, !.ent = [email |-> x.email, pass |-> x.pass, roles |-> {}]]

\* FindByID, FindByEmail: the row, then its roles.
FindRow(r) ==
    /\ At(r, "findRow") /\ req[r].op # "listUsers"
    /\ \/ Call(TRUE) /\ \E u \in Found(r) :
             Goto(r, "findRoles", Loaded(req[r], u, row[u]))
       \/ Found(r) = {} /\ Call(TRUE) /\ End(r)    \* ErrUserNotFound
       \/ Call(FALSE) /\ End(r)
    /\ UNCHANGED <<row, roles, cache, used, ops, wanted, broken, excused>>

\* FindAll: the rows only.
FindAll(r) ==
    /\ At(r, "findRow") /\ req[r].op = "listUsers"
    /\ \/ Call(TRUE) /\ Goto(r, "store", [req[r] EXCEPT !.page = Page])
       \/ Call(FALSE) /\ End(r)
    /\ UNCHANGED <<row, roles, cache, used, ops, wanted, broken, excused>>

\* What follows FindByID in each use case.
AfterFind(q) ==
    CASE q.op \in Reads -> "store"
      [] q.op \in RoleChanges -> "findRole"
      [] q.op = "updateUser" -> IF q.email \in {None, q.ent.email} THEN "updateRow" ELSE "checkEmail"
      [] q.op = "changePassword" -> "updateRow"
      [] q.op = "deleteUser" -> "deleteRow"

FindRoles(r) ==
    /\ At(r, "findRoles")
    /\ LET q == [req[r] EXCEPT !.ent.roles = roles[req[r].user]] IN
          \/ Call(TRUE) /\ Goto(r, AfterFind(q), q)
          \/ Call(FALSE) /\ End(r)
          \* a wrong old password
          \/ q.op = "changePassword" /\ Call(TRUE) /\ End(r)
    /\ UNCHANGED <<row, roles, cache, used, ops, wanted, broken, excused>>

\* ExistsByEmail.
CheckEmail(r) ==
    /\ At(r, "checkEmail")
    /\ \/ /\ Owner(req[r].email) = {} /\ Call(TRUE)
          /\ Goto(r, CASE req[r].op = "register" -> "findRole"
                       [] req[r].op = "createUser" -> "insertRow"
                       [] OTHER -> "updateRow", req[r])
       \/ Owner(req[r].email) # {} /\ Call(TRUE) /\ End(r)
       \/ Call(FALSE) /\ End(r)
    /\ UNCHANGED <<row, roles, cache, used, ops, wanted, broken, excused>>

\* roleRepo.FindByName in Register, FindByID for the role changes.
FindRole(r) ==
    /\ At(r, "findRole")
    /\ \/ Call(TRUE) /\ Goto(r, IF req[r].op = "register" THEN "insertRow" ELSE "updateRow", req[r])
       \/ Call(FALSE) /\ End(r)
    /\ UNCHANGED <<row, roles, cache, used, ops, wanted, broken, excused>>

-----------------------------------------------------------------------------
(* Writes *)

\* A mutant: an update without an address writes the empty one.
MutEntity(q) ==
    CASE q.op = "register" -> [email |-> q.email, pass |-> q.pass, roles |-> {DefaultRole}]
      [] q.op = "createUser" -> [email |-> q.email, pass |-> q.pass, roles |-> {}]
      [] q.op = "updateUser" -> [q.ent EXCEPT !.email = q.email]
      [] q.op = "assignRole" -> [q.ent EXCEPT !.roles = @ \cup {q.role}]
      [] q.op = "removeRole" -> [q.ent EXCEPT !.roles = @ \ {q.role}]
      [] q.op = "changePassword" -> [q.ent EXCEPT !.pass = q.pass]

\* The entity a request saves.
Entity(q) ==
    CASE q.op = "register" -> [email |-> q.email, pass |-> q.pass, roles |-> {DefaultRole}]
      [] q.op = "createUser" -> [email |-> q.email, pass |-> q.pass, roles |-> {}]
      [] q.op = "updateUser" -> IF q.email = None THEN q.ent ELSE [q.ent EXCEPT !.email = q.email]
      [] q.op = "assignRole" -> [q.ent EXCEPT !.roles = @ \cup {q.role}]
      [] q.op = "removeRole" -> [q.ent EXCEPT !.roles = @ \ {q.role}]
      [] q.op = "changePassword" -> [q.ent EXCEPT !.pass = q.pass]

\* A mutant: only the address the account has now is deleted.
MutInvalidateUserCaches(u, oldEmail, newEmail) ==
    <<IdKey(u)>>
    \o (IF newEmail # None THEN <<EmailKey(newEmail)>>
        ELSE IF oldEmail # None THEN <<EmailKey(oldEmail)>> ELSE <<>>)
    \o <<ListKey>>

\* invalidateUserCaches: id, old address, new address, every list.
InvalidateUserCaches(u, oldEmail, newEmail) ==
    <<IdKey(u)>>
    \o (IF oldEmail # None THEN <<EmailKey(oldEmail)>> ELSE <<>>)
    \o (IF newEmail \notin {None, oldEmail} THEN <<EmailKey(newEmail)>> ELSE <<>>)
    \o <<ListKey>>

\* The keys a request deletes once it has written user u.
Drops(q, u) ==
    CASE q.op \in {"register", "changePassword"} -> <<>>
      [] q.op = "createUser" -> InvalidateUserCaches(u, None, q.email)
      [] q.op = "deleteUser" -> InvalidateUserCaches(u, q.ent.email, None)
      [] OTHER -> InvalidateUserCaches(u, q.ent.email, Entity(q).email)

KeysIn(drops) == {drops[i] : i \in 1..Len(drops)}

\* History: r writes account u, and goes on as request q.  The others that hold
\* a picture of u and still have to write it hold an older one from here.
Writing(r, u, step, q) ==
    /\ pc' = [pc EXCEPT ![r] = step]
    /\ req' = [s \in Requests |->
                 IF s = r THEN q
                 ELSE IF req[s].user = u /\ req[s].op \in Writes /\ req[s].ent # None
                         /\ pc[s] # "drop"
                      THEN [req[s] EXCEPT !.stale = TRUE]
                 ELSE req[s]]

\* History: the keys a write statement of q touches and q will not delete.
Unannounced(q, u) ==
    ((IF q.op = "register" THEN {IdKey(u), EmailKey(q.email), ListKey} ELSE {})
     \cup (IF q.stale THEN {IdKey(u), ListKey} \cup {EmailKey(e) : e \in Emails} ELSE {}))
    \ KeysIn(Drops(q, u))

\* History: what u's account should be when q is done with it.
Asked(q, u) ==
    IF q.op \in Creations THEN Entity(q)
    ELSE IF wanted[u] = None \/ q.op = "deleteUser" THEN None
    ELSE Entity([q EXCEPT !.ent = wanted[u]])

\* Save's first statement; a taken address is refused by the unique index.
InsertRow(r) ==
    /\ At(r, "insertRow")
    /\ \/ \E u \in Users \ used :
             LET q == [req[r] EXCEPT !.user = u, !.ent = Entity(req[r])] IN
             /\ Owner(q.email) = {} /\ Call(TRUE)
             /\ row' = [row EXCEPT ![u] = [email |-> q.email, pass |-> q.pass]]
             /\ used' = used \cup {u}
             /\ Goto(r, "syncRead", [q EXCEPT !.drops = Drops(q, u)])
             /\ excused' = excused \cup Unannounced(q, u)
       \/ /\ Owner(req[r].email) # {} /\ Call(TRUE) /\ End(r)
          /\ UNCHANGED <<row, used, excused>>
       \/ Call(FALSE) /\ End(r) /\ UNCHANGED <<row, used, excused>>
    /\ UNCHANGED <<roles, cache, ops, wanted, broken>>

\* Update's first statement writes every column of the entity; no row and a
\* taken address are errors.
UpdateRow(r) ==
    /\ At(r, "updateRow")
    /\ LET u == req[r].user
           q == [req[r] EXCEPT !.ent = Entity(req[r]), !.drops = Drops(req[r], u)]
           possible == u \in Stored /\ Owner(q.ent.email) \subseteq {u} IN
          \/ /\ possible /\ Call(TRUE)
             /\ row' = [row EXCEPT ![u] = [email |-> q.ent.email, pass |-> q.ent.pass]]
             /\ Writing(r, u, "syncRead", q)
             /\ excused' = excused \cup Unannounced(req[r], u)
          \/ ~possible /\ Call(TRUE) /\ End(r) /\ UNCHANGED <<row, excused>>
          \/ Call(FALSE) /\ End(r) /\ UNCHANGED <<row, excused>>
    /\ UNCHANGED <<roles, cache, used, ops, wanted, broken>>

\* DELETE FROM users, which takes the user's roles along.
DeleteRow(r) ==
    /\ At(r, "deleteRow")
    /\ LET u == req[r].user IN
          \/ /\ Call(TRUE)
             /\ row' = [row EXCEPT ![u] = None] /\ roles' = [roles EXCEPT ![u] = {}]
             /\ Writing(r, u, "drop", [req[r] EXCEPT !.drops = Drops(req[r], u)])
             /\ wanted' = [wanted EXCEPT ![u] = None]
             /\ excused' = excused \cup Unannounced(req[r], u)
          \/ Call(FALSE) /\ End(r) /\ UNCHANGED <<row, roles, wanted, excused>>
    /\ UNCHANGED <<cache, used, ops, broken>>

\* After the last statement: the deletions, and the history of the account.
Written(r, q) ==
    /\ wanted' = [wanted EXCEPT ![q.user] = Asked(q, q.user)]
    /\ broken' = IF q.stale THEN broken \cup {q.user} ELSE broken
NextStep(q) == IF q.rm \cup q.add # {} THEN "syncWrite" ELSE IF q.drops # <<>> THEN "drop" ELSE "idle"
Rest(q) == IF NextStep(q) = "idle" THEN NoRequest ELSE q

\* A statement of syncUserRoles fails: the request ends with an error, the row
\* stays written, and nothing is deleted from the cache.
SyncFails(r) ==
    /\ End(r)
    /\ broken' = broken \cup {req[r].user}
    /\ excused' = excused \cup KeysIn(req[r].drops)
    /\ UNCHANGED <<roles, wanted>>

\* A mutant: roles are added and never removed.
MutSyncRead(r) ==
    /\ At(r, "syncRead")
    /\ LET q == [req[r] EXCEPT !.add = req[r].ent.roles \ roles[req[r].user]] IN
          \/ /\ Call(TRUE) /\ Goto(r, NextStep(q), Rest(q))
             /\ IF q.add = {} THEN Written(r, q) ELSE UNCHANGED <<wanted, broken>>
             /\ UNCHANGED <<roles, excused>>
          \/ Call(FALSE) /\ SyncFails(r)
    /\ UNCHANGED <<row, cache, used, ops>>

\* syncUserRoles reads the roles the user has and compares.
SyncRead(r) ==
    /\ At(r, "syncRead")
    /\ LET had == roles[req[r].user]
           q == [req[r] EXCEPT !.rm = had \ req[r].ent.roles, !.add = req[r].ent.roles \ had] IN
          \/ /\ Call(TRUE) /\ Goto(r, NextStep(q), Rest(q))
             /\ IF q.rm \cup q.add = {} THEN Written(r, q) ELSE UNCHANGED <<wanted, broken>>
             /\ UNCHANGED <<roles, excused>>
          \/ Call(FALSE) /\ SyncFails(r)
    /\ UNCHANGED <<row, cache, used, ops>>

\* One statement: the removals, then the additions; an addition for a user
\* deleted meanwhile violates the foreign key.
SyncWrite(r) ==
    /\ At(r, "syncWrite")
    /\ LET u == req[r].user
           Did(q, rs) ==
               /\ Call(TRUE) /\ roles' = [roles EXCEPT ![u] = rs]
               /\ Writing(r, u, NextStep(q), Rest(q))
               /\ excused' = excused \cup Unannounced(req[r], u)
               /\ IF q.rm \cup q.add = {} THEN Written(r, q) ELSE UNCHANGED <<wanted, broken>> IN
          \/ \E o \in req[r].rm : Did([req[r] EXCEPT !.rm = @ \ {o}], roles[u] \ {o})
          \/ /\ req[r].rm = {} /\ u \in Stored
             /\ \E o \in req[r].add : Did([req[r] EXCEPT !.add = @ \ {o}], roles[u] \cup {o})
          \/ req[r].rm = {} /\ u \notin Stored /\ Call(TRUE) /\ SyncFails(r)
          \/ Call(FALSE) /\ SyncFails(r)
    /\ UNCHANGED <<row, cache, used, ops>>

-----------------------------------------------------------------------------
(* Cache *)

Drop(r) ==
    /\ At(r, "drop")
    /\ LET k == Head(req[r].drops)
           q == [req[r] EXCEPT !.drops = Tail(@)] IN
          /\ Goto(r, NextStep(q), Rest(q))
          /\ \/ Call(TRUE) /\ cache' = [cache EXCEPT ![k] = None] /\ excused' = excused \ {k}
             \/ Call(FALSE) /\ UNCHANGED cache /\ excused' = excused \cup {k}
    /\ UNCHANGED <<row, roles, used, ops, wanted, broken>>

\* A read stores its answer, however old the rows it was made of.
Store(r) ==
    /\ At(r, "store")
    /\ LET k == ReadKey(r)
           answer == IF k = ListKey THEN req[r].page ELSE UserOutput(req[r].user, req[r].ent) IN
          /\ End(r)
          /\ \/ /\ Call(TRUE) /\ cache' = [cache EXCEPT ![k] = answer]
                /\ excused' = IF answer = Truth(k) THEN excused \ {k} ELSE excused \cup {k}
             \/ Call(FALSE) /\ UNCHANGED <<cache, excused>>
    /\ UNCHANGED <<row, roles, used, ops, wanted, broken>>

\* Five minutes for an account, two for a list.
Expire(k) ==
    /\ cache[k] # None
    /\ cache' = [cache EXCEPT ![k] = None] /\ excused' = excused \ {k}
    /\ UNCHANGED <<row, roles, used, pc, req, ops, faults, wanted, broken>>

Next ==
    \/ \E r \in Requests :
          \/ Begin(r) \/ Lookup(r) \/ FindRow(r) \/ FindAll(r) \/ FindRoles(r)
          \/ CheckEmail(r) \/ FindRole(r) \/ InsertRow(r) \/ UpdateRow(r) \/ DeleteRow(r)
          \/ SyncRead(r) \/ SyncWrite(r) \/ Drop(r) \/ Store(r)
    \/ \E k \in Keys : Expire(k)

Spec == Init /\ [][Next]_vars

-----------------------------------------------------------------------------
(* Properties *)

\* A cached account, cached address or list page is what the database would
\* answer, unless a request is about to delete the key or one of the known holes
\* was met: an answer stored after the rows changed, a deletion that failed, a
\* write given up half way, a write over a newer picture, and Register, which
\* deletes nothing.  invalidateUserCaches in every other write.
CachesCoherent ==
    \A k \in Keys :
        \/ cache[k] \in {None, Truth(k)}
        \/ k \in excused
        \/ \E r \in Requests : k \in KeysIn(req[r].drops)

\* The account stored is the one the requests asked for, taken in the order they
\* wrote: what is lost is lost to a request that wrote over a newer picture of
\* the account or gave up between the row and its roles.  Save, Update,
\* syncUserRoles and the use cases that call them.
AccountsAsAsked ==
    \A u \in Users :
        \/ StoredAccount(u) = wanted[u]
        \/ u \in broken
        \/ \E r \in Requests : req[r].user = u /\ pc[r] \in {"syncRead", "syncWrite"}

-----------------------------------------------------------------------------
(* The inductive invariant of the proofs of TypeOK and AccountsAsAsked *)

Loads == Writes \ Creations   \* the writes that first load the account
Syncs == {"syncRead", "syncWrite"}

\* What a request was asked.
Asks(q) ==
    /\ q.user \in used \cup {None}
    /\ q.op \in Loads \cup {"getUser"} => q.user \in used
    /\ q.op \in Creations => q.email \in Emails /\ q.pass \in Passwords
    /\ q.op \in RoleChanges => q.role \in Roles
    /\ q.op = "changePassword" => q.pass \in Passwords
    /\ q.op = "getUserByEmail" => q.email \in Emails

\* What it knows by the step it is at.
Knows(step, q) ==
    /\ Asks(q)
    /\ step # "syncWrite" => q.rm = {} /\ q.add = {}
    /\ step = "idle" => q = NoRequest
    /\ step = "lookup" => q.op \in Reads
    /\ step = "findRow" => q.op \in Reads \cup Loads
    /\ step = "findRoles" => q.op \in (Reads \ {"listUsers"}) \cup Loads /\ q.ent # None /\ q.user # None
    /\ step = "checkEmail" => q.op \in Creations \cup {"updateUser"} /\ q.email \in Emails
    /\ step = "findRole" => q.op \in RoleChanges \cup {"register"}
    /\ step = "insertRow" => q.op \in Creations
    /\ step = "updateRow" => q.op \in Loads \ {"deleteUser"}
    /\ step = "deleteRow" => q.op = "deleteUser"
    /\ step = "store" => q.op \in Reads /\ (q.op # "listUsers" => q.ent # None /\ q.user # None)
    /\ step \in Syncs => q.op \in Writes \ {"deleteUser"} /\ q.ent # None /\ q.user # None
    /\ step \in {"checkEmail", "findRole", "updateRow", "deleteRow"} /\ q.op \in Loads => q.ent # None
    /\ step = "drop" => q.drops # <<>>

\* What an entity that no one wrote over is worth: it is the account that is
\* stored, or its row while its roles are still to be read.
Picture(step, q) ==
    q.op \in Loads /\ ~q.stale =>
        /\ step = "findRoles" =>
              q.user \in Stored /\ q.ent.email = row[q.user].email /\ q.ent.pass = row[q.user].pass
        /\ step \in {"checkEmail", "findRole", "updateRow", "deleteRow"} =>
              q.ent = StoredAccount(q.user)

Syncing(u) == {r \in Requests : req[r].user = u /\ pc[r] \in Syncs}

\* The stored account is on its way to the one that q saves at this step, and
\* that one is what was asked for.
OnItsWay(step, q, u) ==
    /\ u \in Stored /\ row[u].email = q.ent.email /\ row[u].pass = q.ent.pass
    /\ q.ent = Asked(q, u)
    /\ step = "syncWrite" =>
          /\ q.rm \cap q.ent.roles = {} /\ q.add \subseteq q.ent.roles
          /\ roles[u] = (q.ent.roles \cup q.rm) \ q.add

\* Of the requests that write an account at the same time all but one are stale,
\* and an account that is not broken is as asked, or on its way.
AccountInv(u) ==
    /\ u \in Stored => u \in used
    /\ \A r, s \in Syncing(u) : r = s \/ req[r].stale \/ req[s].stale
    /\ u \notin broken =>
          /\ Syncing(u) = {} => StoredAccount(u) = wanted[u]
          /\ \A r \in Requests :
                Syncing(u) = {r} /\ ~req[r].stale => OnItsWay(pc[r], req[r], u)

\* What the keys a request has yet to delete are good for: it has none before it
\* writes, they cover the account it saves, and the account it writes roles of is
\* that one unless somebody wrote over it.
Announces(step, q) ==
    /\ step \notin Syncs \cup {"drop"} => q.drops = <<>>
    /\ step \in Syncs =>
          /\ q.op \in Creations \cup {"updateUser"} => q.email \in {None, q.ent.email}
          /\ q.op \notin {"register", "changePassword"} =>
                {IdKey(q.user), EmailKey(q.ent.email), ListKey} \subseteq KeysIn(q.drops)
    /\ step \in Syncs /\ ~q.stale =>
          /\ q.user \in Stored /\ row[q.user].email = q.ent.email
          /\ q.op = "changePassword" => step = "syncRead" /\ roles[q.user] = q.ent.roles

CacheInv == CachesCoherent /\ \A r \in Requests : Announces(pc[r], req[r])

IInv ==
    /\ TypeOK
    /\ \A r \in Requests : Knows(pc[r], req[r]) /\ Picture(pc[r], req[r])
    /\ \A u \in Users : AccountInv(u)
=============================================================================
