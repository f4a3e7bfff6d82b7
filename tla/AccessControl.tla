--------------------------- MODULE AccessControl ---------------------------
(***************************************************************************)
(* The way of a REST request through the guards, up to its use case: the   *)
(* router's middlewares decide over the claims of the token, TaskHandler   *)
(* and UserHandler over the acl_entries of the task or user it names, with *)
(* acl.Checker.CanAccess, which asks the database once or twice for the    *)
(* user and for each of the roles in the token, one statement at a time.   *)
(* Entries are granted and revoked meanwhile (GrantAccess, RevokeAccess,   *)
(* RevokeAllAccess).                                                       *)
(*                                                                         *)
(* The requests are those of one user about one resource; the token was    *)
(* found valid (AuthSessions).  A malformed id or body is a choice.        *)
(* Bounds: Ids, the entries ever granted; MaxFaults failed statements.     *)
(***************************************************************************)
EXTENDS Naturals, Sequences

CONSTANTS
    Requests, Ids,
    User,               \* the user the claims name
    Roles,              \* role ids
    RoleLists,          \* the sequences of role ids a token may carry
    Names,              \* the sets of role names a token may carry
    Claimed,            \* the sets of permissions a token may carry
    MaxFaults, None

ASSUME AccessControlAssumption ==
    /\ RoleLists \subseteq Seq(Roles)
    /\ MaxFaults \in Nat
    /\ User \notin Roles /\ None \notin Roles \cup {User}

-----------------------------------------------------------------------------
(* What each route asks for *)

Permissions == {"read", "write", "delete", "admin"}

Acl(permission) == [kind |-> "acl", permission |-> permission]
Rbac(resource, action) == [kind |-> "rbac", resource |-> resource, action |-> action]
AnyRole(names) == [kind |-> "role", names |-> names]
Token == [kind |-> "token"]

TaskHandler ==
    [getTask |-> Acl("read"), updateTask |-> Acl("write"), deleteTask |-> Acl("delete"),
     assignTask |-> Acl("write"), unassignTask |-> Acl("write"),
     completeTask |-> Acl("write"), archiveTask |-> Acl("write"),
     changeStatus |-> Acl("write"), addLabel |-> Acl("write"), removeLabel |-> Acl("write"),
     uploadAttachment |-> Acl("write"), deleteAttachment |-> Acl("write"),
     listAttachments |-> Acl("read"), downloadAttachment |-> Acl("read")]
UserHandler ==
    [getUser |-> Acl("read"), updateUser |-> Acl("write"), deleteUser |-> Acl("delete")]
RegisterRoutes ==
    [createTask |-> Rbac("tasks", "create"), listUsers |-> Rbac("users", "read"),
     assignRole |-> Rbac("users", "update"), removeRole |-> Rbac("users", "update"),
     createLabel |-> AnyRole({"admin", "manager"}),
     updateLabel |-> AnyRole({"admin", "manager"}),
     deleteLabel |-> AnyRole({"admin", "manager"}),
     listTasks |-> Token, searchTasks |-> Token, overdueTasks |-> Token,
     listLabels |-> Token, getLabel |-> Token, me |-> Token]

Operations == DOMAIN TaskHandler \cup DOMAIN UserHandler \cup DOMAIN RegisterRoutes
Guard(op) ==
    IF op \in DOMAIN TaskHandler THEN TaskHandler[op]
    ELSE IF op \in DOMAIN UserHandler THEN UserHandler[op]
    ELSE RegisterRoutes[op]

-----------------------------------------------------------------------------
(* rbac.Authorizer: decisions over the claims alone *)

Perm(resource, action) == [resource |-> resource, action |-> action]
All(action, resources) == {Perm(r, action) : r \in resources}
On(resource, actions) == {Perm(resource, a) : a \in actions}

\* A mutant: the manager's list without the permission to create tasks.
MutRolePermissions ==
    [admin |-> All("*", {"tasks", "users", "roles", "permissions", "labels"}),
     manager |-> On("tasks", {"read", "update", "delete", "assign"})
                 \cup {Perm("users", "read"), Perm("labels", "*")},
     member |-> On("tasks", {"create", "read", "update"}) \cup {Perm("labels", "read")},
     viewer |-> All("read", {"tasks", "users", "labels"})]

\* defaultRolePermissions.
RolePermissions ==
    [admin |-> All("*", {"tasks", "users", "roles", "permissions", "labels"}),
     manager |-> On("tasks", {"create", "read", "update", "delete", "assign"})
                 \cup {Perm("users", "read"), Perm("labels", "*")},
     member |-> On("tasks", {"create", "read", "update"}) \cup {Perm("labels", "read")},
     viewer |-> All("read", {"tasks", "users", "labels"})]

MatchPermission(p, resource, action) ==
    p.resource \in {"*", resource} /\ p.action \in {"*", action}

HasPermissionFromClaims(names, permissions, resource, action) ==
    \/ \E p \in permissions : MatchPermission(p, resource, action)
    \/ \E n \in names \cap DOMAIN RolePermissions :
          \E p \in RolePermissions[n] : MatchPermission(p, resource, action)

-----------------------------------------------------------------------------
VARIABLES
    entries,  \* acl_entries of the resource
    drawn,    \* entry ids that were drawn
    pc, req,
    faults,
    standing, \* history: the entries that stood all through a request and grant it
    granted   \* history: did some entry grant it at any time?

vars == <<entries, drawn, pc, req, faults, standing, granted>>

Entry == [id : Ids, subject : Roles \cup {User}, permission : Permissions]
Request == [op : Operations, roles : RoleLists, names : Names, claims : Claimed, at : Nat]
Done == {"served", "badRequest", "forbidden", "failed"}

ASSUME NoneAssumption == None \notin Request

TypeOK ==
    /\ entries \subseteq Entry /\ drawn \subseteq Ids
    /\ \A e, f \in entries : e.id = f.id => e = f
    /\ pc \in [Requests -> {"idle", "guard", "useCase"} \cup Done]
    /\ req \in [Requests -> Request \cup {None}]
    /\ \A r \in Requests : req[r] = None <=> pc[r] = "idle"
    /\ faults \in 0..MaxFaults
    /\ standing \in [Requests -> SUBSET Entry] /\ granted \in [Requests -> BOOLEAN]

Init ==
    /\ entries = {} /\ drawn = {}
    /\ pc = [r \in Requests |-> "idle"] /\ req = [r \in Requests |-> None]
    /\ faults = 0
    /\ standing = [r \in Requests |-> {}] /\ granted = [r \in Requests |-> FALSE]

\* ACLEntry.Matches: an entry of admin grants everything.
Matches(e, subject, permission) ==
    e.subject = subject /\ e.permission \in {permission, "admin"}

Subjects(q) == {User} \cup {q.roles[i] : i \in 1..Len(q.roles)}
Grants(e, q) == \E s \in Subjects(q) : Matches(e, s, Guard(q.op).permission)

Guarded(r) == pc[r] = "guard" /\ Guard(req[r].op).kind = "acl"

\* History: the entries become es.
Entries(es) ==
    /\ entries' = es
    /\ standing' = [r \in Requests |-> standing[r] \cap es]
    /\ granted' = [r \in Requests |-> granted[r] \/ (Guarded(r) /\ \E e \in es : Grants(e, req[r]))]

\* Save: one entry for a subject and a permission, by the unique constraint.
GrantAccess(subject, permission) ==
    /\ \A e \in entries : e.subject # subject \/ e.permission # permission
    /\ \E i \in Ids \ drawn :
          /\ drawn' = drawn \cup {i}
          /\ Entries(entries \cup {[id |-> i, subject |-> subject, permission |-> permission]})
    /\ UNCHANGED <<pc, req, faults>>
RevokeAccess(i) ==
    /\ \E e \in entries : e.id = i
    /\ Entries({e \in entries : e.id # i})
    /\ UNCHANGED <<drawn, pc, req, faults>>
RevokeAllAccess ==
    /\ entries # {} /\ Entries({})
    /\ UNCHANGED <<drawn, pc, req, faults>>

\* A request with a valid token arrives; the ids in its path may be malformed.
Arrive(r) ==
    /\ pc[r] = "idle"
    /\ \E op \in Operations, roles \in RoleLists, names \in Names, claims \in Claimed :
          LET q == [op |-> op, roles |-> roles, names |-> names, claims |-> claims, at |-> 1]
              acl == Guard(op).kind = "acl" IN
          /\ req' = [req EXCEPT ![r] = q]
          /\ \/ /\ pc' = [pc EXCEPT ![r] = "guard"]
                /\ standing' = [standing EXCEPT ![r] = {e \in entries : acl /\ Grants(e, q)}]
                /\ granted' = [granted EXCEPT ![r] = standing'[r] # {}]
             \/ /\ acl /\ pc' = [pc EXCEPT ![r] = "badRequest"]
                /\ UNCHANGED <<standing, granted>>
    /\ UNCHANGED <<entries, drawn, faults>>

\* RequirePermission, RequireAnyRole, or no guard but the token.
PassesClaims(q) ==
    LET guard == Guard(q.op) IN
    CASE guard.kind = "rbac" -> HasPermissionFromClaims(q.names, q.claims, guard.resource, guard.action)
      [] guard.kind = "role" -> q.names \cap guard.names # {}
      [] OTHER -> TRUE
Claims(r) ==
    /\ pc[r] = "guard" /\ ~Guarded(r)
    /\ pc' = [pc EXCEPT ![r] = IF PassesClaims(req[r]) THEN "useCase" ELSE "forbidden"]
    /\ UNCHANGED <<entries, drawn, req, faults, standing, granted>>

\* A mutant: the first role of the token is never asked about.
MutQueries(q) ==
    LET permission == Guard(q.op).permission
        subjects == IF q.roles = <<>> THEN <<User>> ELSE <<User>> \o Tail(q.roles) IN
    [i \in 1..(Len(subjects) * 2) |->
        [subject |-> subjects[((i - 1) \div 2) + 1],
         permission |-> IF i % 2 = 1 THEN permission ELSE "admin"]]

\* The statements CanAccess sends, in their order: for the user and for each
\* role the permission, then "admin" unless that was the permission.
Queries(q) ==
    LET permission == Guard(q.op).permission
        subjects == <<User>> \o q.roles
        each == IF permission = "admin" THEN <<permission>> ELSE <<permission, "admin">> IN
    [i \in 1..(Len(subjects) * Len(each)) |->
        [subject |-> subjects[((i - 1) \div Len(each)) + 1],
         permission |-> each[((i - 1) % Len(each)) + 1]]]

\* A mutant: the statement without its condition on the subject.
MutHasPermission(subject, permission) ==
    \E e \in entries : e.permission \in {permission, "admin"}

\* HasPermission: one statement, which takes an "admin" entry for any permission.
HasPermission(subject, permission) ==
    \E e \in entries : e.subject = subject /\ e.permission \in {permission, "admin"}

CanAccess(r) ==
    /\ Guarded(r)
    /\ LET q == req[r]
           query == Queries(q)[q.at]
           found == HasPermission(query.subject, query.permission) IN
          \/ /\ found /\ pc' = [pc EXCEPT ![r] = "useCase"] /\ UNCHANGED <<req, faults>>
          \/ /\ ~found /\ q.at < Len(Queries(q))
             /\ req' = [req EXCEPT ![r].at = @ + 1] /\ UNCHANGED <<pc, faults>>
          \/ /\ ~found /\ q.at = Len(Queries(q))
             /\ pc' = [pc EXCEPT ![r] = "forbidden"] /\ UNCHANGED <<req, faults>>
          \/ /\ faults < MaxFaults /\ faults' = faults + 1
             /\ pc' = [pc EXCEPT ![r] = "failed"] /\ UNCHANGED req
    /\ UNCHANGED <<entries, drawn, standing, granted>>

\* The body is decoded, the use case runs; its errors are not told apart here.
UseCase(r) ==
    /\ pc[r] = "useCase"
    /\ \E end \in {"served", "badRequest"} : pc' = [pc EXCEPT ![r] = end]
    /\ UNCHANGED <<entries, drawn, req, faults, standing, granted>>

\* A mutant: the answered request is left behind.
MutAgain(r) ==
    /\ pc[r] \in Done
    /\ pc' = [pc EXCEPT ![r] = "idle"]
    /\ standing' = [standing EXCEPT ![r] = {}] /\ granted' = [granted EXCEPT ![r] = FALSE]
    /\ UNCHANGED <<entries, drawn, req, faults>>

\* The next request.
Again(r) ==
    /\ pc[r] \in Done
    /\ pc' = [pc EXCEPT ![r] = "idle"] /\ req' = [req EXCEPT ![r] = None]
    /\ standing' = [standing EXCEPT ![r] = {}] /\ granted' = [granted EXCEPT ![r] = FALSE]
    /\ UNCHANGED <<entries, drawn, faults>>

Next ==
    \/ \E r \in Requests : Arrive(r) \/ Claims(r) \/ CanAccess(r) \/ UseCase(r) \/ Again(r)
    \/ \E s \in Roles \cup {User}, p \in Permissions : GrantAccess(s, p)
    \/ \E i \in Ids : RevokeAccess(i)
    \/ RevokeAllAccess

Spec == Init /\ [][Next]_vars

-----------------------------------------------------------------------------
(* Properties *)

AclAnswer(r) == req[r] # None /\ Guard(req[r].op).kind = "acl"

\* A request about one task or user runs its use case only if, at some moment
\* while it was guarded, an entry granted it in the sense of ACLEntry.Matches;
\* in particular nothing runs that came after the last entry was revoked.
RunsOnlyIfGranted ==
    \A r \in Requests : AclAnswer(r) /\ pc[r] \in {"useCase", "served"} => granted[r]

\* A request is refused only if no single entry granted it all the time it was
\* guarded.  (It may be refused although there was an entry at every moment, when
\* the grant moved from a subject not asked about yet to one already asked about.)
StandingGrantIsHonoured ==
    \A r \in Requests : AclAnswer(r) /\ pc[r] = "forbidden" => standing[r] = {}

\* A role never loses a route its weaker one has: what a token passes it would
\* have passed had any one of its roles been the next stronger one, although
\* routes name permissions here and roles there.  defaultRolePermissions against
\* registerRoutes.
Stronger == [member |-> {"manager", "admin"}, manager |-> {"admin"}, viewer |-> {"admin"}, admin |-> {}]
StrongerRolePasses ==
    \A r \in Requests :
        req[r] # None /\ pc[r] \in {"useCase", "served"} =>
            \A n \in req[r].names \cap DOMAIN Stronger : \A m \in Stronger[n] :
                PassesClaims([req[r] EXCEPT !.names = (@ \ {n}) \cup {m}])

-----------------------------------------------------------------------------
(* The inductive invariant of the proofs *)

\* The statements a request sent so far do not find e.
Missed(e, q) ==
    \A i \in 1..(q.at - 1) :
        ~(e.subject = Queries(q)[i].subject /\ e.permission \in {Queries(q)[i].permission, "admin"})

\* While a request is guarded, the history knows of every entry that grants it,
\* and one that stood all the time is still to be asked about.
GuardInv ==
    /\ \A e \in entries : e.id \in drawn
    /\ \A r \in Requests : Guarded(r) =>
          /\ req[r].at \in 1..Len(Queries(req[r]))
          /\ (\E e \in entries : Grants(e, req[r])) => granted[r]
          /\ \A e \in standing[r] : e \in entries /\ Grants(e, req[r]) /\ Missed(e, req[r])

IInv == TypeOK /\ GuardInv /\ RunsOnlyIfGranted /\ StandingGrantIsHonoured

\* Nothing runs that the claims do not pass.
PassedInv ==
    \A r \in Requests : pc[r] \in {"useCase", "served"} => PassesClaims(req[r])
=============================================================================
