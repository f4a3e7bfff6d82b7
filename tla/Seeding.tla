------------------------------ MODULE Seeding ------------------------------
(***************************************************************************)
(* SeedSystemRoles, which every server runs in one transaction before it   *)
(* serves, on a PostgreSQL database at READ COMMITTED: the roles the code  *)
(* no longer defines are deleted, and each role it defines is looked up,   *)
(* cleared of its permissions, and saved with the permissions it should    *)
(* have.  Servers start side by side, fail, and start again; servers that  *)
(* serve give roles to users and take them back meanwhile.                 *)
(*                                                                         *)
(* A role keeps here what hangs on its row: role_permissions and           *)
(* user_roles.  A statement waits for the transaction that wrote the row   *)
(* before it.  Rows of permissions are not kept: all seeders write them in *)
(* one order, and behind the row of the role.                              *)
(* Bounds: MaxFaults failed statements or crashes, MaxStarts starts.       *)
(***************************************************************************)
EXTENDS Naturals, Sequences

CONSTANTS
    Servers, Users, Permissions,
    Order,       \* desiredRoles, the names in their order
    Desired,     \* the permissions of each
    Obsolete,    \* names the code defined once
    MaxFaults, MaxStarts,
    None

DesiredNames == {Order[i] : i \in 1..Len(Order)}
Names == DesiredNames \cup Obsolete

ASSUME SeedingAssumption ==
    /\ Order \in Seq(DesiredNames) \ {<<>>} /\ DesiredNames \cap Obsolete = {}
    /\ \A i, j \in 1..Len(Order) : Order[i] = Order[j] => i = j
    /\ Desired \in [DesiredNames -> SUBSET Permissions]
    /\ MaxFaults \in Nat /\ MaxStarts \in Nat
    /\ None \notin Servers

VARIABLES
    role,     \* the newest version of each role's row
    owner,    \* the server whose open transaction wrote it
    before,   \* the committed version, while there is an owner
    pc, at,   \* where each server is, and at which desired role
    ent,      \* the id of the role entity a server works on
    todo,     \* permissions it has still to add
    doomed,   \* names FindAll showed it and the code does not define
    faults, starts

vars == <<role, owner, before, pc, at, ent, todo, doomed, faults, starts>>

\* A role id is drawn by the server that creates the role; None created the
\* ones that were there before.
Ids == Servers \cup {None}
Row == [id : Ids, perms : SUBSET Permissions, users : SUBSET Users]
Gone == [id |-> None, perms |-> {}, users |-> {}, gone |-> TRUE]

Steps == {"findAll", "delete", "find", "clear", "clearing", "upsert", "add",
          "commit", "serving", "exited"}

TypeOK ==
    /\ role \in [Names -> Row \cup {Gone}] /\ before \in [Names -> Row \cup {Gone}]
    /\ owner \in [Names -> Servers \cup {None}]
    /\ pc \in [Servers -> Steps] /\ at \in [Servers -> 1..Len(Order)]
    /\ ent \in [Servers -> Ids] /\ todo \in [Servers -> SUBSET Permissions]
    /\ doomed \in [Servers -> SUBSET Obsolete]
    /\ faults \in 0..MaxFaults /\ starts \in 0..MaxStarts

\* A database that was seeded never, or by an older version, or only in part by hand.
Init ==
    /\ role \in [Names -> [id : {None}, perms : SUBSET Permissions, users : SUBSET Users] \cup {Gone}]
    /\ before = role
    /\ owner = [n \in Names |-> None]
    /\ pc = [s \in Servers |-> "findAll"] /\ at = [s \in Servers |-> 1]
    /\ ent = [s \in Servers |-> None] /\ todo = [s \in Servers |-> {}]
    /\ doomed = [s \in Servers |-> {}]
    /\ faults = 0 /\ starts = 0

-----------------------------------------------------------------------------
(* The database *)

\* What a statement of server s sees of a row, and what everyone else sees.
Committed(n) == IF owner[n] = None THEN role[n] ELSE before[n]
Seen(s, n) == IF owner[n] = s THEN role[n] ELSE Committed(n)

\* A write goes ahead when no other open transaction wrote the row.
Free(s, n) == owner[n] \in {None, s}

\* s writes rows, a function of names.
Write(s, rows) ==
    /\ role' = [n \in Names |-> IF n \in DOMAIN rows THEN rows[n] ELSE role[n]]
    /\ before' = [n \in Names |-> IF n \in DOMAIN rows /\ owner[n] = None THEN role[n] ELSE before[n]]
    /\ owner' = [n \in Names |-> IF n \in DOMAIN rows THEN s ELSE owner[n]]

Mine(s) == {n \in Names : owner[n] = s}

\* The end of a transaction.  A DELETE that waited for it finds its rows gone
\* after a commit, and does not see the new ones; after a rollback it goes on.
Commit(s) ==
    /\ owner' = [n \in Names |-> IF n \in Mine(s) THEN None ELSE owner[n]]
    /\ before' = [n \in Names |-> IF n \in Mine(s) THEN role[n] ELSE before[n]]
    /\ UNCHANGED role
\* A mutant: an error returns without the rollback.
MutRollback(s) == UNCHANGED <<role, owner, before>>
Rollback(s) ==
    /\ owner' = [n \in Names |-> IF n \in Mine(s) THEN None ELSE owner[n]]
    /\ role' = [n \in Names |-> IF n \in Mine(s) THEN before[n] ELSE role[n]]
    /\ UNCHANGED before

Waiting(s, n) == pc[s] = "clearing" /\ Order[at[s]] = n
EndWith(s, step, next) ==
    pc' = [t \in Servers |->
             IF t = s THEN step
             ELSE IF \E n \in Mine(s) : Waiting(t, n) THEN next
             ELSE pc[t]]

-----------------------------------------------------------------------------
(* SeedSystemRoles *)

\* A mutant: the roles in the order of a Go map, another one in each process.
MutName(s) == Order[IF s = CHOOSE t \in Servers : TRUE THEN at[s] ELSE Len(Order) + 1 - at[s]]

Name(s) == Order[at[s]]
Goto(s, step) == pc' = [pc EXCEPT ![s] = step]

\* A mutant: every role that is there is deleted and made again.
MutFindAll(s) ==
    /\ pc[s] = "findAll"
    /\ doomed' = [doomed EXCEPT ![s] = {n \in Names : Seen(s, n) # Gone}]
    /\ Goto(s, IF doomed'[s] = {} THEN "find" ELSE "delete")
    /\ UNCHANGED <<role, owner, before, at, ent, todo, faults, starts>>

FindAll(s) ==
    /\ pc[s] = "findAll"
    /\ doomed' = [doomed EXCEPT ![s] = {n \in Obsolete : Seen(s, n) # Gone}]
    /\ Goto(s, IF doomed'[s] = {} THEN "find" ELSE "delete")
    /\ UNCHANGED <<role, owner, before, at, ent, todo, faults, starts>>

\* DeleteByNames; user_roles and role_permissions go with the rows.
DeleteByNames(s) ==
    /\ pc[s] = "delete" /\ \A n \in doomed[s] : Free(s, n)
    /\ Write(s, [n \in {m \in doomed[s] : role[m] # Gone} |-> Gone])
    /\ Goto(s, "find")
    /\ UNCHANGED <<at, ent, todo, doomed, faults, starts>>

\* A mutant: a new entity each time, for the upsert to sort out.
MutFindByName(s) ==
    /\ pc[s] = "find"
    /\ ent' = [ent EXCEPT ![s] = s]
    /\ todo' = [todo EXCEPT ![s] = Desired[Name(s)]]
    /\ Goto(s, "clear")
    /\ UNCHANGED <<role, owner, before, at, doomed, faults, starts>>

\* The entity has the id of the role that is there, or a new one.
FindByName(s) ==
    /\ pc[s] = "find"
    /\ ent' = [ent EXCEPT ![s] = IF Seen(s, Name(s)) = Gone THEN s ELSE Seen(s, Name(s)).id]
    /\ todo' = [todo EXCEPT ![s] = Desired[Name(s)]]
    /\ Goto(s, "clear")
    /\ UNCHANGED <<role, owner, before, at, doomed, faults, starts>>

\* A mutant: permissions are added and never taken away.
MutRemoveAllPermissions(s) ==
    /\ pc[s] = "clear" /\ Goto(s, "upsert")
    /\ UNCHANGED <<role, owner, before, at, ent, todo, doomed, faults, starts>>

\* RemoveAllPermissions: DELETE ... WHERE role_id = the entity's id.
RemoveAllPermissions(s) ==
    /\ pc[s] = "clear"
    /\ LET n == Name(s)
           seen == Seen(s, n)
           rows == seen # Gone /\ seen.id = ent[s] /\ seen.perms # {} IN
          \/ rows /\ Free(s, n) /\ Goto(s, "upsert")
             /\ Write(s, [m \in {n} |-> [role[n] EXCEPT !.perms = {}]])
          \/ rows /\ ~Free(s, n) /\ Goto(s, "clearing")
             /\ UNCHANGED <<role, owner, before>>
          \/ ~rows /\ Goto(s, "upsert") /\ UNCHANGED <<role, owner, before>>
    /\ UNCHANGED <<at, ent, todo, doomed, faults, starts>>

\* UpsertRole: on a conflict of names the row keeps its id.
UpsertRole(s) ==
    /\ pc[s] = "upsert" /\ Free(s, Name(s))
    /\ Write(s, [n \in {Name(s)} |->
           IF role[n] = Gone THEN [id |-> ent[s], perms |-> {}, users |-> {}] ELSE role[n]])
    /\ Goto(s, "add")
    /\ UNCHANGED <<at, ent, todo, doomed, faults, starts>>

\* UpsertPermission and AddPermissionToRole, with the entity's id, which must
\* be the id of a role; then the next role, or the end of the function.
AddPermissionToRole(s) ==
    /\ pc[s] = "add" /\ role[Name(s)].id = ent[s]
    /\ \E p \in todo[s] :
          /\ Write(s, [n \in {Name(s)} |-> [role[n] EXCEPT !.perms = @ \cup {p}]])
          /\ todo' = [todo EXCEPT ![s] = @ \ {p}]
    /\ UNCHANGED <<pc, at, ent, doomed, faults, starts>>

NextRole(s) ==
    /\ pc[s] = "add" /\ todo[s] = {}
    /\ IF at[s] = Len(Order)
       THEN Goto(s, "commit") /\ UNCHANGED at
       ELSE Goto(s, "find") /\ at' = [at EXCEPT ![s] = @ + 1]
    /\ UNCHANGED <<role, owner, before, ent, todo, doomed, faults, starts>>

\* RunInTransaction commits; the server goes on to serve.
Commits(s) ==
    /\ pc[s] = "commit" /\ Commit(s) /\ EndWith(s, "serving", "upsert")
    /\ UNCHANGED <<at, ent, todo, doomed, faults, starts>>

\* RunInTransaction rolls back, main exits with status 1.
Fails(s) == Rollback(s) /\ EndWith(s, "exited", "clear")

\* The foreign key of role_permissions: no role has the entity's id.
ForeignKeyViolation(s) ==
    /\ pc[s] = "add" /\ todo[s] # {} /\ role[Name(s)].id # ent[s] /\ Fails(s)
    /\ UNCHANGED <<at, ent, todo, doomed, faults, starts>>

\* A statement or the commit fails, or the server dies.
Fault(s) ==
    /\ pc[s] \notin {"serving", "exited"}
    /\ faults < MaxFaults /\ faults' = faults + 1
    /\ Fails(s)
    /\ UNCHANGED <<at, ent, todo, doomed, starts>>

\* The server is started again.
Restart(s) ==
    /\ pc[s] \in {"serving", "exited"}
    /\ starts < MaxStarts /\ starts' = starts + 1
    /\ Goto(s, "findAll")
    /\ at' = [at EXCEPT ![s] = 1] /\ ent' = [ent EXCEPT ![s] = None]
    /\ todo' = [todo EXCEPT ![s] = {}] /\ doomed' = [doomed EXCEPT ![s] = {}]
    /\ UNCHANGED <<role, owner, before, faults>>

\* A request on a server that serves writes user_roles: the row of the role must
\* be there for everyone, and not deleted by an open transaction.
ChangeUsers(n, us) ==
    /\ \E s \in Servers : pc[s] = "serving"
    /\ role[n] # Gone /\ Committed(n) # Gone /\ us # role[n].users
    /\ role' = [role EXCEPT ![n].users = us]
    /\ before' = [before EXCEPT ![n].users = us]
    /\ UNCHANGED <<owner, pc, at, ent, todo, doomed, faults, starts>>
AssignRole(n, u) == ChangeUsers(n, role[n].users \cup {u})
RemoveRole(n, u) == ChangeUsers(n, role[n].users \ {u})

Seed(s) ==
    \/ FindAll(s) \/ DeleteByNames(s) \/ FindByName(s) \/ RemoveAllPermissions(s)
    \/ UpsertRole(s) \/ AddPermissionToRole(s) \/ NextRole(s) \/ Commits(s)
    \/ ForeignKeyViolation(s)

Next ==
    \/ \E s \in Servers : Seed(s) \/ Fault(s) \/ Restart(s)
    \/ \E n \in Names, u \in Users : AssignRole(n, u) \/ RemoveRole(n, u)

\* The database answers a statement that is not waiting for another transaction.
Fairness == \A s \in Servers : WF_vars(Seed(s))

Spec == Init /\ [][Next]_vars /\ Fairness

-----------------------------------------------------------------------------
(* Properties *)

SeededRoles ==
    /\ \A n \in DesiredNames : Committed(n) # Gone /\ Committed(n).perms = Desired[n]
    /\ \A n \in Obsolete : Committed(n) = Gone

\* A server serves only over the roles its code defines, each with exactly its
\* permissions, whatever the other servers do to the tables at the same time or
\* gave up half way.  RunInTransaction around SeedSystemRoles.
ServesSeededRoles == (\E s \in Servers : pc[s] = "serving") => SeededRoles

KeepsUsers ==
    \A n \in DesiredNames : Committed(n) # Gone =>
        /\ Committed(n)' # Gone
        /\ Committed(n)'.id = Committed(n).id
        /\ Committed(n)'.perms \in {Committed(n).perms, Desired[n]}
        /\ Committed(n).users \subseteq Committed(n)'.users \/ pc' = pc

\* Seeding never takes a role that stays from a user who has it, and others see
\* its permissions go from the old ones to the defined ones in one step: no one
\* is locked out while a server starts.  The upsert that keeps the id of a role,
\* and the transaction.
SeedingKeepsUsers == [][KeepsUsers]_vars

\* s is at a statement that waits for the end of t's transaction.
WaitsFor(s, t) ==
    \E n \in Names :
       /\ owner[n] = t /\ ~Free(s, n)
       /\ \/ pc[s] = "delete" /\ n \in doomed[s]
          \/ pc[s] \in {"clearing", "upsert"} /\ n = Name(s)

\* Seeders never deadlock: of any servers, one waits for none of the others.  All
\* take the rows in the order of desiredRoles and none lets go of one before its
\* transaction ends (a DELETE by names takes its rows at once here).
NoWaitCycle ==
    \A group \in (SUBSET Servers) \ {{}} :
       \E s \in group : \A t \in group : ~WaitsFor(s, t)

\* However the seeders wait for one another, each of them comes to an end.
StartsEnd == \A s \in Servers : []<>(pc[s] \in {"serving", "exited"})

\* When fewer statements fail than servers start, some server comes to serve: a
\* seeder the foreign key stops was overtaken by one that committed.
OneServes == <>(\E s \in Servers : pc[s] = "serving")

-----------------------------------------------------------------------------
(* The inductive invariant of the proofs *)

Working == {"find", "clear", "clearing", "upsert", "add", "commit"}
Seeded(n, row) == row # Gone /\ row.perms = Desired[n]

\* Only a server at work owns rows.  What a transaction did to a row so far: an
\* obsolete one it deleted, a desired one kept its id and its users.
RowInv(n) ==
    /\ owner[n] = None => before[n] = role[n]
    /\ owner[n] # None => pc[owner[n]] \in Working
    /\ n \in Obsolete /\ owner[n] # None => role[n] = Gone
    /\ n \in DesiredNames /\ before[n] # Gone =>
          role[n] # Gone /\ role[n].id = before[n].id /\ role[n].users = before[n].users

\* The desired roles s is done with, and those it has not come to.
Behind(s, i) == i < at[s] \/ (i = at[s] /\ pc[s] = "commit")
Ahead(s, i) == i > at[s] \/ (i = at[s] /\ pc[s] \in {"find", "clear", "clearing"})

\* The obsolete roles are gone for s, those behind it are seeded and its own,
\* those ahead are not its own; and what it knows of the one it works on.
WorkInv(s) ==
    LET n == Name(s) IN
    /\ \A m \in Obsolete : Seen(s, m) = Gone
    /\ \A i \in 1..Len(Order) :
          /\ Behind(s, i) => owner[Order[i]] = s /\ Seeded(Order[i], role[Order[i]])
          /\ Ahead(s, i) => owner[Order[i]] # s
    /\ pc[s] \in {"clear", "clearing", "upsert"} => todo[s] = Desired[n]
    /\ pc[s] \in {"clear", "clearing"} =>
          Committed(n) = Gone \/ Committed(n).id = ent[s] \/ Committed(n).perms = Desired[n]
    /\ pc[s] = "upsert" =>
          IF owner[n] = s THEN role[n] # Gone /\ role[n].perms = {}
          ELSE Committed(n) = Gone \/ Committed(n).perms \in {{}, Desired[n]}
    /\ pc[s] = "add" =>
          owner[n] = s /\ role[n] # Gone /\ todo[s] \cup role[n].perms = Desired[n]
    /\ pc[s] = "commit" => at[s] = Len(Order)

SeederInv(s) ==
    /\ pc[s] \in {"findAll", "delete"} => at[s] = 1
    /\ pc[s] = "delete" => \A n \in Obsolete \ doomed[s] : Committed(n) = Gone
    /\ pc[s] \in Working => WorkInv(s)

IInv ==
    /\ TypeOK
    /\ \A n \in Names : RowInv(n)
    /\ \A s \in Servers : SeederInv(s)
    /\ ServesSeededRoles
=============================================================================
