-------------------------------- MODULE Tasks --------------------------------
(***************************************************************************)
(* One task: its row in PostgreSQL, its entries in the Redis cache, and    *)
(* the use cases that read and write them (application/usecase/task,       *)
(* domain/entity/task.go, repository/task_repository.go).  A mutation      *)
(* reads the row, changes the entity in memory, writes the whole row back  *)
(* without a version check, then drops the cached entries and publishes    *)
(* an event; every one of those calls is a step.                           *)
(*                                                                         *)
(* Data: the description stands for the fields a client edits freely; the  *)
(* title, priority and due date are written back the same way.             *)
(* Bounds: MaxOps requests are started, MaxFaults external calls fail.     *)
(***************************************************************************)
EXTENDS Naturals

CONSTANTS
    Requests,   \* requests in flight
    Users,      \* accounts a task can be assigned to
    Creator,    \* the account that owns the task, not in Users
    Labels,     \* label identifiers
    Notes,      \* non-empty descriptions
    Targets,    \* statuses clients ask ChangeTaskStatus for
    Ops,        \* operations of this instance
    MaxOps, MaxFaults,
    None,       \* no assignee, an empty description, nothing cached
    Absent      \* a cached page that does not show the task

Statuses == {"TODO", "IN_PROGRESS", "IN_REVIEW", "DONE", "ARCHIVED"}

ASSUME NoneAssumption == None \notin Users \cup Notes \cup Labels
ASSUME CreatorAssumption == Creator \notin Users
ASSUME TargetsAssumption == Targets \subseteq Statuses
ASSUME BoundsAssumption == MaxOps \in Nat /\ MaxFaults \in Nat

VARIABLES
    life,       \* tasks table: whether the row exists
    row,        \* its columns, and the task_labels rows
    users,      \* accounts that exist
    cached,     \* app:task:{id}
    listed,     \* a cached page of the task list, as far as it shows the task
    pc, req,    \* next step and local variables of each request
    published,  \* task events handed to the publisher
    begun, faults,
    past,       \* history: every status and assignee the row has had
    late        \* history: which cached entries were filled from an old read

vars == <<life, row, users, cached, listed, pc, req, published, begun, faults,
          past, late>>

-----------------------------------------------------------------------------
(* Values *)

Row == [status : Statuses, assignee : Users \cup {None},
        note : Notes \cup {None}, labels : SUBSET Labels]
Card(t) == [status |-> t.status, assignee |-> t.assignee]
Cards == [status : Statuses, assignee : Users \cup {None}]

Mutations == {"update", "assign", "unassign", "changeStatus", "complete",
              "archive", "addLabel", "removeLabel"}
AllOps == Mutations \cup {"create", "delete", "get", "list"}

\* Operations of other use cases that change the row behind this one.
Cascades == {"deleteUser", "deleteLabel"}

Steps == {"idle", "find", "checkRef", "update", "insert", "exists",
          "deleteObjects", "deleteRow", "dropEntry", "dropList", "publish",
          "getEntry", "load", "loadLabels", "fill", "getList", "loadList",
          "fillList"}

Args == Statuses \cup Users \cup Notes \cup Labels \cup {None}

Request == [op : AllOps \cup {None}, arg : Args, task : Row,
            page : Row \cup {Absent}]

BlankRow == [status |-> "TODO", assignee |-> None, note |-> None, labels |-> {}]
NoRequest == [op |-> None, arg |-> None, task |-> BlankRow, page |-> BlankRow]

Event == [op : AllOps, status : Statuses, arg : Args]

TypeOK ==
    /\ life \in {"absent", "stored", "deleted"}
    /\ row \in Row
    /\ users \subseteq Users \cup {Creator}
    /\ cached \in Row \cup {None}
    /\ listed \in Row \cup {None, Absent}
    /\ pc \in [Requests -> Steps]
    /\ req \in [Requests -> Request]
    /\ published \subseteq Event
    /\ begun \in 0..MaxOps
    /\ faults \in 0..MaxFaults
    /\ past \subseteq Cards
    /\ late \subseteq {"entry", "list"}

Init ==
    /\ life \in {"absent", "stored"}
    /\ IF life = "stored" THEN row \in Row ELSE row = BlankRow
    /\ users = Users \cup {Creator}
    /\ cached = None /\ listed = None
    /\ pc = [r \in Requests |-> "idle"]
    /\ req = [r \in Requests |-> NoRequest]
    /\ published = {}
    /\ begun = 0 /\ faults = 0
    /\ past = IF life = "stored" THEN {Card(row)} ELSE {}
    /\ late = {}

-----------------------------------------------------------------------------
(* entity.Task: what each method makes of the entity; {} is an error         *)

\* (mutant) a status outside the enumeration.
MutComplete(t) == IF t.status = "ARCHIVED" THEN {} ELSE {[t EXCEPT !.status = "COMPLETED"]}

Complete(t) == IF t.status = "ARCHIVED" THEN {} ELSE {[t EXCEPT !.status = "DONE"]}

Archive(t) == IF t.status = "DONE" THEN {[t EXCEPT !.status = "ARCHIVED"]} ELSE {}

Assign(t, user) ==
    IF t.status = "ARCHIVED" THEN {} ELSE {[t EXCEPT !.assignee = user]}

\* (mutant) the DONE check is missing.
MutChangeStatus(t, status) ==
    IF t.status = "ARCHIVED" THEN {} ELSE {[t EXCEPT !.status = status]}

ChangeStatus(t, status) ==
    IF \/ t.status = "ARCHIVED"
       \/ t.status = "DONE" /\ status # "ARCHIVED"
    THEN {} ELSE {[t EXCEPT !.status = status]}

AddLabel(t, label) == {[t EXCEPT !.labels = @ \cup {label}]}
RemoveLabel(t, label) == {[t EXCEPT !.labels = @ \ {label}]}

After(op, arg, t) ==
    CASE op = "update" -> {[t EXCEPT !.note = arg]}
      [] op = "assign" -> Assign(t, arg)
      [] op = "unassign" -> {[t EXCEPT !.assignee = None]}
      [] op = "changeStatus" -> ChangeStatus(t, arg)
      [] op = "complete" -> Complete(t)
      [] op = "archive" -> Archive(t)
      [] op = "addLabel" -> AddLabel(t, arg)
      [] op = "removeLabel" -> RemoveLabel(t, arg)
      [] OTHER -> {}

\* What a client may pass.
ArgsOf(op) ==
    CASE op = "update" -> Notes \cup {None}
      [] op = "assign" -> Users
      [] op = "changeStatus" -> Targets
      [] op \in {"addLabel", "removeLabel"} -> Labels
      [] op = "create" -> Users \cup {None}
      [] OTHER -> {None}

\* sqlcTaskToEntity: the labels of the row are not loaded.
Entity == [row EXCEPT !.labels = {}]

\* What ListTasks finds.
Page == IF life = "stored" THEN Entity ELSE Absent

-----------------------------------------------------------------------------
(* Control shared by the steps *)

\* An external call answers (ok) or fails; failures are budgeted.
Call(ok) ==
    IF ok THEN UNCHANGED faults
          ELSE faults < MaxFaults /\ faults' = faults + 1

Goto(r, step) == pc' = [pc EXCEPT ![r] = step]

\* The use case returns, with a result or an error.
Return(r) ==
    /\ Goto(r, "idle")
    /\ req' = [req EXCEPT ![r] = NoRequest]

\* The row gets new column values.
Store(new) == row' = new /\ past' = past \cup {Card(new)}

dbVars == <<life, row, users, past>>
cacheVars == <<cached, listed, late>>

FirstStep(op) ==
    CASE op \in Mutations -> "find"
      [] op = "create" -> "insert"
      [] op = "delete" -> "exists"
      [] op = "get" -> "getEntry"
      [] op = "list" -> "getList"

\* A request arrives; validation and parsing accept its argument.
Begin(r, op, arg) ==
    /\ pc[r] = "idle"
    /\ begun < MaxOps
    /\ op \in Ops \cap AllOps
    /\ arg \in ArgsOf(op)
    /\ begun' = begun + 1
    /\ req' = [req EXCEPT ![r] = [[NoRequest EXCEPT !.op = op] EXCEPT !.arg = arg]]
    /\ Goto(r, FirstStep(op))
    /\ UNCHANGED <<dbVars, cacheVars, published, faults>>

-----------------------------------------------------------------------------
(* Mutations: FindByID, the entity's method, Update                          *)

NeedsRef == {"assign", "addLabel"}

\* FindByID and, unless a reference has to be looked up first, the method.
\* Not found, a failed query or a refusal of the entity end the request.
FindTask(r) ==
    /\ pc[r] = "find"
    /\ \/ /\ life = "stored"
          /\ IF req[r].op \in NeedsRef
             THEN /\ req' = [req EXCEPT ![r] = [@ EXCEPT !.task = Entity]]
                  /\ Goto(r, "checkRef")
             ELSE /\ \E t \in After(req[r].op, req[r].arg, Entity) :
                       req' = [req EXCEPT ![r] =
                                 [[@ EXCEPT !.task = t] EXCEPT !.arg =
                                    IF req[r].op = "unassign" THEN row.assignee
                                                              ELSE req[r].arg]]
                  /\ Goto(r, "update")
          /\ Call(TRUE)
       \/ /\ \E ok \in BOOLEAN :
               /\ Call(ok)
               /\ \/ ~ok
                  \/ life # "stored"
                  \/ /\ req[r].op \notin NeedsRef
                     /\ After(req[r].op, req[r].arg, Entity) = {}
          /\ Return(r)
    /\ UNCHANGED <<dbVars, cacheVars, published, begun>>

\* ExistsByID of the assignee or the label, then the method.  A label may have
\* been deleted at any time.
CheckRef(r) ==
    /\ pc[r] = "checkRef"
    /\ \/ /\ req[r].op = "assign" => req[r].arg \in users
          /\ \E t \in After(req[r].op, req[r].arg, req[r].task) :
               req' = [req EXCEPT ![r] = [@ EXCEPT !.task = t]]
          /\ Goto(r, "update")
          /\ Call(TRUE)
       \/ /\ \E ok \in BOOLEAN :
               /\ Call(ok)
               /\ \/ ~ok
                  \/ req[r].op = "assign" /\ req[r].arg \notin users
                  \/ req[r].op = "addLabel"
                  \/ After(req[r].op, req[r].arg, req[r].task) = {}
          /\ Return(r)
    /\ UNCHANGED <<dbVars, cacheVars, published, begun>>

\* (mutant) UPDATE became an upsert.
MutUpdateTask(r) ==
    /\ pc[r] = "update"
    /\ life' = "stored"
    /\ Store([row EXCEPT !.status = req[r].task.status,
                         !.assignee = req[r].task.assignee])
    /\ Goto(r, "dropEntry") /\ UNCHANGED req
    /\ UNCHANGED <<users, cacheVars, published, begun, faults>>

\* UPDATE tasks SET ... WHERE id: every column of the entity, the description
\* through COALESCE (an empty one is NULL and keeps the old), never the labels.
\* No row is an error, and so is an assignee whose account is gone.
UpdateTask(r) ==
    /\ pc[r] = "update"
    /\ \E ok \in BOOLEAN :
         /\ Call(ok)
         /\ IF ok /\ life = "stored" /\ req[r].task.assignee \in users \cup {None}
            THEN /\ Store([status |-> req[r].task.status,
                           assignee |-> req[r].task.assignee,
                           note |-> IF req[r].task.note = None THEN row.note
                                                               ELSE req[r].task.note,
                           labels |-> row.labels])
                 /\ Goto(r, "dropEntry") /\ UNCHANGED req
            ELSE Return(r) /\ UNCHANGED <<row, past>>
    /\ UNCHANGED <<life, users, cacheVars, published, begun>>

\* CreateTask: the checks, then INSERT INTO tasks; the labels are not stored.
InsertTask(r) ==
    /\ pc[r] = "insert"
    /\ \E ok \in BOOLEAN :
         /\ Call(ok)
         /\ IF ok /\ life = "absent" /\ Creator \in users
                  /\ req[r].arg \in users \cup {None}
            THEN /\ life' = "stored"
                 /\ Store([BlankRow EXCEPT !.assignee = req[r].arg])
                 /\ Goto(r, "dropList") /\ UNCHANGED req
            ELSE Return(r) /\ UNCHANGED <<life, row, past>>
    /\ UNCHANGED <<users, cacheVars, published, begun>>

-----------------------------------------------------------------------------
(* DeleteTask                                                               *)

ExistsTask(r) ==
    /\ pc[r] = "exists"
    /\ \E ok \in BOOLEAN :
         /\ Call(ok)
         /\ IF ok /\ life = "stored"
            THEN Goto(r, "deleteObjects") /\ UNCHANGED req
            ELSE Return(r)
    /\ UNCHANGED <<dbVars, cacheVars, published, begun>>

\* The attachment objects (module Attachments); a failure aborts.
DeleteObjects(r) ==
    /\ pc[r] = "deleteObjects"
    /\ \E ok \in BOOLEAN :
         /\ Call(ok)
         /\ IF ok THEN Goto(r, "deleteRow") /\ UNCHANGED req ELSE Return(r)
    /\ UNCHANGED <<dbVars, cacheVars, published, begun>>

\* (mutant) the error of the DELETE is ignored.
MutDeleteRow(r) ==
    /\ pc[r] = "deleteRow"
    /\ \E ok \in BOOLEAN :
         /\ Call(ok)
         /\ life' = IF ok /\ life = "stored" THEN "deleted" ELSE life
    /\ Goto(r, "dropEntry")
    /\ UNCHANGED <<row, users, past, cacheVars, req, published, begun>>

\* DELETE FROM tasks; deleting nothing is no error.
DeleteRow(r) ==
    /\ pc[r] = "deleteRow"
    /\ \E ok \in BOOLEAN :
         /\ Call(ok)
         /\ IF ok
            THEN /\ life' = IF life = "stored" THEN "deleted" ELSE life
                 /\ Goto(r, "dropEntry") /\ UNCHANGED req
            ELSE Return(r) /\ UNCHANGED life
    /\ UNCHANGED <<row, users, past, cacheVars, published, begun>>

-----------------------------------------------------------------------------
(* invalidateTaskCaches, and the event; errors are swallowed                 *)

\* (mutant) invalidation only drops the list pages.
MutDropEntry(r) ==
    /\ pc[r] = "dropEntry"
    /\ Goto(r, "dropList")
    /\ UNCHANGED <<dbVars, cacheVars, req, published, begun, faults>>

DropEntry(r) ==
    /\ pc[r] = "dropEntry"
    /\ \E ok \in BOOLEAN : Call(ok) /\ cached' = IF ok THEN None ELSE cached
    /\ Goto(r, "dropList")
    /\ UNCHANGED <<dbVars, listed, late, req, published, begun>>

DropList(r) ==
    /\ pc[r] = "dropList"
    /\ \E ok \in BOOLEAN : Call(ok) /\ listed' = IF ok THEN None ELSE listed
    /\ Goto(r, "publish")
    /\ UNCHANGED <<dbVars, cached, late, req, published, begun>>

\* Unassigning an unassigned task is not announced.
Announced(q) == q.op = "unassign" => q.arg # None

Publish(r) ==
    /\ pc[r] = "publish"
    /\ \E ok \in BOOLEAN :
         /\ Call(ok)
         /\ published' = IF ok /\ Announced(req[r])
                         THEN published \cup {[op |-> req[r].op, arg |-> req[r].arg,
                                               status |-> req[r].task.status]}
                         ELSE published
    /\ Return(r)
    /\ UNCHANGED <<dbVars, cacheVars, begun>>

-----------------------------------------------------------------------------
(* GetTask and ListTasks: cache-aside                                        *)

\* A hit ends the request; a miss or an error goes to the database.
GetEntry(r) ==
    /\ pc[r] = "getEntry"
    /\ \E ok \in BOOLEAN :
         /\ Call(ok)
         /\ IF ok /\ cached # None THEN Return(r)
                                   ELSE Goto(r, "load") /\ UNCHANGED req
    /\ UNCHANGED <<dbVars, cacheVars, published, begun>>

Load(r) ==
    /\ pc[r] = "load"
    /\ \E ok \in BOOLEAN :
         /\ Call(ok)
         /\ IF ok /\ life = "stored"
            THEN /\ req' = [req EXCEPT ![r] = [@ EXCEPT !.task = Entity]]
                 /\ Goto(r, "loadLabels")
            ELSE Return(r)
    /\ UNCHANGED <<dbVars, cacheVars, published, begun>>

\* The labels; when the query fails the task goes on without them.
LoadLabels(r) ==
    /\ pc[r] = "loadLabels"
    /\ \E ok \in BOOLEAN :
         /\ Call(ok)
         /\ req' = IF ok /\ life = "stored"
                   THEN [req EXCEPT ![r] = [@ EXCEPT !.task =
                                              [req[r].task EXCEPT !.labels = row.labels]]]
                   ELSE req
    /\ Goto(r, "fill")
    /\ UNCHANGED <<dbVars, cacheVars, published, begun>>

\* SetJSON of the task: what was read may no longer be what is stored.
Fill(r) ==
    /\ pc[r] = "fill"
    /\ \E ok \in BOOLEAN :
         /\ Call(ok)
         /\ cached' = IF ok THEN req[r].task ELSE cached
         /\ late' = IF ok /\ (life # "stored" \/ req[r].task # row)
                    THEN late \cup {"entry"} ELSE late
    /\ Return(r)
    /\ UNCHANGED <<dbVars, listed, published, begun>>

GetList(r) ==
    /\ pc[r] = "getList"
    /\ \E ok \in BOOLEAN :
         /\ Call(ok)
         /\ IF ok /\ listed # None THEN Return(r)
                                   ELSE Goto(r, "loadList") /\ UNCHANGED req
    /\ UNCHANGED <<dbVars, cacheVars, published, begun>>

LoadList(r) ==
    /\ pc[r] = "loadList"
    /\ \E ok \in BOOLEAN :
         /\ Call(ok)
         /\ IF ok
            THEN /\ req' = [req EXCEPT ![r] = [@ EXCEPT !.page = Page]]
                 /\ Goto(r, "fillList")
            ELSE Return(r)
    /\ UNCHANGED <<dbVars, cacheVars, published, begun>>

FillList(r) ==
    /\ pc[r] = "fillList"
    /\ \E ok \in BOOLEAN :
         /\ Call(ok)
         /\ listed' = IF ok THEN req[r].page ELSE listed
         /\ late' = IF ok /\ req[r].page # Page THEN late \cup {"list"} ELSE late
    /\ Return(r)
    /\ UNCHANGED <<dbVars, cached, published, begun>>

-----------------------------------------------------------------------------
(* Behind this use case: the TTLs, and deletions elsewhere that cascade      *)

Evict ==
    /\ \/ cached # None /\ cached' = None /\ UNCHANGED listed
       \/ listed # None /\ listed' = None /\ UNCHANGED cached
    /\ UNCHANGED <<dbVars, late, pc, req, published, begun, faults>>

\* UserUseCase.DeleteUser: the tasks of the account go with it, and it is
\* taken off the tasks it was assigned.
DeleteUser(user) ==
    /\ "deleteUser" \in Ops
    /\ user \in users
    /\ users' = users \ {user}
    /\ IF user = Creator
       THEN /\ life' = IF life = "stored" THEN "deleted" ELSE life
            /\ UNCHANGED <<row, past>>
       ELSE /\ UNCHANGED life
            /\ IF life = "stored" /\ row.assignee = user
               THEN Store([row EXCEPT !.assignee = None])
               ELSE UNCHANGED <<row, past>>
    /\ UNCHANGED <<cacheVars, pc, req, published, begun, faults>>

\* LabelUseCase.DeleteLabel.
DeleteLabel(label) ==
    /\ "deleteLabel" \in Ops
    /\ label \in row.labels
    /\ row' = [row EXCEPT !.labels = @ \ {label}]
    /\ UNCHANGED <<life, users, past, cacheVars, pc, req, published, begun, faults>>

-----------------------------------------------------------------------------
Step(r) ==
    \/ \E op \in AllOps : \E arg \in ArgsOf(op) : Begin(r, op, arg)
    \/ FindTask(r) \/ CheckRef(r) \/ UpdateTask(r) \/ InsertTask(r)
    \/ ExistsTask(r) \/ DeleteObjects(r) \/ DeleteRow(r)
    \/ DropEntry(r) \/ DropList(r) \/ Publish(r)
    \/ GetEntry(r) \/ Load(r) \/ LoadLabels(r) \/ Fill(r)
    \/ GetList(r) \/ LoadList(r) \/ FillList(r)

Elsewhere ==
    \/ Evict
    \/ \E user \in Users \cup {Creator} : DeleteUser(user)
    \/ \E label \in Labels : DeleteLabel(label)

Next == (\E r \in Requests : Step(r)) \/ Elsewhere

Spec == Init /\ [][Next]_vars

-----------------------------------------------------------------------------
(* Properties                                                               *)

\* When no call failed, a cached task or page differs from the database only
\* while a writer is about to drop it, or if it was filled by a read that a
\* write overtook: every mutation drops the entries, after its write, that it
\* makes stale (invalidateTaskCaches against GetTask and ListTasks).
CacheCoherent ==
    faults = 0 =>
      /\ \/ cached = None
         \/ life = "stored" /\ cached = row
         \/ "entry" \in late
         \/ \E r \in Requests : pc[r] = "dropEntry"
      /\ \/ listed \in {None, Page}
         \/ "list" \in late
         \/ \E r \in Requests : pc[r] \in {"dropEntry", "dropList"}

\* Subscribers are never told of a status the task did not have in the
\* database, nor of a deletion that did not happen, whatever calls fail.
EventsFollowWrites ==
    \A e \in published :
      IF e.op = "delete" THEN life = "deleted"
                         ELSE \E c \in past : c.status = e.status

\* "Cannot transition from DONE to anything other than ARCHIVED" (ChangeStatus).
DoneOnlyArchives ==
    [][life = "stored" /\ row.status = "DONE" =>
         row'.status \in {"DONE", "ARCHIVED"}]_vars

\* "AddLabel adds a label to a task": the first label that is announced is
\* stored.
LabelStored ==
    begun = 1 => \A e \in published : e.op = "addLabel" => e.arg \in row.labels

-----------------------------------------------------------------------------
(* Refinement: the rules of the entity hold from what a request read to what *)
(* it wrote; with a single request in flight, from row to row.               *)

card == Card(row)

Lossy == INSTANCE TaskLifecycle WITH Serial <- FALSE
Strict == INSTANCE TaskLifecycle WITH Serial <- TRUE

\* However updates overwrite each other, each is a legal update of a row that
\* was there, and a deleted task stays deleted.
UpdatesAreLegal == Lossy!Spec

\* One request at a time follows the status machine.
SerialUpdatesAreLegal == Strict!Spec
-----------------------------------------------------------------------------
(* The inductive strengthening the proofs use                                *)

\* A stored row is the latest of its past.
RowInv == life # "absent" => Card(row) \in past

\* What a request relies on between two of its calls.
RequestOK(r) ==
    /\ pc[r] \in {"find", "checkRef"} =>
         req[r].op \in Mutations /\ req[r].arg \in ArgsOf(req[r].op)
    /\ pc[r] = "checkRef" => Card(req[r].task) \in past
    /\ pc[r] = "update" =>
         /\ req[r].op \in Mutations
         /\ \E base \in past : Card(req[r].task) \in Lossy!Legal(base)
    /\ pc[r] = "insert" =>
         /\ req[r].op = "create" /\ req[r].task = BlankRow
         /\ req[r].arg \in Users \cup {None}
    /\ pc[r] = "exists" => req[r].op = "delete"
    /\ pc[r] \in {"deleteObjects", "deleteRow"} =>
         req[r].op = "delete" /\ life # "absent"
    /\ pc[r] \in {"dropEntry", "dropList", "publish"} =>
         /\ req[r].op \in AllOps
         /\ IF req[r].op = "delete" THEN life = "deleted"
            ELSE \E c \in past : c.status = req[r].task.status

RequestInv == \A r \in Requests : RequestOK(r)

IInv == TypeOK /\ RowInv /\ RequestInv /\ EventsFollowWrites

\* One request at a time.  Only the deletion of an account can then come between
\* its read and its write, and takes the account off the row: what the request
\* read is the row, or still has an assignee that is gone.
Solo == \E r \in Requests : Requests = {r}

Assignable(t) == t.assignee \in users \cup {None}

SerialOK(r) ==
    life = "stored" =>
      /\ pc[r] = "checkRef" =>
            /\ req[r].task.status = row.status
            /\ Assignable(req[r].task) => req[r].task.assignee = row.assignee
      /\ pc[r] = "update" /\ Assignable(req[r].task) =>
            Card(req[r].task) \in Strict!Legal(card)

SerialInv ==
    /\ life = "stored" => Assignable(row)
    /\ \A r \in Requests : SerialOK(r)

=============================================================================
