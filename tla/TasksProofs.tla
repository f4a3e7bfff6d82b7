----------------------------- MODULE TasksProofs -----------------------------
(***************************************************************************)
(* Proofs about Tasks for every number of requests, users, labels,         *)
(* operations and failed calls.                                            *)
(***************************************************************************)
EXTENDS Tasks, TLAPS

-----------------------------------------------------------------------------
(* Lemmas about the control helpers and the records                          *)

LEMMA NoRequestType == BlankRow \in Row /\ NoRequest \in Request
  BY DEF NoRequest, BlankRow, Request, Row, Args, Statuses

LEMMA GotoTypes ==
  ASSUME pc \in [Requests -> Steps], NEW r \in Requests, NEW s, Goto(r, s)
  PROVE  /\ s \in Steps => pc' \in [Requests -> Steps]
         /\ pc'[r] = s
         /\ \A x \in Requests : x # r => pc'[x] = pc[x]
  BY DEF Goto

LEMMA ReturnTypes ==
  ASSUME pc \in [Requests -> Steps], req \in [Requests -> Request],
         NEW r \in Requests, Return(r)
  PROVE  /\ pc' \in [Requests -> Steps] /\ req' \in [Requests -> Request]
         /\ pc'[r] = "idle" /\ req'[r] = NoRequest
         /\ \A x \in Requests : x # r => pc'[x] = pc[x] /\ req'[x] = req[x]
  BY NoRequestType DEF Return, Goto, Steps

LEMMA CallTypes ==
  ASSUME faults \in 0..MaxFaults, NEW ok, Call(ok)
  PROVE  faults' \in 0..MaxFaults /\ (faults' = 0 => faults = 0 /\ (ok \/ ~ok))
  BY BoundsAssumption DEF Call

\* A request record keeps its type when a local variable is assigned.
LEMMA FieldTypes ==
  ASSUME NEW q \in Request
  PROVE  /\ q.op \in AllOps \cup {None} /\ q.arg \in Args
         /\ q.task \in Row /\ q.page \in Row \cup {Absent}
         /\ \A t \in Row : [q EXCEPT !.task = t] \in Request
         /\ \A t \in Row \cup {Absent} : [q EXCEPT !.page = t] \in Request
         /\ \A t \in Row, a \in Args : [[q EXCEPT !.task = t] EXCEPT !.arg = a] \in Request
         /\ \A op \in AllOps, a \in Args : [[q EXCEPT !.op = op] EXCEPT !.arg = a] \in Request
  BY DEF Request

\* The columns of a row, and what the updates make of it.
LEMMA RowTypes ==
  ASSUME NEW t \in Row
  PROVE  /\ t.status \in Statuses /\ t.assignee \in Users \cup {None}
         /\ t.note \in Notes \cup {None} /\ t.labels \subseteq Labels
         /\ Card(t) \in Cards
         /\ \A ls \in SUBSET Labels : [t EXCEPT !.labels = ls] \in Row
         /\ [t EXCEPT !.assignee = None] \in Row
  BY DEF Row, Card, Cards

LEMMA ArgTypes ==
  ASSUME NEW op, NEW arg \in ArgsOf(op)
  PROVE  arg \in Args
  BY TargetsAssumption DEF ArgsOf, Args, Statuses

\* The entity's methods return rows, and obey the status rules.
LEMMA AfterTypes ==
  ASSUME NEW op \in Mutations, NEW arg \in ArgsOf(op), NEW t \in Row,
         NEW new \in After(op, arg, t)
  PROVE  new \in Row /\ Card(new) \in Lossy!Legal(Card(t))
<1> USE DEF After, ArgsOf, Row, Card, Lossy!Legal, Lossy!Cards, Lossy!Statuses, Statuses
<1>1. CASE op = "update"
  BY <1>1
<1>2. CASE op = "assign"
  BY <1>2 DEF Assign
<1>3. CASE op = "unassign"
  BY <1>3
<1>4. CASE op = "changeStatus"
  BY <1>4, TargetsAssumption DEF ChangeStatus
<1>5. CASE op = "complete"
  BY <1>5 DEF Complete
<1>6. CASE op = "archive"
  BY <1>6 DEF Archive
<1>7. CASE op = "addLabel"
  BY <1>7 DEF AddLabel
<1>8. CASE op = "removeLabel"
  BY <1>8 DEF RemoveLabel
<1>9. QED
  BY <1>1, <1>2, <1>3, <1>4, <1>5, <1>6, <1>7, <1>8 DEF Mutations
-----------------------------------------------------------------------------
(* Types are preserved by every step                                        *)

\* Writing columns of the right type keeps the row and its history typed.
LEMMA StoreTypes ==
  ASSUME past \subseteq Cards, NEW new \in Row, Store(new)
  PROVE  row' \in Row /\ past' \subseteq Cards /\ past \subseteq past'
         /\ Card(row') \in past'
  BY RowTypes DEF Store

\* Where the requests' control state is typed, and the calls are counted.
ControlOK == pc \in [Requests -> Steps] /\ req \in [Requests -> Request]
             /\ faults \in 0..MaxFaults

LEMMA TypeStep ==
  ASSUME IInv, [Next]_vars
  PROVE  TypeOK'
<1> USE DEF IInv, TypeOK, dbVars, cacheVars
<1>1. CASE UNCHANGED vars
  BY <1>1 DEF vars
<1>2. ASSUME NEW r \in Requests, Step(r)
      PROVE  TypeOK'
  <2>0. Entity \in Row /\ Page \in Row \cup {Absent}
    BY RowTypes DEF Entity, Page
  <2>1. ASSUME NEW op \in AllOps, NEW arg \in ArgsOf(op), Begin(r, op, arg)
        PROVE  TypeOK'
    <3>1. req' \in [Requests -> Request]
      BY <2>1, ArgTypes, NoRequestType, FieldTypes DEF Begin
    <3>2. FirstStep(op) \in Steps
      BY DEF FirstStep, AllOps, Mutations, Steps
    <3>3. pc' \in [Requests -> Steps]
      BY <2>1, <3>2, GotoTypes DEF Begin
    <3>4. begun' \in 0..MaxOps
      BY <2>1, BoundsAssumption DEF Begin
    <3>5. QED
      BY <2>1, <3>1, <3>3, <3>4 DEF Begin
  <2>2. ASSUME FindTask(r)
        PROVE  TypeOK'
    <3>1. pc' \in [Requests -> Steps] /\ faults' \in 0..MaxFaults
      BY <2>2, ReturnTypes, GotoTypes, CallTypes DEF FindTask, Steps
    <3>2. req' \in [Requests -> Request]
      <4>1. CASE Return(r)
        BY <4>1, ReturnTypes
      <4>2. CASE req' = [req EXCEPT ![r] = [@ EXCEPT !.task = Entity]]
        <5>1. [req[r] EXCEPT !.task = Entity] \in Request
          BY <2>0, FieldTypes
        <5>2. QED
          BY <4>2, <5>1
      <4>3. CASE ~ Return(r) /\ req' # [req EXCEPT ![r] = [@ EXCEPT !.task = Entity]]
        <5>1. PICK t \in After(req[r].op, req[r].arg, Entity) :
                req' = [req EXCEPT ![r] =
                          [[@ EXCEPT !.task = t] EXCEPT !.arg =
                             IF req[r].op = "unassign" THEN row.assignee
                                                       ELSE req[r].arg]]
          BY <2>2, <4>3 DEF FindTask
        <5>2. t \in Row
          BY <2>0, <2>2, AfterTypes DEF FindTask, RequestInv, RequestOK
        <5>3. row.assignee \in Args /\ req[r].arg \in Args
          BY RowTypes, FieldTypes DEF Args
        <5>4. \A a \in Args : [[req[r] EXCEPT !.task = t] EXCEPT !.arg = a] \in Request
          BY <5>2, FieldTypes
        <5>5. req'[r] = [[req[r] EXCEPT !.task = t] EXCEPT !.arg =
                           IF req[r].op = "unassign" THEN row.assignee ELSE req[r].arg]
          BY <5>1 DEF Request
        <5>6. req'[r] \in Request
          BY <5>3, <5>4, <5>5
        <5>7. QED
          BY <5>1, <5>6
      <4>4. QED
        BY <4>1, <4>2, <4>3
    <3>3. QED
      BY <2>2, <3>1, <3>2 DEF FindTask
  <2>3. ASSUME CheckRef(r)
        PROVE  TypeOK'
    <3>1. pc' \in [Requests -> Steps] /\ faults' \in 0..MaxFaults
      BY <2>3, ReturnTypes, GotoTypes, CallTypes DEF CheckRef, Steps
    <3>2. req' \in [Requests -> Request]
      <4>1. CASE Return(r)
        BY <4>1, ReturnTypes
      <4>2. CASE ~ Return(r)
        <5>1. PICK t \in After(req[r].op, req[r].arg, req[r].task) :
                req' = [req EXCEPT ![r] = [@ EXCEPT !.task = t]]
          BY <2>3, <4>2 DEF CheckRef
        <5>2. t \in Row
          BY <2>3, AfterTypes, FieldTypes DEF CheckRef, RequestInv, RequestOK
        <5>3. [req[r] EXCEPT !.task = t] \in Request
          BY <5>2, FieldTypes
        <5>4. QED
          BY <5>1, <5>3
      <4>3. QED
        BY <4>1, <4>2
    <3>3. QED
      BY <2>3, <3>1, <3>2 DEF CheckRef
  <2>4. ASSUME UpdateTask(r)
        PROVE  TypeOK'
    <3>1. pc' \in [Requests -> Steps] /\ req' \in [Requests -> Request]
          /\ faults' \in 0..MaxFaults
      BY <2>4, ReturnTypes, GotoTypes, CallTypes DEF UpdateTask, Steps
    <3>2. [status |-> req[r].task.status, assignee |-> req[r].task.assignee,
           note |-> IF req[r].task.note = None THEN row.note ELSE req[r].task.note,
           labels |-> row.labels] \in Row
      BY FieldTypes, RowTypes DEF Row
    <3>3. row' \in Row /\ past' \subseteq Cards
      BY <2>4, <3>2, StoreTypes DEF UpdateTask
    <3>4. QED
      BY <2>4, <3>1, <3>3 DEF UpdateTask
  <2>5. ASSUME InsertTask(r)
        PROVE  TypeOK'
    <3>1. pc' \in [Requests -> Steps] /\ req' \in [Requests -> Request]
          /\ faults' \in 0..MaxFaults
      BY <2>5, ReturnTypes, GotoTypes, CallTypes DEF InsertTask, Steps
    <3>2. row' \in Row /\ past' \subseteq Cards
      <4>1. CASE UNCHANGED <<row, past>>
        BY <4>1
      <4>2. CASE Store([BlankRow EXCEPT !.assignee = req[r].arg])
        <5>1. req[r].arg \in Users \cup {None}
          BY <2>5, <4>2 DEF InsertTask, RequestInv, RequestOK
        <5>2. [BlankRow EXCEPT !.assignee = req[r].arg] \in Row
          BY <5>1, NoRequestType DEF Row
        <5>3. QED
          BY <4>2, <5>2, StoreTypes
      <4>3. QED
        BY <2>5, <4>1, <4>2 DEF InsertTask
    <3>3. QED
      BY <2>5, <3>1, <3>2 DEF InsertTask
  <2>6. ASSUME ExistsTask(r) \/ DeleteObjects(r) \/ DeleteRow(r)
        PROVE  TypeOK'
    <3>1. pc' \in [Requests -> Steps] /\ req' \in [Requests -> Request]
          /\ faults' \in 0..MaxFaults
      BY <2>6, ReturnTypes, GotoTypes, CallTypes
      DEF ExistsTask, DeleteObjects, DeleteRow, Steps
    <3>2. QED
      BY <2>6, <3>1 DEF ExistsTask, DeleteObjects, DeleteRow
  <2>7. ASSUME DropEntry(r) \/ DropList(r)
        PROVE  TypeOK'
    <3>1. pc' \in [Requests -> Steps] /\ faults' \in 0..MaxFaults
      BY <2>7, GotoTypes, CallTypes DEF DropEntry, DropList, Steps
    <3>2. QED
      BY <2>7, <3>1 DEF DropEntry, DropList
  <2>8. ASSUME Publish(r)
        PROVE  TypeOK'
    <3>1. pc' \in [Requests -> Steps] /\ req' \in [Requests -> Request]
          /\ faults' \in 0..MaxFaults
      BY <2>8, ReturnTypes, CallTypes DEF Publish
    <3>2. req[r].op \in AllOps => [op |-> req[r].op, arg |-> req[r].arg,
                               status |-> req[r].task.status] \in Event
      BY FieldTypes, RowTypes DEF Event
    <3>3. req[r].op \in AllOps
      BY <2>8 DEF Publish, RequestInv, RequestOK
    <3>4. QED
      BY <2>8, <3>1, <3>2, <3>3 DEF Publish
  <2>9. ASSUME GetEntry(r) \/ GetList(r)
        PROVE  TypeOK'
    <3>1. pc' \in [Requests -> Steps] /\ req' \in [Requests -> Request]
          /\ faults' \in 0..MaxFaults
      BY <2>9, ReturnTypes, GotoTypes, CallTypes DEF GetEntry, GetList, Steps
    <3>2. QED
      BY <2>9, <3>1 DEF GetEntry, GetList
  <2>10. ASSUME Load(r) \/ LoadList(r) \/ LoadLabels(r)
         PROVE  TypeOK'
    <3>1. pc' \in [Requests -> Steps] /\ faults' \in 0..MaxFaults
      BY <2>10, ReturnTypes, GotoTypes, CallTypes DEF Load, LoadList, LoadLabels, Steps
    <3>2. /\ [req[r] EXCEPT !.task = Entity] \in Request
          /\ [req[r] EXCEPT !.page = Page] \in Request
          /\ [req[r] EXCEPT !.task = [req[r].task EXCEPT !.labels = row.labels]] \in Request
      BY <2>0, FieldTypes, RowTypes
    <3>3. req' \in [Requests -> Request]
      BY <2>10, <3>2, ReturnTypes DEF Load, LoadList, LoadLabels
    <3>4. QED
      BY <2>10, <3>1, <3>3 DEF Load, LoadList, LoadLabels
  <2>11. ASSUME Fill(r) \/ FillList(r)
         PROVE  TypeOK'
    <3>1. pc' \in [Requests -> Steps] /\ req' \in [Requests -> Request]
          /\ faults' \in 0..MaxFaults
      BY <2>11, ReturnTypes, CallTypes DEF Fill, FillList
    <3>2. cached' \in Row \cup {None} /\ listed' \in Row \cup {None, Absent}
          /\ late' \subseteq {"entry", "list"}
      <4>1. Fill(r) => /\ cached' \in {cached, req[r].task} /\ UNCHANGED listed
                       /\ late' \in {late, late \cup {"entry"}}
        BY DEF Fill
      <4>2. FillList(r) => /\ listed' \in {listed, req[r].page} /\ UNCHANGED cached
                           /\ late' \in {late, late \cup {"list"}}
        BY DEF FillList
      <4>3. req[r].task \in Row /\ req[r].page \in Row \cup {Absent}
        BY FieldTypes
      <4>4. QED
        BY <2>11, <4>1, <4>2, <4>3
    <3>3. QED
      BY <2>11, <3>1, <3>2 DEF Fill, FillList
  <2>12. QED
    BY <1>2, <2>1, <2>2, <2>3, <2>4, <2>5, <2>6, <2>7, <2>8, <2>9, <2>10, <2>11 DEF Step
<1>3. CASE Elsewhere
  <2>1. CASE Evict
    BY <2>1 DEF Evict
  <2>2. ASSUME NEW user, DeleteUser(user)
        PROVE  TypeOK'
    BY <2>2, StoreTypes, RowTypes DEF DeleteUser
  <2>3. ASSUME NEW label, DeleteLabel(label)
        PROVE  TypeOK'
    BY <2>3, RowTypes DEF DeleteLabel
  <2>4. QED
    BY <1>3, <2>1, <2>2, <2>3 DEF Elsewhere
<1>4. QED
  BY <1>1, <1>2, <1>3 DEF Next

-----------------------------------------------------------------------------
(* The inductive step                                                       *)

Kept(x) == pc'[x] = pc[x] /\ req'[x] = req[x]

\* The row only moves forward and nothing of its past is forgotten.
Forward ==
  /\ past \subseteq past'
  /\ life # "absent" => life' # "absent"
  /\ life = "deleted" => life' = "deleted"

LEMMA ForwardStep ==
  ASSUME IInv, [Next]_vars
  PROVE  Forward
<1> USE DEF Forward, dbVars, Store
<1>1. CASE UNCHANGED vars
  BY <1>1 DEF vars
<1>2. ASSUME NEW r \in Requests, Step(r)
      PROVE  Forward
  BY <1>2 DEF Step, Begin, FindTask, CheckRef, UpdateTask, InsertTask, ExistsTask,
     DeleteObjects, DeleteRow, DropEntry, DropList, Publish, GetEntry, Load,
     LoadLabels, Fill, GetList, LoadList, FillList
<1>3. CASE Elsewhere
  BY <1>3 DEF Elsewhere, Evict, DeleteUser, DeleteLabel
<1>4. QED
  BY <1>1, <1>2, <1>3 DEF Next

\* What a request relies on is not disturbed by the others.
LEMMA KeptOK ==
  ASSUME Forward, NEW x \in Requests, RequestOK(x), Kept(x)
  PROVE  RequestOK(x)'
  BY DEF Forward, RequestOK, Kept

\* A request that has returned relies on nothing.
LEMMA IdleOK ==
  ASSUME NEW x \in Requests,
         pc'[x] \in {"idle", "getEntry", "load", "loadLabels", "fill", "getList",
                     "loadList", "fillList"}
  PROVE  RequestOK(x)'
  BY DEF RequestOK

LEMMA EntityCard == row \in Row => Entity \in Row /\ Card(Entity) = Card(row)
  BY RowTypes DEF Entity, Card, Row

\* A step moves one request, and leaves it with what it relies on.
LEMMA RequestStep ==
  ASSUME IInv, TypeOK', Forward, NEW r \in Requests, Step(r)
  PROVE  RequestInv'
<1> SUFFICES RequestOK(r)' /\ \A x \in Requests : x # r => Kept(x)
  BY KeptOK DEF RequestInv, IInv
<1> USE DEF IInv, TypeOK, dbVars, cacheVars
<1>0. RequestOK(r)
  BY DEF RequestInv
<1>1. ASSUME NEW op \in AllOps, NEW arg \in ArgsOf(op), Begin(r, op, arg)
      PROVE  RequestOK(r)' /\ \A x \in Requests : x # r => Kept(x)
  <2>1. pc'[r] = FirstStep(op) /\ \A x \in Requests : x # r => Kept(x)
    BY <1>1, GotoTypes DEF Begin, Kept
  <2>2. req'[r].op = op /\ req'[r].arg = arg /\ req'[r].task = BlankRow
    BY <1>1, NoRequestType DEF Begin, NoRequest, Request
  <2>3. RequestOK(r)'
    BY <2>1, <2>2 DEF RequestOK, FirstStep, AllOps, Mutations, ArgsOf
  <2>4. QED
    BY <2>1, <2>3
<1>2. ASSUME FindTask(r)
      PROVE  RequestOK(r)' /\ \A x \in Requests : x # r => Kept(x)
  <2>1. CASE Return(r)
    BY <2>1, ReturnTypes, IdleOK DEF Kept
  <2>2. CASE ~ Return(r)
    <3>1. Card(Entity) \in past /\ Entity \in Row
      BY <1>2, <2>2, EntityCard DEF FindTask, RowInv
    <3>2. CASE req[r].op \in NeedsRef
      <4>1. /\ req' = [req EXCEPT ![r] = [@ EXCEPT !.task = Entity]]
            /\ Goto(r, "checkRef")
        BY <1>2, <2>2, <3>2 DEF FindTask
      <4>2. /\ req'[r].task = Entity /\ req'[r].op = req[r].op /\ req'[r].arg = req[r].arg
            /\ pc'[r] = "checkRef"
            /\ \A x \in Requests : x # r => Kept(x)
        BY <4>1, GotoTypes DEF Request, Kept
      <4>3. QED
        BY <1>0, <1>2, <3>1, <4>2 DEF RequestOK, FindTask
    <3>3. CASE req[r].op \notin NeedsRef
      <4>1. PICK t \in After(req[r].op, req[r].arg, Entity) :
              /\ req' = [req EXCEPT ![r] =
                           [[@ EXCEPT !.task = t] EXCEPT !.arg =
                              IF req[r].op = "unassign" THEN row.assignee
                                                        ELSE req[r].arg]]
              /\ Goto(r, "update")
        BY <1>2, <2>2, <3>3 DEF FindTask
      <4>2. /\ req'[r].task = t /\ req'[r].op = req[r].op
            /\ pc'[r] = "update"
            /\ \A x \in Requests : x # r => Kept(x)
        BY <4>1, GotoTypes DEF Request, Kept
      <4>3. req[r].op \in Mutations /\ Card(t) \in Lossy!Legal(Card(Entity))
        BY <1>0, <1>2, <3>1, AfterTypes DEF RequestOK, FindTask
      <4>4. QED
        BY <3>1, <4>2, <4>3 DEF RequestOK, Forward
    <3>4. QED
      BY <3>2, <3>3
  <2>3. QED
    BY <2>1, <2>2
<1>3. ASSUME CheckRef(r)
      PROVE  RequestOK(r)' /\ \A x \in Requests : x # r => Kept(x)
  <2>1. CASE Return(r)
    BY <2>1, ReturnTypes, IdleOK DEF Kept
  <2>2. CASE ~ Return(r)
    <3>1. PICK t \in After(req[r].op, req[r].arg, req[r].task) :
            req' = [req EXCEPT ![r] = [@ EXCEPT !.task = t]]
      BY <1>3, <2>2 DEF CheckRef
    <3>2. /\ req'[r].task = t /\ req'[r].op = req[r].op
          /\ pc'[r] = "update"
          /\ \A x \in Requests : x # r => Kept(x)
      BY <1>3, <2>2, <3>1, GotoTypes DEF Request, Kept, CheckRef
    <3>3. req[r].op \in Mutations /\ Card(t) \in Lossy!Legal(Card(req[r].task))
      BY <1>0, <1>3, AfterTypes, FieldTypes DEF RequestOK, CheckRef
    <3>4. QED
      BY <1>0, <1>3, <3>2, <3>3 DEF RequestOK, Forward, CheckRef
  <2>3. QED
    BY <2>1, <2>2
<1>4. ASSUME UpdateTask(r)
      PROVE  RequestOK(r)' /\ \A x \in Requests : x # r => Kept(x)
  <2>1. CASE Return(r)
    BY <2>1, ReturnTypes, IdleOK DEF Kept
  <2>2. CASE ~ Return(r)
    <3>1. /\ pc'[r] = "dropEntry" /\ req' = req
          /\ \A x \in Requests : x # r => Kept(x)
          /\ Card(req[r].task) \in past'
      BY <1>4, <2>2, GotoTypes DEF UpdateTask, Kept, Store, Card
    <3>2. req[r].op \in AllOps /\ req[r].op # "delete"
      BY <1>0, <1>4 DEF RequestOK, UpdateTask, AllOps, Mutations
    <3>3. Card(req[r].task).status = req[r].task.status
      BY DEF Card
    <3>4. QED
      BY <3>1, <3>2, <3>3 DEF RequestOK
  <2>3. QED
    BY <2>1, <2>2
<1>5. ASSUME InsertTask(r)
      PROVE  RequestOK(r)' /\ \A x \in Requests : x # r => Kept(x)
  <2>1. CASE Return(r)
    BY <2>1, ReturnTypes, IdleOK DEF Kept
  <2>2. CASE ~ Return(r)
    <3>1. /\ pc'[r] = "dropList" /\ req' = req
          /\ \A x \in Requests : x # r => Kept(x)
          /\ Card([BlankRow EXCEPT !.assignee = req[r].arg]) \in past'
      BY <1>5, <2>2, GotoTypes DEF InsertTask, Kept, Store
    <3>2. Card([BlankRow EXCEPT !.assignee = req[r].arg]).status = BlankRow.status
      BY DEF Card, BlankRow
    <3>3. req[r].op = "create" /\ req[r].task = BlankRow
      BY <1>0, <1>5 DEF RequestOK, InsertTask
    <3>4. QED
      BY <3>1, <3>2, <3>3 DEF RequestOK, AllOps
  <2>3. QED
    BY <2>1, <2>2
<1>6. ASSUME ExistsTask(r) \/ DeleteObjects(r) \/ DeleteRow(r)
      PROVE  RequestOK(r)' /\ \A x \in Requests : x # r => Kept(x)
  <2>1. CASE Return(r)
    BY <2>1, ReturnTypes, IdleOK DEF Kept
  <2>2. CASE ~ Return(r)
    <3>1. /\ req' = req
          /\ \A x \in Requests : x # r => Kept(x)
          /\ \/ pc[r] = "exists" /\ pc'[r] = "deleteObjects" /\ life' = "stored"
             \/ pc[r] = "deleteObjects" /\ pc'[r] = "deleteRow"
             \/ /\ pc[r] = "deleteRow" /\ pc'[r] = "dropEntry"
                /\ life' = IF life = "stored" THEN "deleted" ELSE life
      BY <1>6, <2>2, GotoTypes DEF ExistsTask, DeleteObjects, DeleteRow, Kept
    <3>2. QED
      BY <1>0, <3>1 DEF RequestOK, Forward, AllOps
  <2>3. QED
    BY <2>1, <2>2
<1>7. ASSUME DropEntry(r) \/ DropList(r)
      PROVE  RequestOK(r)' /\ \A x \in Requests : x # r => Kept(x)
  <2>1. /\ req' = req
        /\ \A x \in Requests : x # r => Kept(x)
        /\ pc[r] \in {"dropEntry", "dropList"} /\ pc'[r] \in {"dropList", "publish"}
    BY <1>7, GotoTypes DEF DropEntry, DropList, Kept
  <2>2. QED
    BY <1>0, <2>1 DEF RequestOK, Forward
<1>8. ASSUME Publish(r)
      PROVE  RequestOK(r)' /\ \A x \in Requests : x # r => Kept(x)
  BY <1>8, ReturnTypes, IdleOK DEF Publish, Kept
<1>9. ASSUME GetEntry(r) \/ GetList(r) \/ Load(r) \/ LoadList(r) \/ LoadLabels(r)
      PROVE  RequestOK(r)' /\ \A x \in Requests : x # r => Kept(x)
  <2>1. pc'[r] \in {"idle", "load", "loadLabels", "fill", "loadList", "fillList"}
    BY <1>9, ReturnTypes, GotoTypes DEF GetEntry, GetList, Load, LoadList, LoadLabels
  <2>2. \A x \in Requests : x # r => Kept(x)
    BY <1>9, ReturnTypes, GotoTypes DEF GetEntry, GetList, Load, LoadList, LoadLabels, Kept
  <2>3. QED
    BY <2>1, <2>2, IdleOK
<1>10. ASSUME Fill(r) \/ FillList(r)
       PROVE  RequestOK(r)' /\ \A x \in Requests : x # r => Kept(x)
  BY <1>10, ReturnTypes, IdleOK DEF Fill, FillList, Kept
<1>11. QED
  BY <1>1, <1>2, <1>3, <1>4, <1>5, <1>6, <1>7, <1>8, <1>9, <1>10 DEF Step

\* The initial state satisfies the inductive invariant.
THEOREM InitIInv == Init => IInv
<1> SUFFICES ASSUME Init PROVE IInv
  OBVIOUS
<1>1. row \in Row
  BY NoRequestType DEF Init
<1>2. TypeOK
  <2>1. past \subseteq Cards
    BY <1>1, RowTypes DEF Init
  <2>2. /\ pc \in [Requests -> Steps] /\ req \in [Requests -> Request]
        /\ life \in {"absent", "stored", "deleted"}
    BY NoRequestType DEF Init, Steps
  <2>3. begun \in 0..MaxOps /\ faults \in 0..MaxFaults
    BY BoundsAssumption DEF Init
  <2>4. /\ users \subseteq Users \cup {Creator}
        /\ cached \in Row \cup {None} /\ listed \in Row \cup {None, Absent}
        /\ published \subseteq Event /\ late \subseteq {"entry", "list"}
    BY DEF Init
  <2>5. QED
    BY <1>1, <2>1, <2>2, <2>3, <2>4 DEF TypeOK
<1>3. QED
  BY <1>2 DEF Init, IInv, RowInv, RequestInv, RequestOK, EventsFollowWrites

\* The invariant is preserved by every step.
THEOREM NextIInv == IInv /\ [Next]_vars => IInv'
<1> SUFFICES ASSUME IInv, [Next]_vars PROVE IInv'
  OBVIOUS
<1>1. TypeOK' /\ Forward
  BY TypeStep, ForwardStep
<1>2. CASE UNCHANGED vars
  <2>1. RequestInv'
    BY <1>1, <1>2, KeptOK DEF vars, Kept, IInv, RequestInv
  <2>2. QED
    BY <1>1, <1>2, <2>1 DEF vars, IInv, RowInv, EventsFollowWrites
<1>3. ASSUME NEW r \in Requests, Step(r)
      PROVE  IInv'
  <2>1. RequestInv'
    BY <1>1, <1>3, RequestStep
  <2>2. RowInv'
    <3>1. CASE UpdateTask(r) \/ InsertTask(r)
      BY <3>1 DEF UpdateTask, InsertTask, Store, IInv, RowInv
    <3>2. CASE ~ (UpdateTask(r) \/ InsertTask(r))
      <4>1. UNCHANGED <<row, past>> /\ (life' = life \/ life = "stored")
        <5>1. CASE \/ \E op \in AllOps : \E arg \in ArgsOf(op) : Begin(r, op, arg)
                   \/ FindTask(r) \/ CheckRef(r) \/ ExistsTask(r) \/ DeleteObjects(r)
                   \/ DeleteRow(r)
          BY <5>1 DEF Begin, FindTask, CheckRef, ExistsTask, DeleteObjects, DeleteRow, dbVars
        <5>2. CASE \/ DropEntry(r) \/ DropList(r) \/ Publish(r) \/ GetEntry(r) \/ Load(r)
                   \/ LoadLabels(r) \/ Fill(r) \/ GetList(r) \/ LoadList(r) \/ FillList(r)
          BY <5>2 DEF DropEntry, DropList, Publish, GetEntry, Load, LoadLabels, Fill, GetList,
                      LoadList, FillList, dbVars
        <5>3. QED
          BY <1>3, <3>2, <5>1, <5>2 DEF Step
      <4>2. QED
        BY <4>1 DEF IInv, RowInv
    <3>3. QED
      BY <3>1, <3>2
  <2>3. EventsFollowWrites'
    <3>1. CASE Publish(r)
      <4>1. RequestOK(r)
        BY DEF IInv, RequestInv
      <4>2. QED
        BY <1>1, <3>1, <4>1
        DEF Publish, RequestOK, IInv, EventsFollowWrites, Forward
    <3>2. CASE ~ Publish(r)
      <4>1. UNCHANGED published
        <5>1. CASE \/ \E op \in AllOps : \E arg \in ArgsOf(op) : Begin(r, op, arg)
                   \/ FindTask(r) \/ CheckRef(r)
          BY <5>1 DEF Begin, FindTask, CheckRef
        <5>0. CASE \/ UpdateTask(r) \/ InsertTask(r) \/ ExistsTask(r) \/ DeleteObjects(r)
                   \/ DeleteRow(r)
          BY <5>0 DEF UpdateTask, InsertTask, ExistsTask, DeleteObjects, DeleteRow
        <5>2. CASE \/ DropEntry(r) \/ DropList(r) \/ GetEntry(r) \/ Load(r) \/ LoadLabels(r)
                   \/ Fill(r) \/ GetList(r) \/ LoadList(r) \/ FillList(r)
          BY <5>2 DEF DropEntry, DropList, GetEntry, Load, LoadLabels, Fill, GetList,
                      LoadList, FillList
        <5>3. QED
          BY <1>3, <3>2, <5>0, <5>1, <5>2 DEF Step
      <4>2. QED
        BY <1>1, <4>1 DEF IInv, EventsFollowWrites, Forward
    <3>3. QED
      BY <3>1, <3>2
  <2>4. QED
    BY <1>1, <2>1, <2>2, <2>3 DEF IInv
<1>4. CASE Elsewhere
  <2>1. \A x \in Requests : Kept(x)
    BY <1>4 DEF Elsewhere, Evict, DeleteUser, DeleteLabel, Kept
  <2>2. RequestInv'
    BY <1>1, <2>1, KeptOK DEF IInv, RequestInv
  <2>3. RowInv'
    <3>1. CASE \E label \in Labels : DeleteLabel(label)
      BY <3>1, RowTypes DEF DeleteLabel, IInv, RowInv, TypeOK, Card, Row
    <3>2. CASE Evict \/ \E user \in Users \cup {Creator} : DeleteUser(user)
      BY <3>2 DEF Evict, DeleteUser, Store, IInv, RowInv, dbVars
    <3>3. QED
      BY <1>4, <3>1, <3>2 DEF Elsewhere
  <2>4. EventsFollowWrites'
    <3>1. UNCHANGED published
      BY <1>4 DEF Elsewhere, Evict, DeleteUser, DeleteLabel
    <3>2. QED
      BY <1>1, <3>1 DEF IInv, EventsFollowWrites, Forward
  <2>5. QED
    BY <1>1, <2>2, <2>3, <2>4 DEF IInv
<1>5. QED
  BY <1>2, <1>3, <1>4 DEF Next

\* The invariant holds in every reachable state.
THEOREM InvariantIInv == Spec => []IInv
<1>1. QED
  BY InitIInv, NextIInv, PTL DEF Spec

\* Row, cache, requests and history are well typed in every reachable state.
THEOREM TypeCorrect == Spec => []TypeOK
<1>1. IInv => TypeOK
  BY DEF IInv
<1>2. QED
  BY <1>1, InvariantIInv, PTL

\* Subscribers are never told of a status the row did not have, nor of a
\* deletion that did not happen.
THEOREM EventsAreTrue == Spec => []EventsFollowWrites
<1>1. IInv => EventsFollowWrites
  BY DEF IInv
<1>2. QED
  BY <1>1, InvariantIInv, PTL

-----------------------------------------------------------------------------
(* Cache coherence, in instances without the operations that cascade         *)

NoCascades == Cascades \cap Ops = {}

\* A step keeps the cache coherent: writers pass through the steps that drop
\* the entries, and a fill of an old value is recorded in late.
LEMMA CacheStep ==
  ASSUME NoCascades, IInv, CacheCoherent, [Next]_vars
  PROVE  CacheCoherent'
<1> SUFFICES ASSUME faults' = 0 PROVE CacheCoherent'
  BY DEF CacheCoherent
<1> USE DEF dbVars, cacheVars
<1>0. pc \in [Requests -> Steps] /\ req \in [Requests -> Request]
      /\ faults \in 0..MaxFaults
  BY DEF IInv, TypeOK
<1>1. CASE UNCHANGED vars
  BY <1>1 DEF vars, CacheCoherent, Page, Entity
<1>2. ASSUME NEW r \in Requests, Step(r)
      PROVE  CacheCoherent'
  <2>0. \A ok : Call(ok) => faults = 0 /\ ok
    BY <1>0, BoundsAssumption DEF Call
  <2>1. CASE UpdateTask(r) \/ DeleteRow(r)
    <3>1. CASE Return(r)
      <4>1. UNCHANGED <<life, row, cached, listed, late>> /\ faults = 0
        BY <2>0, <2>1, <3>1, ReturnTypes, GotoTypes, <1>0 DEF UpdateTask, DeleteRow
      <4>2. \A x \in Requests : pc[x] \in {"dropEntry", "dropList"} => pc'[x] = pc[x]
        BY <1>0, <2>1, <3>1, ReturnTypes DEF UpdateTask, DeleteRow
      <4>3. QED
        BY <4>1, <4>2 DEF CacheCoherent, Page, Entity
    <3>2. CASE ~ Return(r)
      <4>1. pc'[r] = "dropEntry"
        BY <1>0, <2>1, <3>2, GotoTypes DEF UpdateTask, DeleteRow
      <4>2. QED
        BY <4>1 DEF CacheCoherent
    <3>3. QED
      BY <3>1, <3>2
  <2>2. CASE InsertTask(r)
    <3>1. /\ UNCHANGED <<cached, listed, late>> /\ faults = 0
          /\ pc[r] = "insert"
          /\ \A x \in Requests : pc[x] \in {"dropEntry", "dropList"} => pc'[x] = pc[x]
      BY <1>0, <2>0, <2>2, ReturnTypes, GotoTypes DEF InsertTask
    <3>2. CASE Return(r)
      <4>1. UNCHANGED <<life, row>>
        BY <1>0, <2>2, <3>2, ReturnTypes, GotoTypes DEF InsertTask
      <4>2. QED
        BY <3>1, <4>1 DEF CacheCoherent, Page, Entity
    <3>3. CASE ~ Return(r)
      <4>1. pc'[r] = "dropList" /\ life = "absent"
        BY <1>0, <2>2, <3>3, GotoTypes DEF InsertTask
      <4>2. QED
        BY <3>1, <4>1 DEF CacheCoherent
    <3>4. QED
      BY <3>2, <3>3
  <2>3. CASE DropEntry(r)
    <3>1. /\ cached' = None /\ UNCHANGED <<life, row, listed, late>> /\ faults = 0
          /\ pc'[r] = "dropList"
      BY <1>0, <2>0, <2>3, GotoTypes DEF DropEntry
    <3>2. QED
      BY <3>1 DEF CacheCoherent
  <2>4. CASE DropList(r)
    <3>1. /\ listed' = None /\ UNCHANGED <<life, row, cached, late>> /\ faults = 0
          /\ pc[r] = "dropList"
          /\ \A x \in Requests : pc[x] = "dropEntry" => pc'[x] = pc[x]
      BY <1>0, <2>0, <2>4, GotoTypes DEF DropList
    <3>2. QED
      BY <3>1 DEF CacheCoherent
  <2>5. CASE Fill(r) \/ FillList(r)
    <3>1. /\ UNCHANGED <<life, row>> /\ faults = 0
          /\ \A x \in Requests : pc[x] \in {"dropEntry", "dropList"} => pc'[x] = pc[x]
      BY <1>0, <2>0, <2>5, ReturnTypes DEF Fill, FillList
    <3>2. /\ \/ cached' = cached
             \/ life = "stored" /\ cached' = row
             \/ "entry" \in late'
          /\ listed' = listed \/ listed' = Page \/ "list" \in late'
          /\ late \subseteq late'
      BY <2>0, <2>5 DEF Fill, FillList
    <3>3. QED
      BY <3>1, <3>2 DEF CacheCoherent, Page, Entity
  <2>6. CASE ~ (\/ UpdateTask(r) \/ DeleteRow(r) \/ InsertTask(r) \/ DropEntry(r)
                \/ DropList(r) \/ Fill(r) \/ FillList(r))
    <3>1. UNCHANGED <<life, row, cached, listed, late>>
      BY <1>2, <2>6
      DEF Step, Begin, FindTask, CheckRef, ExistsTask, DeleteObjects, Publish, GetEntry,
          Load, LoadLabels, GetList, LoadList
    <3>2. faults = 0
      BY <1>2, <2>0, <2>6
      DEF Step, Begin, FindTask, CheckRef, ExistsTask, DeleteObjects, Publish, GetEntry,
          Load, LoadLabels, GetList, LoadList
    <3>3. pc[r] \notin {"dropEntry", "dropList"}
      BY <1>2, <2>6
      DEF Step, Begin, FindTask, CheckRef, ExistsTask, DeleteObjects, Publish, GetEntry,
          Load, LoadLabels, GetList, LoadList
    <3>4. \A x \in Requests : x # r => pc'[x] = pc[x]
      <4>1. Return(r) \/ \E s : Goto(r, s)
        BY <1>2, <2>6
        DEF Step, Begin, FindTask, CheckRef, ExistsTask, DeleteObjects, Publish, GetEntry,
            Load, LoadLabels, GetList, LoadList
      <4>2. QED
        BY <1>0, <4>1, GotoTypes, ReturnTypes
    <3>5. QED
      BY <3>1, <3>2, <3>3, <3>4 DEF CacheCoherent, Page, Entity
  <2>7. QED
    BY <2>1, <2>2, <2>3, <2>4, <2>5, <2>6
<1>3. CASE Elsewhere
  BY <1>3 DEF Elsewhere, Evict, DeleteUser, DeleteLabel, NoCascades, Cascades,
     CacheCoherent, Page, Entity
<1>4. QED
  BY <1>2, <1>1, <1>3 DEF Next

\* Where no other use case deletes users or labels: without failed calls a
\* cached task or page is what is stored, is about to be dropped, or was filled
\* by a read that a write overtook.
THEOREM Coherence == ASSUME NoCascades PROVE Spec => []CacheCoherent
<1>1. Init => CacheCoherent
  BY DEF Init, CacheCoherent
<1>2. IInv /\ CacheCoherent /\ [Next]_vars => CacheCoherent'
  BY CacheStep
<1>3. QED
  BY <1>1, <1>2, InvariantIInv, PTL DEF Spec

-----------------------------------------------------------------------------
(* The task store implements TaskLifecycle                                  *)

\* FindTask moves the request alone: on to its next call, or back to its caller.
LEMMA FindFrame ==
  ASSUME NEW r \in Requests, FindTask(r)
  PROVE  pc[r] = "find" /\ UNCHANGED <<life, row, users, past>>
BY Zenon DEF FindTask, dbVars

\* What it has read: the row as it is.
LEMMA FindReads ==
  ASSUME NEW r \in Requests, FindTask(r), ~Return(r)
  PROVE  life = "stored"
BY Zenon DEF FindTask

LEMMA FindLooks ==
  ASSUME NEW r \in Requests, FindTask(r), ~Return(r), req[r].op \in NeedsRef
  PROVE  /\ req' = [req EXCEPT ![r] = [@ EXCEPT !.task = Entity]]
         /\ Goto(r, "checkRef")
BY Zenon DEF FindTask

LEMMA FindChanges ==
  ASSUME NEW r \in Requests, FindTask(r), ~Return(r), req[r].op \notin NeedsRef
  PROVE  \E t \in After(req[r].op, req[r].arg, Entity) :
           /\ req' = [req EXCEPT ![r] =
                        [[@ EXCEPT !.task = t] EXCEPT !.arg =
                           IF req[r].op = "unassign" THEN row.assignee
                                                     ELSE req[r].arg]]
           /\ Goto(r, "update")
BY Zenon DEF FindTask

\* A step that is no update creates the task, takes the assignee off it, removes
\* it, or is invisible.
LEMMA OtherStep ==
  ASSUME IInv, IInv', [Next]_vars, \A r \in Requests : ~UpdateTask(r)
  PROVE  UNCHANGED <<life, card, past>> \/ Lossy!Create \/ Lossy!Clear \/ Lossy!Remove
<1> USE DEF dbVars, card
<1>1. UNCHANGED <<life, row, past>> => UNCHANGED <<life, card, past>>
  OBVIOUS
<1>2. ASSUME NEW r \in Requests, Step(r)
      PROVE  UNCHANGED <<life, row, past>> \/ Lossy!Create \/ Lossy!Remove
  <2>1. CASE InsertTask(r)
    <3>1. CASE ~ UNCHANGED <<life, row, past>>
      <4>1. /\ life = "absent" /\ life' = "stored"
            /\ Card(row').status = "TODO" /\ past' = past \cup {Card(row')}
        BY <2>1, <3>1 DEF InsertTask, Store, Card, BlankRow
      <4>2. Card(row') \in Lossy!Cards
        BY DEF IInv, TypeOK, Row, Card, Lossy!Cards, Lossy!Statuses, Statuses
      <4>3. QED
        BY <4>1, <4>2 DEF Lossy!Create, Lossy!Become
    <3>2. QED
      BY <3>1
  <2>2. CASE DeleteRow(r)
    BY <2>2 DEF DeleteRow, Lossy!Remove
  <2>3. CASE FindTask(r)
    BY <2>3, FindFrame
  <2>4. CASE ~ (InsertTask(r) \/ DeleteRow(r) \/ FindTask(r))
    BY <1>2, <2>4
    DEF Step, Begin, CheckRef, ExistsTask, DeleteObjects, DropEntry,
        DropList, Publish, GetEntry, Load, LoadLabels, Fill, GetList, LoadList, FillList
  <2>5. QED
    BY <2>1, <2>2, <2>3, <2>4
<1>3. ASSUME Elsewhere
      PROVE  UNCHANGED <<life, card, past>> \/ Lossy!Clear \/ Lossy!Remove
  <2>1. CASE Evict
    BY <1>1, <2>1 DEF Evict
  <2>2. ASSUME NEW label, DeleteLabel(label)
        PROVE  UNCHANGED <<life, card, past>>
    BY <2>2 DEF DeleteLabel, Card, IInv, TypeOK, Row
  <2>3. ASSUME NEW user, DeleteUser(user)
        PROVE  UNCHANGED <<life, card, past>> \/ Lossy!Clear \/ Lossy!Remove
    <3>1. CASE UNCHANGED <<life, row, past>>
      BY <1>1, <3>1
    <3>2. CASE life = "stored" /\ life' = "deleted" /\ UNCHANGED <<row, past>>
      BY <3>2 DEF Lossy!Remove
    <3>3. CASE life = "stored" /\ UNCHANGED life
               /\ Store([row EXCEPT !.assignee = None])
      <4>1. Card(row') = [Card(row) EXCEPT !.assignee = None]
        BY <3>3 DEF Store, Card, IInv, TypeOK, Row
      <4>2. QED
        BY <3>3, <4>1 DEF Store, Lossy!Clear, Lossy!Become
    <3>4. QED
      BY <2>3, <3>1, <3>2, <3>3 DEF DeleteUser
  <2>4. QED
    BY <1>3, <2>1, <2>2, <2>3 DEF Elsewhere
<1>4. CASE UNCHANGED vars
  BY <1>1, <1>4 DEF vars
<1>5. QED
  BY <1>1, <1>2, <1>3, <1>4 DEF Next

\* An update writes the entity of the request, or nothing.
LEMMA UpdateWrites ==
  ASSUME NEW r \in Requests, UpdateTask(r), ~ UNCHANGED <<life, card, past>>
  PROVE  /\ pc[r] = "update" /\ life = "stored" /\ life' = life
         /\ card' = Card(req[r].task) /\ past' = past \cup {card'}
         /\ Assignable(req[r].task)
BY DEF UpdateTask, Store, Card, card, Assignable

\* Every step is a legal update of some row of the past, or invisible.
LEMMA LossyStep ==
  ASSUME IInv, IInv', [Next]_vars
  PROVE  [Lossy!Next]_<<life, card, past>>
<1>1. ASSUME NEW r \in Requests, UpdateTask(r), ~ UNCHANGED <<life, card, past>>
      PROVE  Lossy!Write
  <2>1. PICK base \in past : Card(req[r].task) \in Lossy!Legal(base)
    BY <1>1 DEF UpdateTask, IInv, RequestInv, RequestOK
  <2>2. QED
    BY <1>1, <2>1, UpdateWrites DEF Lossy!Write, Lossy!Become
<1>2. QED
  BY <1>1, OtherStep DEF Lossy!Next

\* However requests interleave and whatever calls fail, every row that is
\* stored is a legal update of a row that was stored before, and a deleted task
\* stays deleted: lost updates are the only anomaly of the task store.
THEOREM ImplementsLifecycle == Spec => UpdatesAreLegal
<1>1. Init => Lossy!Init
  BY NoRequestType DEF Init, Lossy!Init, card, Card, Lossy!Cards, Lossy!Statuses, Statuses, Row
<1>2. IInv /\ IInv' /\ [Next]_vars => [Lossy!Next]_<<life, card, past>>
  BY LossyStep
<1>3. QED
  BY <1>1, <1>2, InvariantIInv, PTL DEF Spec, UpdatesAreLegal, Lossy!Spec

-----------------------------------------------------------------------------
(* One request at a time follows the status machine                         *)

\* What a method makes of the row that was read is legal for the row there is,
\* unless it has an assignee that is gone.
LEMMA LegalHere ==
  ASSUME row \in Row, NEW t \in Row, t.status = row.status,
         Assignable(t) => t.assignee = row.assignee,
         NEW op \in Mutations, NEW arg \in ArgsOf(op),
         NEW new \in After(op, arg, t), Assignable(new)
  PROVE  Card(new) \in Strict!Legal(card)
<1> USE DEF card, Card, Row, Strict!Legal, Strict!Cards, Strict!Statuses, Statuses
<1>1. Card(new) \in Lossy!Legal(Card(t)) /\ new \in Row
  BY AfterTypes
<1>2. CASE t.assignee = row.assignee
  BY <1>1, <1>2 DEF Lossy!Legal, Lossy!Cards, Lossy!Statuses
<1>3. CASE op = "assign"
  <2>1. t.status # "ARCHIVED" /\ new.status = t.status
    BY <1>3 DEF After, Assign
  <2>2. QED
    BY <1>1, <2>1
<1>4. CASE op = "unassign"
  <2>1. new.assignee = None /\ new.status = t.status
    BY <1>4 DEF After
  <2>2. QED
    BY <1>1, <2>1
<1>5. CASE op \notin {"assign", "unassign"}
  <2>1. new.assignee = t.assignee
    BY <1>5 DEF After, ChangeStatus, Complete, Archive, AddLabel, RemoveLabel, Mutations
  <2>2. QED
    BY <1>2, <2>1 DEF Assignable
<1>6. QED
  BY <1>3, <1>4, <1>5

\* Taking the account off the row leaves legal what does not assign it.
LEMMA LegalStays ==
  ASSUME NEW c \in Strict!Legal(card), c.assignee # row.assignee,
         row \in Row, row' = [row EXCEPT !.assignee = None]
  PROVE  c \in Strict!Legal(card')
BY DEF card, Card, Row, Strict!Legal

\* The steps of the request that reads and writes.
LEMMA SerialRequest ==
  ASSUME IInv, IInv', SerialInv, NEW r \in Requests, Step(r)
  PROVE  SerialOK(r)'
<1> USE DEF dbVars, cacheVars
<1>1. TypeOK /\ RequestOK(r) /\ SerialOK(r)
  BY DEF IInv, RequestInv, SerialInv
<1>2. pc'[r] \notin {"checkRef", "update"} => SerialOK(r)'
  BY DEF SerialOK
<1>3. Return(r) => pc'[r] = "idle"
  BY <1>1, ReturnTypes DEF TypeOK
<1>4. ASSUME NEW op \in AllOps, NEW arg \in ArgsOf(op), Begin(r, op, arg)
      PROVE  pc'[r] \notin {"checkRef", "update"}
  <2>1. pc'[r] = FirstStep(op)
    BY <1>1, <1>4, GotoTypes DEF Begin, TypeOK
  <2>2. QED
    BY <2>1 DEF FirstStep, AllOps
<1>5. CASE FindTask(r) /\ ~Return(r)
  <2>1. /\ life = "stored" /\ UNCHANGED <<life, row, users>>
        /\ req[r].op \in Mutations /\ req[r].arg \in ArgsOf(req[r].op)
    BY <1>1, <1>5, FindFrame, FindReads DEF RequestOK
  <2>2. Entity \in Row /\ Entity.status = row.status /\ Entity.assignee = row.assignee
    BY <1>1 DEF Entity, TypeOK, Row
  <2>3. CASE req[r].op \in NeedsRef
    <3>1. pc'[r] = "checkRef" /\ req'[r].task = Entity
      BY <1>1, <1>5, <2>3, FindLooks, GotoTypes DEF TypeOK, Request
    <3>2. QED
      BY <2>1, <2>2, <3>1 DEF SerialOK
  <2>4. CASE req[r].op \notin NeedsRef
    <3>1. PICK t \in After(req[r].op, req[r].arg, Entity) :
            /\ req' = [req EXCEPT ![r] =
                         [[@ EXCEPT !.task = t] EXCEPT !.arg =
                            IF req[r].op = "unassign" THEN row.assignee
                                                      ELSE req[r].arg]]
            /\ Goto(r, "update")
      BY <1>5, <2>4, FindChanges, Zenon
    <3>2. pc'[r] = "update" /\ req'[r].task = t
      BY <1>1, <3>1, GotoTypes DEF TypeOK, Request
    <3>3. Assignable(t) => Card(t) \in Strict!Legal(card)
      BY <1>1, <2>1, <2>2, LegalHere DEF TypeOK
    <3>4. QED
      BY <2>1, <3>2, <3>3 DEF SerialOK, Assignable, card
  <2>5. QED
    BY <2>3, <2>4
<1>6. CASE CheckRef(r) /\ ~Return(r)
  <2>1. PICK t \in After(req[r].op, req[r].arg, req[r].task) :
          req' = [req EXCEPT ![r] = [@ EXCEPT !.task = t]]
    BY <1>6 DEF CheckRef
  <2>2. /\ UNCHANGED <<life, row, users>> /\ pc[r] = "checkRef"
        /\ Goto(r, "update")
    BY <1>6 DEF CheckRef
  <2>3. pc'[r] = "update" /\ req'[r].task = t /\ req[r].task \in Row
    BY <1>1, <2>1, <2>2, GotoTypes DEF TypeOK, Request
  <2>4. life = "stored" /\ Assignable(t) => Card(t) \in Strict!Legal(card)
    BY <1>1, <2>2, <2>3, LegalHere DEF SerialOK, RequestOK, TypeOK
  <2>5. QED
    BY <2>2, <2>3, <2>4 DEF SerialOK, Assignable, card
<1>7. CASE \/ UpdateTask(r) \/ InsertTask(r) \/ ExistsTask(r) \/ DeleteObjects(r)
           \/ DeleteRow(r)
  <2>1. pc'[r] \notin {"checkRef", "update"}
    BY <1>1, <1>7, <1>3, GotoTypes
    DEF UpdateTask, InsertTask, ExistsTask, DeleteObjects, DeleteRow, TypeOK
  <2>2. QED
    BY <1>2, <2>1
<1>8. CASE DropEntry(r) \/ DropList(r) \/ Publish(r) \/ GetEntry(r) \/ Load(r)
  <2>1. pc'[r] \notin {"checkRef", "update"}
    BY <1>1, <1>8, <1>3, GotoTypes DEF DropEntry, DropList, Publish, GetEntry, Load, TypeOK
  <2>2. QED
    BY <1>2, <2>1
<1>9. CASE LoadLabels(r) \/ Fill(r) \/ GetList(r) \/ LoadList(r) \/ FillList(r)
  <2>1. pc'[r] \notin {"checkRef", "update"}
    BY <1>1, <1>9, <1>3, GotoTypes DEF LoadLabels, Fill, GetList, LoadList, FillList, TypeOK
  <2>2. QED
    BY <1>2, <2>1
<1>10. QED
  BY <1>2, <1>3, <1>4, <1>5, <1>6, <1>7, <1>8, <1>9 DEF Step

\* The deletion of an account between the steps of a request.
LEMMA SerialElsewhere ==
  ASSUME IInv, SerialInv, Elsewhere, NEW r \in Requests
  PROVE  SerialOK(r)' /\ (life' = "stored" => Assignable(row)')
<1> USE DEF dbVars, cacheVars
<1>1. TypeOK /\ SerialOK(r) /\ (life = "stored" => Assignable(row))
  BY DEF IInv, SerialInv
<1>2. CASE Evict
  BY <1>1, <1>2 DEF Evict, SerialOK, Assignable, card
<1>3. ASSUME NEW label, DeleteLabel(label)
      PROVE  SerialOK(r)' /\ (life' = "stored" => Assignable(row)')
  <2>1. /\ UNCHANGED <<life, users, pc, req>> /\ card' = card
        /\ row'.status = row.status /\ row'.assignee = row.assignee
    BY <1>1, <1>3 DEF DeleteLabel, card, Card, TypeOK, Row
  <2>2. QED
    BY <1>1, <2>1 DEF SerialOK, Assignable
<1>4. ASSUME NEW user, DeleteUser(user)
      PROVE  SerialOK(r)' /\ (life' = "stored" => Assignable(row)')
  <2>1. UNCHANGED <<pc, req>> /\ users' = users \ {user} /\ user \in users
    BY <1>4 DEF DeleteUser
  <2>2. \A t : Assignable(t)' => Assignable(t)
    BY <2>1 DEF Assignable
  <2>3. CASE user = Creator
    <3>1. life' # "stored"
      BY <1>1, <1>4, <2>3 DEF DeleteUser
    <3>2. QED
      BY <3>1 DEF SerialOK
  <2>4. CASE user # Creator /\ ~(life = "stored" /\ row.assignee = user)
    <3>1. UNCHANGED <<life, row>> /\ card' = card
      BY <1>4, <2>4 DEF DeleteUser, card
    <3>2. QED
      BY <1>1, <2>1, <2>2, <2>4, <3>1 DEF SerialOK, Assignable
  <2>5. CASE user # Creator /\ life = "stored" /\ row.assignee = user
    <3>1. /\ UNCHANGED life /\ row' = [row EXCEPT !.assignee = None]
          /\ row'.status = row.status /\ row'.assignee = None
      BY <1>1, <1>4, <2>5 DEF DeleteUser, Store, TypeOK, Row
    <3>2. user # None
      BY <1>1, <2>1, <2>5, NoneAssumption DEF TypeOK
    <3>3. ASSUME pc[r] = "checkRef"
          PROVE  /\ req[r].task.status = row'.status
                 /\ Assignable(req[r].task)' => req[r].task.assignee = row'.assignee
      BY <1>1, <2>1, <2>2, <2>5, <3>1, <3>2, <3>3 DEF SerialOK, Assignable
    <3>4. ASSUME pc[r] = "update", Assignable(req[r].task)'
          PROVE  Card(req[r].task) \in Strict!Legal(card')
      <4>1. Card(req[r].task).assignee # row.assignee
        BY <2>1, <2>5, <3>2, <3>4 DEF Assignable, Card
      <4>2. Card(req[r].task) \in Strict!Legal(card)
        BY <1>1, <2>1, <2>2, <2>5, <3>4 DEF SerialOK
      <4>3. QED
        BY <1>1, <3>1, <4>1, <4>2, LegalStays DEF TypeOK
    <3>5. Assignable(row)'
      BY <3>1 DEF Assignable
    <3>6. QED
      BY <2>1, <3>3, <3>4, <3>5 DEF SerialOK
  <2>6. QED
    BY <2>3, <2>4, <2>5
<1>5. QED
  BY <1>2, <1>3, <1>4 DEF Elsewhere

\* A row that is stored never names an assignee who is gone.
LEMMA RowAssignable ==
  ASSUME IInv, SerialInv, NEW r \in Requests, Step(r), life' = "stored"
  PROVE  Assignable(row)'
<1> USE DEF dbVars, cacheVars
<1>1. TypeOK /\ (life = "stored" => Assignable(row))
  BY DEF IInv, SerialInv
<1>2. CASE UpdateTask(r)
  <2>1. users' = users /\ life' = life
    BY <1>2 DEF UpdateTask
  <2>2. CASE row' = row
    BY <1>1, <2>1, <2>2 DEF Assignable
  <2>3. CASE row' # row
    <3>1. row'.assignee = req[r].task.assignee /\ req[r].task.assignee \in users \cup {None}
      BY <1>2, <2>3 DEF UpdateTask, Store
    <3>2. QED
      BY <2>1, <3>1 DEF Assignable
  <2>4. QED
    BY <2>2, <2>3
<1>3. CASE InsertTask(r)
  <2>1. users' = users
    BY <1>3 DEF InsertTask
  <2>2. CASE UNCHANGED <<life, row>>
    BY <1>1, <2>1, <2>2 DEF Assignable
  <2>3. CASE ~UNCHANGED <<life, row>>
    <3>1. row'.assignee = req[r].arg /\ req[r].arg \in users \cup {None}
      BY <1>3, <2>3 DEF InsertTask, Store, BlankRow
    <3>2. QED
      BY <2>1, <3>1 DEF Assignable
  <2>4. QED
    BY <2>2, <2>3
<1>4. CASE DeleteRow(r)
  BY <1>1, <1>4 DEF DeleteRow, Assignable
<1>5. CASE ~(UpdateTask(r) \/ InsertTask(r) \/ DeleteRow(r))
  <2>1. UNCHANGED <<life, row, users>>
    <3>1. CASE FindTask(r)
      BY <3>1, FindFrame
    <3>2. CASE ~FindTask(r)
      BY <1>5, <3>2
      DEF Step, Begin, CheckRef, ExistsTask, DeleteObjects, DropEntry,
          DropList, Publish, GetEntry, Load, LoadLabels, Fill, GetList, LoadList, FillList
    <3>3. QED
      BY <3>1, <3>2
  <2>2. QED
    BY <1>1, <2>1 DEF Assignable
<1>6. QED
  BY <1>2, <1>3, <1>4, <1>5

LEMMA InitSerial == Init => SerialInv
BY DEF Init, SerialInv, SerialOK, Assignable, Row, BlankRow

LEMMA NextSerial ==
  ASSUME Solo, IInv, IInv', SerialInv, [Next]_vars
  PROVE  SerialInv'
<1>1. CASE UNCHANGED vars
  BY <1>1 DEF vars, SerialInv, SerialOK, Assignable, card
<1>2. CASE Elsewhere
  BY <1>2, SerialElsewhere DEF SerialInv, Solo
<1>3. ASSUME NEW r \in Requests, Step(r)
      PROVE  SerialInv'
  <2>1. SerialOK(r)' /\ (life' = "stored" => Assignable(row)')
    BY <1>3, SerialRequest, RowAssignable
  <2>2. Requests = {r}
    BY DEF Solo
  <2>3. QED
    BY <2>1, <2>2 DEF SerialInv
<1>4. QED
  BY <1>1, <1>2, <1>3 DEF Next

\* With one request at a time an update is legal for the row it overwrites.
LEMMA StrictStep ==
  ASSUME IInv, IInv', SerialInv, [Next]_vars
  PROVE  [Strict!Next]_<<life, card, past>>
<1>1. ASSUME NEW r \in Requests, UpdateTask(r), ~ UNCHANGED <<life, card, past>>
      PROVE  Strict!Write
  <2>1. Card(req[r].task) \in Strict!Legal(card)
    BY <1>1, UpdateWrites DEF SerialInv, SerialOK
  <2>2. QED
    BY <1>1, <2>1, UpdateWrites DEF Strict!Write, Strict!Become
<1>2. /\ Lossy!Create => Strict!Create
      /\ Lossy!Clear => Strict!Clear
      /\ Lossy!Remove => Strict!Remove
  BY DEF Lossy!Create, Lossy!Clear, Lossy!Remove, Lossy!Become, Lossy!Cards,
         Lossy!Statuses, Strict!Create, Strict!Clear, Strict!Remove, Strict!Become,
         Strict!Cards, Strict!Statuses
<1>3. QED
  BY <1>1, <1>2, OtherStep DEF Strict!Next

\* With one request at a time the task store follows the status machine: every
\* update is legal for the row it overwrites (entity.Task, UpdateTask).
THEOREM SerialUpdates == ASSUME Solo PROVE Spec => SerialUpdatesAreLegal
<1>1. Init => Strict!Init
  BY NoRequestType DEF Init, Strict!Init, card, Card, Strict!Cards, Strict!Statuses, Statuses, Row
<1>2. IInv /\ IInv' /\ SerialInv /\ [Next]_vars => [Strict!Next]_<<life, card, past>>
  BY StrictStep
<1>3. IInv /\ IInv' /\ SerialInv /\ [Next]_vars => SerialInv'
  BY NextSerial
<1>4. QED
  BY <1>1, <1>2, <1>3, InitSerial, InvariantIInv, PTL
  DEF Spec, SerialUpdatesAreLegal, Strict!Spec
=============================================================================
