-------------------------- MODULE AttachmentsProofs --------------------------
(***************************************************************************)
(* Proofs about Attachments for every number of requests, uploads and      *)
(* failures.                                                               *)
(***************************************************************************)
EXTENDS Attachments, TLAPS

-----------------------------------------------------------------------------
(* Lemmas about the control helpers                                          *)

\* An upload cut short returns; the rest is history.
USE DEF CutShort

ControlOK == pc \in [Requests -> Steps] /\ req \in [Requests -> Request]

\* The other requests stay where they are.
Others(r) == \A x \in Requests : x # r => pc'[x] = pc[x] /\ req'[x] = req[x]

LEMMA NoRequestType ==
  NoRequest \in Request /\ NoRequest.listed = {} /\ NoRequest.todo = {}
  BY DEF NoRequest, Request

LEMMA StayFacts ==
  ASSUME ControlOK, NEW r \in Requests, NEW s \in Steps, Stay(r, s)
  PROVE  ControlOK' /\ Others(r) /\ pc'[r] = s /\ req'[r] = req[r]
  BY DEF ControlOK, Others, Stay, Goto

LEMMA ReturnFacts ==
  ASSUME ControlOK, NEW r \in Requests, Return(r)
  PROVE  ControlOK' /\ Others(r) /\ pc'[r] = "idle" /\ req'[r] = NoRequest
  BY NoRequestType DEF ControlOK, Others, Return, Goto, Steps

LEMMA StartFacts ==
  ASSUME ControlOK, NEW r \in Requests, NEW op \in {"upload", "delete", "deleteTask"},
         NEW att \in Attachments \cup {None}, NEW s \in Steps, Start(r, op, att, s)
  PROVE  /\ ControlOK' /\ Others(r) /\ pc[r] = "idle" /\ pc'[r] = s
         /\ req'[r].op = op /\ req'[r].att = att
         /\ req'[r].listed = {} /\ req'[r].todo = {}
  BY DEF ControlOK, Others, Start, Goto, NoRequest, Request

LEMMA PlanFacts ==
  ASSUME ControlOK, NEW r \in Requests, NEW atts \in SUBSET Attachments, Plan(r, atts)
  PROVE  /\ ControlOK' /\ Others(r)
         /\ pc'[r] = IF atts = {} THEN "deleteRow" ELSE "deleteObject"
         /\ req'[r].op = req[r].op /\ req'[r].att = req[r].att
         /\ req'[r].listed = atts /\ req'[r].todo = atts
  BY DEF ControlOK, Others, Plan, Goto, Request, Steps, DeleteSteps

LEMMA NextObjectFacts ==
  ASSUME ControlOK, NEW r \in Requests, NEW a, NextObject(r, a)
  PROVE  /\ ControlOK' /\ Others(r)
         /\ pc'[r] = IF req[r].todo \ {a} = {} THEN "deleteRow" ELSE "deleteObject"
         /\ req'[r].op = req[r].op /\ req'[r].att = req[r].att
         /\ req'[r].listed = req[r].listed /\ req'[r].todo = req[r].todo \ {a}
  BY DEF ControlOK, Others, NextObject, Goto, Request, Steps, DeleteSteps

\* The request turns to the object a and asks for a retry.
LEMMA AskFacts ==
  ASSUME ControlOK, NEW r \in Requests, NEW a \in Attachments,
         req' = [req EXCEPT ![r].att = a], Goto(r, "publish")
  PROVE  /\ ControlOK' /\ Others(r) /\ pc'[r] = "publish"
         /\ req'[r].op = req[r].op /\ req'[r].att = a
         /\ req'[r].listed = req[r].listed /\ req'[r].todo = req[r].todo
  BY DEF ControlOK, Others, Goto, Request, Steps

LEMMA CallFacts ==
  ASSUME faults \in 0..MaxFaults, NEW ok, Call(ok)
  PROVE  /\ faults' \in 0..MaxFaults
         /\ ok => faults' = faults
         /\ ~ok => faults' = faults + 1
  BY FaultsAssumption DEF Call

LEMMA OutcomeFacts ==
  ASSUME NEW ok, NEW before, NEW after, NEW x \in Outcome(ok, before, after)
  PROVE  (x = before \/ x = after) /\ (ok => x = after)
  BY DEF Outcome

\* The fields of a request's local variables.
LEMMA FieldTypes ==
  ASSUME ControlOK, NEW r \in Requests
  PROVE  /\ pc[r] \in Steps
         /\ req[r].op \in {"upload", "delete", "deleteTask", None}
         /\ req[r].att \in Attachments \cup {None}
         /\ req[r].listed \subseteq Attachments /\ req[r].todo \subseteq Attachments
  BY DEF ControlOK, Request

LEMMA StepNames ==
  Steps = {"idle", "publish", "checkTask", "putObject", "headObject", "saveRow",
           "rollback", "findRow", "existsTask", "listRows", "deleteObject", "deleteRow"}
  BY DEF Steps, UploadSteps, DeleteSteps

-----------------------------------------------------------------------------
(* Every action: the control state, and that the other requests wait         *)

\* A step of a request keeps the control state typed and moves only itself.
LEMMA ControlStep ==
  ASSUME TypeOK, NEW r \in Requests, Step(r)
  PROVE  /\ ControlOK' /\ Others(r) /\ UNCHANGED kafkaVars
         /\ faults' \in 0..MaxFaults /\ faults' >= faults
<1> USE DEF TypeOK
<1>0. ControlOK
  BY DEF ControlOK
<1>1. CASE \E a \in Attachments : BeginUpload(r, a) \/ BeginDelete(r, a)
  BY <1>0, <1>1, StartFacts, StepNames DEF BeginUpload, BeginDelete
<1>2. CASE BeginDeleteTask(r)
  BY <1>0, <1>2, StartFacts, StepNames DEF BeginDeleteTask
<1>3. CASE CheckTask(r) \/ HeadObject(r) \/ ExistsTask(r)
  BY <1>0, <1>3, StayFacts, ReturnFacts, CallFacts, StepNames
  DEF CheckTask, HeadObject, ExistsTask
<1>4. CASE PutObject(r)
  BY <1>0, <1>4, StayFacts, ReturnFacts, CallFacts, StepNames DEF PutObject
<1>5. CASE SaveRow(r)
  BY <1>0, <1>5, StayFacts, ReturnFacts, CallFacts, StepNames DEF SaveRow
<1>6. CASE Rollback(r)
  BY <1>0, <1>6, StayFacts, ReturnFacts, CallFacts, StepNames DEF Rollback
<1>7. CASE FindRow(r)
  BY <1>0, <1>7, PlanFacts, ReturnFacts, CallFacts DEF FindRow
<1>8. CASE ListRows(r)
  BY <1>0, <1>8, PlanFacts, ReturnFacts, CallFacts DEF ListRows
<1>9. CASE DeleteObject(r)
  BY <1>0, <1>9, FieldTypes, NextObjectFacts, AskFacts, CallFacts DEF DeleteObject
<1>10. CASE Publish(r)
  BY <1>0, <1>10, NextObjectFacts, ReturnFacts, CallFacts DEF Publish
<1>11. CASE DeleteRow(r)
  BY <1>0, <1>11, ReturnFacts, CallFacts DEF DeleteRow
<1>12. QED
  BY <1>1, <1>2, <1>3, <1>4, <1>5, <1>6, <1>7, <1>8, <1>9, <1>10, <1>11 DEF Step

-----------------------------------------------------------------------------
(* Types                                                                    *)

LEMMA HeldAttachment ==
  ASSUME TypeOK, UsedInv, NEW r \in Requests, pc[r] \in Holding
  PROVE  req[r].att \in used /\ req[r].att \in Attachments
  BY DEF TypeOK, UsedInv

LEMMA TypeStep ==
  ASSUME TypeOK, RequestInv, UsedInv, [Next]_vars
  PROVE  TypeOK'
<1> USE DEF TypeOK, kafkaVars, storeVars, queueVars, historyVars
<1>1. CASE UNCHANGED vars
  BY <1>1 DEF vars
<1>2. ASSUME NEW r \in Requests, Step(r)
      PROVE  TypeOK'
  <2>0. ControlOK' /\ faults' \in 0..MaxFaults /\ UNCHANGED kafkaVars
    BY <1>2, ControlStep
  <2>. USE <2>0 DEF ControlOK
  <2>1. CASE \E a \in Attachments : BeginUpload(r, a) \/ BeginDelete(r, a)
    BY <2>1 DEF BeginUpload, BeginDelete
  <2>2. CASE \/ BeginDeleteTask(r) \/ CheckTask(r) \/ ExistsTask(r)
             \/ FindRow(r) \/ ListRows(r)
    BY <2>2 DEF BeginDeleteTask, CheckTask, ExistsTask, FindRow, ListRows, Plan
  <2>3. CASE PutObject(r) \/ HeadObject(r)
    <3>1. req[r].att \in Attachments
      BY <2>3, HeldAttachment DEF PutObject, HeadObject, Holding, UploadSteps
    <3>2. QED
      BY <2>3, <3>1, OutcomeFacts DEF PutObject, HeadObject
  <2>4. CASE SaveRow(r)
    <3>1. req[r].att \in Attachments
      BY <2>4, HeldAttachment DEF SaveRow, Holding, UploadSteps
    <3>2. QED
      BY <2>4, <3>1, OutcomeFacts DEF SaveRow
  <2>5. CASE Rollback(r)
    BY <2>5, OutcomeFacts DEF Rollback
  <2>6. CASE DeleteObject(r)
    BY <2>6, OutcomeFacts DEF DeleteObject
  <2>7. CASE Publish(r)
    <3>1. req[r].att \in Attachments
      BY <2>7, HeldAttachment DEF Publish, Holding
    <3>2. QED
      BY <2>7, <3>1, OutcomeFacts DEF Publish
  <2>8. CASE DeleteRow(r)
    BY <2>8, FieldTypes DEF DeleteRow
  <2>9. QED
    BY <1>2, <2>1, <2>2, <2>3, <2>4, <2>5, <2>6, <2>7, <2>8 DEF Step
<1>3. ASSUME NEW a \in Attachments, Deliver(a) \/ Handle(a)
      PROVE  TypeOK'
  BY <1>3, CallFacts, OutcomeFacts DEF Deliver, Handle
<1>4. CASE Crash
  BY <1>4, CallFacts, NoRequestType, StepNames DEF Crash, Sessions
<1>5. CASE Rebalance \/ DeleteUser
  BY <1>5 DEF Rebalance, DeleteUser
<1>6. QED
  BY <1>1, <1>2, <1>3, <1>4, <1>5 DEF Next, Consume

-----------------------------------------------------------------------------
(* Local variables                                                          *)

LEMMA RequestStep ==
  ASSUME TypeOK, RequestInv, [Next]_vars
  PROVE  RequestInv'
<1>0. ControlOK /\ faults \in 0..MaxFaults
  BY DEF TypeOK, ControlOK
<1>1. CASE UNCHANGED vars
  BY <1>1 DEF vars, RequestInv, RequestOK
<1>2. ASSUME NEW r \in Requests, Step(r)
      PROVE  RequestInv'
  <2>0. ControlOK' /\ Others(r) /\ faults' \in 0..MaxFaults /\ faults' >= faults
    BY <1>2, ControlStep
  <2>1. ASSUME NEW x \in Requests, x # r
        PROVE  RequestOK(x)'
    BY <1>0, <2>0, <2>1 DEF Others, RequestInv, RequestOK
  <2>2. RequestOK(r)
    BY DEF RequestInv
  <2>3. RequestOK(r)'
    <3>1. CASE \/ \E a \in Attachments : BeginUpload(r, a) \/ BeginDelete(r, a)
               \/ BeginDeleteTask(r)
      BY <1>0, <3>1, StartFacts, StepNames
      DEF BeginUpload, BeginDelete, BeginDeleteTask, RequestOK, UploadSteps,
          DeleteSteps, Deletions
    <3>2. CASE CheckTask(r) \/ PutObject(r) \/ HeadObject(r) \/ SaveRow(r) \/ Rollback(r)
      BY <1>0, <2>2, <3>2, StayFacts, ReturnFacts, NoRequestType, CallFacts, StepNames
      DEF CheckTask, PutObject, HeadObject, SaveRow, Rollback, RequestOK, UploadSteps,
          DeleteSteps, Deletions
    <3>3. CASE ExistsTask(r) \/ DeleteRow(r)
      BY <1>0, <2>2, <3>3, StayFacts, ReturnFacts, NoRequestType, CallFacts, StepNames
      DEF ExistsTask, DeleteRow, RequestOK, UploadSteps, DeleteSteps, Deletions
    <3>4. CASE FindRow(r) \/ ListRows(r)
      BY <1>0, <2>2, <3>4, PlanFacts, ReturnFacts, NoRequestType, CallFacts
      DEF TypeOK, FindRow, ListRows, RequestOK, UploadSteps, DeleteSteps, Deletions
    <3>5. CASE DeleteObject(r)
      BY <1>0, <2>2, <3>5, FieldTypes, NextObjectFacts, AskFacts, CallFacts
      DEF DeleteObject, RequestOK, UploadSteps, DeleteSteps, Deletions
    <3>6. CASE Publish(r)
      BY <1>0, <2>2, <3>6, NextObjectFacts, ReturnFacts, NoRequestType, CallFacts
      DEF Publish, RequestOK, UploadSteps, DeleteSteps, Deletions
    <3>7. QED
      BY <1>2, <3>1, <3>2, <3>3, <3>4, <3>5, <3>6 DEF Step
  <2>4. QED
    BY <2>1, <2>3 DEF RequestInv
<1>3. ASSUME NEW a \in Attachments, Deliver(a) \/ Handle(a)
      PROVE  RequestInv'
  BY <1>0, <1>3, CallFacts DEF Deliver, Handle, RequestInv, RequestOK
<1>4. CASE Crash
  BY <1>4, NoRequestType DEF Crash, RequestInv, RequestOK, UploadSteps, DeleteSteps
<1>5. CASE Rebalance \/ DeleteUser
  BY <1>5 DEF Rebalance, DeleteUser, RequestInv, RequestOK
<1>6. QED
  BY <1>1, <1>2, <1>3, <1>4, <1>5 DEF Next, Consume

-----------------------------------------------------------------------------
(* Attachments are used before anything is known of them                    *)

LEMMA UsedStep ==
  ASSUME TypeOK, RequestInv, UsedInv, [Next]_vars
  PROVE  UsedInv'
<1>0. ControlOK /\ faults \in 0..MaxFaults
  BY DEF TypeOK, ControlOK
<1> USE DEF kafkaVars, storeVars, queueVars, historyVars
<1>1. CASE UNCHANGED vars
  BY <1>1 DEF vars, UsedInv
<1>2. ASSUME NEW r \in Requests, Step(r)
      PROVE  UsedInv'
  <2>0. ControlOK' /\ Others(r)
    BY <1>2, ControlStep
  <2>. DEFINE Known == rows \cup reported \cup topic \cup channel
  <2>. DEFINE Knows(x) == /\ req[x].listed \subseteq used
                          /\ pc[x] \in Holding => req[x].att \in used
  <2>1. RequestOK(r) /\ Knows(r)
    BY DEF RequestInv, UsedInv
  <2>2. used \subseteq used' /\ Known' \subseteq used' /\ Knows(r)'
    <3>1. CASE \/ \E a \in Attachments : BeginUpload(r, a) \/ BeginDelete(r, a)
               \/ BeginDeleteTask(r)
      BY <1>0, <3>1, StartFacts, StepNames
      DEF BeginUpload, BeginDelete, BeginDeleteTask, UsedInv, Holding, UploadSteps
    <3>2. CASE CheckTask(r) \/ PutObject(r) \/ HeadObject(r) \/ Rollback(r)
      BY <1>0, <2>1, <3>2, StayFacts, ReturnFacts, NoRequestType, StepNames
      DEF CheckTask, PutObject, HeadObject, Rollback, UsedInv, Holding, UploadSteps
    <3>3. CASE SaveRow(r)
      BY <1>0, <2>1, <3>3, StayFacts, ReturnFacts, NoRequestType, StepNames, OutcomeFacts
      DEF SaveRow, UsedInv, Holding, UploadSteps
    <3>4. CASE FindRow(r) \/ ExistsTask(r) \/ ListRows(r)
      BY <1>0, <2>1, <3>4, StayFacts, PlanFacts, ReturnFacts, NoRequestType, StepNames
      DEF TypeOK, FindRow, ExistsTask, ListRows, UsedInv, Holding, UploadSteps
    <3>5. CASE DeleteObject(r)
      BY <1>0, <2>1, <3>5, FieldTypes, NextObjectFacts, AskFacts
      DEF DeleteObject, UsedInv, Holding, UploadSteps, RequestOK
    <3>6. CASE Publish(r)
      BY <1>0, <2>1, <3>6, NextObjectFacts, ReturnFacts, NoRequestType, OutcomeFacts
      DEF Publish, UsedInv, Holding, UploadSteps
    <3>7. CASE DeleteRow(r)
      BY <1>0, <2>1, <3>7, ReturnFacts, NoRequestType
      DEF DeleteRow, UsedInv, Holding, UploadSteps
    <3>8. QED
      BY <1>2, <3>1, <3>2, <3>3, <3>4, <3>5, <3>6, <3>7 DEF Step
  <2>3. ASSUME NEW x \in Requests, x # r
        PROVE  Knows(x)'
    <3>1. Knows(x)
      BY DEF UsedInv
    <3>2. QED
      BY <2>0, <2>2, <2>3, <3>1 DEF Others
  <2>4. QED
    <3>1. \A x \in Requests : Knows(x)'
      BY <2>2, <2>3
    <3>2. QED
      BY <2>2, <3>1 DEF UsedInv
<1>3. ASSUME NEW a \in Attachments, Deliver(a) \/ Handle(a)
      PROVE  UsedInv'
  BY <1>3 DEF Deliver, Handle, UsedInv
<1>4. CASE Crash
  BY <1>4, NoRequestType DEF Crash, UsedInv, Holding, UploadSteps
<1>5. CASE Rebalance \/ DeleteUser
  BY <1>5 DEF Rebalance, DeleteUser, UsedInv
<1>6. QED
  BY <1>1, <1>2, <1>3, <1>4, <1>5 DEF Next, Consume

-----------------------------------------------------------------------------
(* An attachment belongs to its upload until the row is saved               *)

Known == rows \cup reported \cup topic \cup channel

Private(x) == pc[x] \in Unsaved => req[x].att \notin Known

Apart(x, y) == pc[x] \in Unsaved =>
  /\ req[x].att \notin req[y].listed
  /\ pc[y] \in Holding => req[x].att # req[y].att

LEMMA FreshParts ==
  FreshInv <=> \A x \in Requests : Private(x) /\ \A y \in Requests : x # y => Apart(x, y)
  BY DEF FreshInv, Private, Apart, Known

\* The sets a step of r adds to what is known are those r knew.
LEMMA KnownStep ==
  ASSUME TypeOK, NEW r \in Requests, Step(r)
  PROVE  \/ Known' \subseteq Known
         \/ pc[r] \in Holding /\ pc'[r] \notin Unsaved /\ Known' \subseteq Known \cup {req[r].att}
         \/ pc'[r] = "idle" /\ Known' \subseteq Known \cup req[r].listed
<1> USE DEF kafkaVars, storeVars, queueVars, historyVars, Known
<1>0. ControlOK
  BY DEF TypeOK, ControlOK
<1>1. CASE \/ \E a \in Attachments : BeginUpload(r, a) \/ BeginDelete(r, a)
           \/ BeginDeleteTask(r) \/ CheckTask(r) \/ PutObject(r) \/ HeadObject(r)
           \/ Rollback(r) \/ FindRow(r) \/ ExistsTask(r) \/ ListRows(r) \/ DeleteObject(r)
  BY <1>1 DEF BeginUpload, BeginDelete, BeginDeleteTask, CheckTask, PutObject, HeadObject,
              Rollback, FindRow, ExistsTask, ListRows, DeleteObject
<1>2. CASE SaveRow(r)
  BY <1>0, <1>2, OutcomeFacts, StayFacts, ReturnFacts, StepNames
  DEF SaveRow, Holding, UploadSteps, Unsaved
<1>3. CASE Publish(r)
  BY <1>0, <1>3, OutcomeFacts, NextObjectFacts, ReturnFacts
  DEF Publish, Holding, Unsaved
<1>4. CASE DeleteRow(r)
  BY <1>0, <1>4, ReturnFacts DEF DeleteRow
<1>5. QED
  BY <1>1, <1>2, <1>3, <1>4 DEF Step

\* What a step of r makes r itself hold was unused, was known, or r's already.
LEMMA HoldingStep ==
  ASSUME TypeOK, RequestInv, NEW r \in Requests, Step(r)
  PROVE  /\ \/ req'[r].listed \subseteq req[r].listed
            \/ req'[r].listed \subseteq rows
         /\ pc'[r] \in Unsaved =>
              \/ req'[r].att \notin used
              \/ pc[r] \in Unsaved /\ req'[r] = req[r] /\ Known' = Known
         /\ pc'[r] \in Holding =>
              \/ pc[r] \in Holding /\ req'[r].att = req[r].att
              \/ req'[r].att \in req[r].listed
              \/ req'[r].att \notin used
<1> USE DEF kafkaVars, storeVars, queueVars, historyVars, Known, Holding, Unsaved, UploadSteps
<1>0. ControlOK /\ RequestOK(r)
  BY DEF TypeOK, ControlOK, RequestInv
<1>1. CASE \/ \E a \in Attachments : BeginUpload(r, a) \/ BeginDelete(r, a)
           \/ BeginDeleteTask(r)
  BY <1>0, <1>1, StartFacts, StepNames DEF BeginUpload, BeginDelete, BeginDeleteTask
<1>2. CASE CheckTask(r) \/ PutObject(r) \/ HeadObject(r)
  BY <1>0, <1>2, StayFacts, ReturnFacts, NoRequestType, StepNames
  DEF CheckTask, PutObject, HeadObject
<1>3. CASE SaveRow(r) \/ Rollback(r) \/ ExistsTask(r)
  BY <1>0, <1>3, StayFacts, ReturnFacts, NoRequestType, StepNames
  DEF SaveRow, Rollback, ExistsTask
<1>4. CASE FindRow(r) \/ ListRows(r)
  BY <1>0, <1>4, PlanFacts, ReturnFacts, NoRequestType DEF TypeOK, FindRow, ListRows
<1>5. CASE DeleteObject(r)
  BY <1>0, <1>5, FieldTypes, NextObjectFacts, AskFacts DEF DeleteObject, RequestOK
<1>6. CASE Publish(r) \/ DeleteRow(r)
  BY <1>0, <1>6, NextObjectFacts, ReturnFacts, NoRequestType DEF Publish, DeleteRow
<1>7. QED
  BY <1>1, <1>2, <1>3, <1>4, <1>5, <1>6 DEF Step

LEMMA FreshStep ==
  ASSUME TypeOK, RequestInv, UsedInv, FreshInv, [Next]_vars
  PROVE  FreshInv'
<1>1. CASE UNCHANGED vars
  BY <1>1 DEF vars, FreshInv
<1>2. ASSUME NEW r \in Requests, Step(r)
      PROVE  FreshInv'
  <2>1. Others(r)
    BY <1>2, ControlStep
  <2>2. \A x \in Requests :
          /\ Private(x) /\ req[x].listed \subseteq used
          /\ pc[x] \in Holding => req[x].att \in used
          /\ \A y \in Requests : x # y => Apart(x, y)
    BY FreshParts DEF UsedInv
  <2>3. Known \subseteq used /\ rows \subseteq Known /\ Unsaved \subseteq Holding
    BY DEF UsedInv, Known, Unsaved, Holding, UploadSteps
  <2>4. ASSUME NEW x \in Requests
        PROVE  Private(x)'
    <3>1. CASE x = r
      <4>1. CASE pc[r] \in Unsaved /\ req'[r] = req[r] /\ Known' = Known
        BY <2>2, <3>1, <4>1 DEF Private
      <4>2. CASE req'[r].att \notin used /\ pc'[r] \in Unsaved
        <5>1. Known' = Known \/ Known' \subseteq Known \cup req[r].listed
                \/ Known' \subseteq Known
          BY <1>2, <4>2, KnownStep
        <5>2. QED
          BY <2>2, <2>3, <3>1, <4>2, <5>1 DEF Private
      <4>3. QED
        BY <1>2, <3>1, <4>1, <4>2, HoldingStep DEF Private
    <3>2. CASE x # r
      BY <1>2, <2>1, <2>2, <3>2, KnownStep DEF Private, Apart, Others
    <3>3. QED
      BY <3>1, <3>2
  <2>5. ASSUME NEW x \in Requests, NEW y \in Requests, x # y
        PROVE  Apart(x, y)'
    <3>1. CASE x = r
      BY <1>2, <2>1, <2>2, <2>5, <3>1, HoldingStep DEF Apart, Others
    <3>2. CASE y = r
      BY <1>2, <2>1, <2>2, <2>3, <2>5, <3>2, HoldingStep DEF Apart, Private, Others
    <3>3. CASE x # r /\ y # r
      BY <2>1, <2>2, <2>5, <3>3 DEF Apart, Others
    <3>4. QED
      BY <3>1, <3>2, <3>3
  <2>6. QED
    BY <2>4, <2>5 DEF FreshInv, Private, Apart, Known
<1>3. ASSUME NEW a \in Attachments, Deliver(a) \/ Handle(a)
      PROVE  FreshInv'
  BY <1>3 DEF Deliver, Handle, FreshInv, storeVars, historyVars
<1>4. CASE Crash
  BY <1>4 DEF Crash, FreshInv, Unsaved
<1>5. CASE Rebalance \/ DeleteUser
  BY <1>5 DEF Rebalance, DeleteUser, FreshInv, storeVars, queueVars, historyVars
<1>6. QED
  BY <1>1, <1>2, <1>3, <1>4, <1>5 DEF Next, Consume

-----------------------------------------------------------------------------
(* Objects that were dealt with                                             *)

Done(r) == req[r].listed \ req[r].todo

Pending == topic \cup channel

FewFaults == faults = 0 \/ (Subscribed /\ faults = 1)

NoMessages == faults = 0 => topic = {} /\ channel = {}

DoneKept == FewFaults =>
  /\ reported \cap blobs \subseteq Pending
  /\ \A r \in Requests : Done(r) \cap blobs \subseteq Pending

LEMMA KeptParts ==
  KeptInv <=> NoMessages /\ DoneKept
  BY DEF KeptInv, NoMessages, DoneKept, FewFaults, Done, Pending

\* Without messages an object that was dealt with is gone.
LEMMA KeptStep ==
  ASSUME TypeOK, RequestInv, FreshInv, NoMessages, DoneKept, [Next]_vars
  PROVE  NoMessages' /\ DoneKept'
<1>0. ControlOK /\ faults \in 0..MaxFaults /\ MaxFaults \in Nat
  BY FaultsAssumption DEF TypeOK, ControlOK
<1> USE DEF kafkaVars, storeVars, queueVars, historyVars, Pending
<1>1. CASE UNCHANGED vars
  BY <1>1 DEF vars, NoMessages, DoneKept, FewFaults, Done, Subscribed
<1>2. ASSUME NEW r \in Requests, Step(r)
      PROVE  NoMessages' /\ DoneKept'
  <2>0. Others(r) /\ Subscribed' = Subscribed /\ faults' \in 0..MaxFaults /\ faults' >= faults
    BY <1>2, ControlStep DEF Subscribed, kafkaVars
  <2>1. RequestOK(r)
    BY DEF RequestInv
  <2>2. \/ Pending \subseteq Pending' /\ topic' = topic /\ channel' = channel
        \/ Publish(r) /\ faults >= 1
    <3>1. CASE Publish(r)
      BY <2>1, <3>1 DEF Publish, RequestOK
    <3>2. CASE ~Publish(r)
      BY <1>2, <3>2 DEF Step, BeginUpload, BeginDelete, BeginDeleteTask, CheckTask, PutObject,
        HeadObject, SaveRow, Rollback, FindRow, ExistsTask, ListRows, DeleteObject, DeleteRow
    <3>3. QED
      BY <3>1, <3>2
  <2>3. NoMessages'
    BY <1>0, <2>0, <2>2 DEF NoMessages
  <2>4. SUFFICES ASSUME FewFaults'
                 PROVE  /\ \A x \in Requests : Done(x)' \cap blobs' \subseteq Pending'
                        /\ reported' \cap blobs' \subseteq Pending'
    BY <2>3, <2>4 DEF DoneKept
  <2>5. /\ \A x \in Requests : Done(x) \cap blobs \subseteq Pending
        /\ reported \cap blobs \subseteq Pending
        /\ Subscribed \/ (faults = 0 /\ faults' = 0)
    <3>0. FewFaults' <=> faults' = 0 \/ (Subscribed /\ faults' = 1)
      BY <2>0 DEF FewFaults
    <3>1. Subscribed \/ faults' = 0
      BY <2>4, <3>0
    <3>2. FewFaults
      <4>1. CASE faults' = 0
        BY <1>0, <2>0, <4>1 DEF FewFaults
      <4>2. CASE Subscribed /\ faults' = 1
        BY <1>0, <2>0, <4>2 DEF FewFaults
      <4>3. QED
        BY <2>4, <3>0, <4>1, <4>2
    <3>3. QED
      BY <1>0, <2>0, <3>1, <3>2 DEF DoneKept
  <2>6. Pending \subseteq Pending'
    BY <1>0, <2>0, <2>2, <2>5 DEF Publish, TypeOK, Outcome
  <2>7. CASE \/ \E a \in Attachments : BeginUpload(r, a) \/ BeginDelete(r, a)
             \/ BeginDeleteTask(r)
    BY <1>0, <2>0, <2>5, <2>6, <2>7, StartFacts, StepNames
    DEF BeginUpload, BeginDelete, BeginDeleteTask, Done, Others
  <2>8. CASE CheckTask(r) \/ HeadObject(r) \/ SaveRow(r) \/ Rollback(r) \/ ExistsTask(r)
    <3>1. Done(r)' \subseteq Done(r)
      BY <1>0, <2>8, StayFacts, ReturnFacts, NoRequestType, StepNames
      DEF CheckTask, HeadObject, SaveRow, Rollback, ExistsTask, Done
    <3>2. blobs' \subseteq blobs /\ reported' = reported
      BY <2>8, OutcomeFacts DEF CheckTask, HeadObject, SaveRow, Rollback, ExistsTask
    <3>3. QED
      BY <2>0, <2>5, <2>6, <3>1, <3>2 DEF Done, Others
  <2>9. CASE PutObject(r)
    <3>1. blobs' \subseteq blobs \cup {req[r].att} /\ reported' = reported
      BY <2>9, OutcomeFacts DEF PutObject
    <3>2. Done(r)' = {}
      BY <1>0, <2>1, <2>9, StayFacts, ReturnFacts, NoRequestType, StepNames
      DEF PutObject, Done, RequestOK, UploadSteps
    <3>3. req[r].att \notin reported /\ \A x \in Requests : x # r => req[r].att \notin Done(x)
      BY <2>9 DEF PutObject, FreshInv, Unsaved, Done
    <3>4. QED
      BY <2>0, <2>5, <2>6, <3>1, <3>2, <3>3 DEF Done, Others
  <2>10. CASE FindRow(r) \/ ListRows(r)
    <3>1. Done(r)' = {}
      BY <1>0, <2>10, PlanFacts, ReturnFacts, NoRequestType DEF TypeOK, FindRow, ListRows, Done
    <3>2. QED
      BY <2>0, <2>5, <2>6, <2>10, <3>1 DEF FindRow, ListRows, Done, Others
  <2>11. CASE DeleteObject(r)
    <3>1. PICK a \in req[r].todo : \/ blobs' = blobs \ {a} /\ NextObject(r, a)
                                  \/ /\ blobs' \subseteq blobs
                                     /\ req' = [req EXCEPT ![r].att = a] /\ Goto(r, "publish")
      BY <2>11, OutcomeFacts DEF DeleteObject
    <3>2. /\ Done(r)' \subseteq Done(r) \cup {a} /\ blobs' \subseteq blobs
          /\ Done(r)' \subseteq Done(r) \/ a \notin blobs'
      BY <1>0, <3>1, FieldTypes, NextObjectFacts, AskFacts DEF Done
    <3>3. QED
      BY <2>0, <2>5, <2>6, <2>11, <3>2 DEF DeleteObject, Done, Others
  <2>12. CASE Publish(r)
    <3>1. blobs' = blobs /\ reported' = reported
      BY <2>12 DEF Publish
    <3>2. \/ Done(r)' = {}
          \/ Done(r)' \subseteq Done(r) \cup {req[r].att} /\ req[r].att \in topic'
      <4>1. Subscribed
        BY <1>0, <2>2, <2>1, <2>5, <2>12 DEF Publish, RequestOK, TypeOK
      <4>2. QED
        BY <1>0, <2>12, <4>1, NextObjectFacts, ReturnFacts, NoRequestType, OutcomeFacts
        DEF Publish, Done
    <3>3. QED
      BY <2>0, <2>5, <2>6, <3>1, <3>2 DEF Done, Others
  <2>13. CASE DeleteRow(r)
    <3>1. blobs' = blobs /\ reported' \subseteq reported \cup req[r].listed
      BY <2>13 DEF DeleteRow
    <3>2. req[r].listed = Done(r) /\ Done(r)' = {}
      BY <1>0, <2>1, <2>13, ReturnFacts, NoRequestType DEF DeleteRow, RequestOK, Done
    <3>3. QED
      BY <2>0, <2>5, <2>6, <3>1, <3>2 DEF Done, Others
  <2>14. QED
    BY <1>2, <2>7, <2>8, <2>9, <2>10, <2>11, <2>12, <2>13 DEF Step
<1>3. ASSUME NEW a \in Attachments, Deliver(a)
      PROVE  NoMessages' /\ DoneKept'
  BY <1>3 DEF Deliver, NoMessages, DoneKept, FewFaults, Done
<1>4. ASSUME NEW a \in Attachments, Handle(a)
      PROVE  NoMessages' /\ DoneKept'
  <2>1. PICK ok \in BOOLEAN : Call(ok) /\ blobs' \in Outcome(ok, blobs, blobs \ {a})
    BY <1>4 DEF Handle
  <2>2. faults # 0
    BY <1>4 DEF Handle, NoMessages
  <2>3. CASE ok
    <3>1. blobs' = blobs \ {a} /\ faults' = faults
      BY <1>0, <2>1, <2>3, CallFacts, OutcomeFacts
    <3>2. QED
      BY <1>4, <2>2, <3>1 DEF Handle, NoMessages, DoneKept, FewFaults, Done, Subscribed
  <2>4. CASE ~ok
    <3>1. faults' = faults + 1
      BY <1>0, <2>1, <2>4, CallFacts
    <3>2. faults' > 1
      BY <1>0, <2>2, <3>1
    <3>3. QED
      BY <1>0, <3>1, <3>2 DEF NoMessages, DoneKept, FewFaults
  <2>5. QED
    BY <2>3, <2>4
<1>5. CASE Crash
  <2>1. faults' = faults + 1 /\ topic' = topic /\ blobs' = blobs
        /\ reported' = reported /\ \A x \in Requests : Done(x)' = {}
    BY <1>0, <1>5, CallFacts, NoRequestType DEF Crash, Done
  <2>2. faults' <= 1 => channel = {}
    BY <1>0, <2>1 DEF NoMessages
  <2>3. QED
    BY <1>0, <2>1, <2>2 DEF NoMessages, DoneKept, FewFaults
<1>6. CASE Rebalance \/ DeleteUser
  BY <1>6 DEF Rebalance, DeleteUser, NoMessages, DoneKept, FewFaults, Done, Subscribed
<1>7. QED
  BY <1>1, <1>2, <1>3, <1>4, <1>5, <1>6 DEF Next, Consume

-----------------------------------------------------------------------------
(* The rows a deletion of the task works on                                 *)

LEMMA ListStep ==
  ASSUME TypeOK, RequestInv, ListInv, [Next]_vars
  PROVE  ListInv'
<1> USE DEF kafkaVars, storeVars, queueVars, historyVars
<1>0. ControlOK
  BY DEF TypeOK, ControlOK
<1>1. CASE UNCHANGED vars
  BY <1>1 DEF vars, ListInv, Listed
<1>2. ASSUME NEW r \in Requests, Step(r)
      PROVE  ListInv'
  <2>0. Others(r) /\ RequestOK(r)
    BY <1>2, ControlStep DEF RequestInv
  <2>1. rows' \subseteq rows \/ SaveRow(r)
    BY <1>2 DEF Step, BeginUpload, BeginDelete, BeginDeleteTask, CheckTask, PutObject,
      HeadObject, Rollback, FindRow, ExistsTask, ListRows, DeleteObject, Publish, DeleteRow
  <2>2. missed \subseteq missed'
    BY <1>2 DEF Step, BeginUpload, BeginDelete, BeginDeleteTask, CheckTask, PutObject,
      HeadObject, SaveRow, Rollback, FindRow, ExistsTask, ListRows, DeleteObject, Publish,
      DeleteRow
  <2>3. (\E s \in Requests : Listed(s)) => rows' \subseteq rows \cup missed'
    <3>1. CASE SaveRow(r)
      BY <3>1, OutcomeFacts DEF SaveRow, RowsListed
    <3>2. QED
      BY <2>1, <2>2, <3>1
  <2>4. ASSUME NEW x \in Requests, x # r, Listed(x)'
        PROVE  rows' \subseteq req'[x].listed \cup missed'
    <3>1. Listed(x) /\ req'[x] = req[x]
      BY <2>0, <2>4 DEF Listed, Others
    <3>2. QED
      BY <2>2, <2>3, <3>1 DEF ListInv
  <2>5. ASSUME Listed(r)'
        PROVE  rows' \subseteq req'[r].listed \cup missed'
    <3>1. \/ Listed(r) /\ req'[r].listed = req[r].listed
          \/ ListRows(r) /\ req'[r].listed = rows /\ rows' = rows
      <4>1. CASE ListRows(r)
        BY <1>0, <2>0, <2>5, <4>1, PlanFacts, ReturnFacts, NoRequestType
        DEF TypeOK, ListRows, Listed
      <4>2. CASE FindRow(r)
        BY <1>0, <2>0, <2>5, <4>2, PlanFacts, ReturnFacts, NoRequestType
        DEF TypeOK, FindRow, Listed, RequestOK
      <4>3. CASE DeleteObject(r) \/ Publish(r)
        BY <1>0, <2>0, <2>5, <4>3, FieldTypes, NextObjectFacts, AskFacts, ReturnFacts
        DEF DeleteObject, Publish, Listed
      <4>4. CASE \/ \E a \in Attachments : BeginUpload(r, a) \/ BeginDelete(r, a)
                 \/ BeginDeleteTask(r)
        BY <1>0, <2>5, <4>4, StartFacts, StepNames
        DEF BeginUpload, BeginDelete, BeginDeleteTask, Listed
      <4>5. CASE \/ CheckTask(r) \/ PutObject(r) \/ HeadObject(r) \/ SaveRow(r)
                 \/ Rollback(r)
        BY <1>0, <2>0, <2>5, <4>5, StayFacts, ReturnFacts, StepNames
        DEF CheckTask, PutObject, HeadObject, SaveRow, Rollback, Listed, RequestOK, UploadSteps
      <4>6. CASE ExistsTask(r) \/ DeleteRow(r)
        BY <1>0, <2>5, <4>6, StayFacts, ReturnFacts, StepNames DEF ExistsTask, DeleteRow, Listed
      <4>7. QED
        BY <1>2, <4>1, <4>2, <4>3, <4>4, <4>5, <4>6 DEF Step
    <3>2. QED
      BY <2>2, <2>3, <3>1 DEF ListInv
  <2>6. QED
    BY <2>4, <2>5 DEF ListInv
<1>3. ASSUME NEW a \in Attachments, Deliver(a) \/ Handle(a)
      PROVE  ListInv'
  BY <1>3 DEF Deliver, Handle, ListInv, Listed
<1>4. CASE Crash
  BY <1>4 DEF Crash, ListInv, Listed
<1>5. CASE Rebalance \/ DeleteUser
  BY <1>5 DEF Rebalance, DeleteUser, ListInv, Listed
<1>6. QED
  BY <1>1, <1>2, <1>3, <1>4, <1>5 DEF Next, Consume

-----------------------------------------------------------------------------
(* Objects and rows when nothing fails                                      *)

\* Without a failure there is no message, no request for one, and no crash.
LEMMA CalmStep ==
  ASSUME TypeOK, RequestInv, NoMessages, [Next]_vars, faults' = 0
  PROVE  /\ faults = 0
         /\ \/ UNCHANGED <<rows, blobs, pc, req>>
            \/ rows' = {} /\ UNCHANGED <<blobs, pc, req>>
            \/ \E r \in Requests : Step(r) /\ ~Publish(r)
<1>0. faults \in 0..MaxFaults /\ MaxFaults \in Nat
  BY FaultsAssumption DEF TypeOK
<1>1. CASE UNCHANGED vars
  BY <1>1 DEF vars
<1>2. ASSUME NEW r \in Requests, Step(r)
      PROVE  faults = 0 /\ ~Publish(r)
  BY <1>0, <1>2, ControlStep DEF RequestInv, RequestOK, Publish
<1>3. ASSUME NEW a \in Attachments, Deliver(a) \/ Handle(a)
      PROVE  FALSE
  <2>1. faults = 0
    BY <1>0, <1>3, CallFacts DEF Deliver, Handle
  <2>2. QED
    BY <1>3, <2>1 DEF Deliver, Handle, NoMessages
<1>4. CASE Crash
  BY <1>0, <1>4 DEF Crash, Call
<1>5. CASE Rebalance \/ DeleteUser
  BY <1>5 DEF Rebalance, DeleteUser, storeVars
<1>6. QED
  BY <1>1, <1>2, <1>3, <1>4, <1>5 DEF Next, Consume

\* What a step of r does to objects and rows when nothing fails.
LEMMA CalmEffect ==
  ASSUME TypeOK, RequestInv, NEW r \in Requests, Step(r), ~Publish(r), faults = 0, faults' = 0
  PROVE  \/ /\ pc[r] = "putObject" /\ pc'[r] = "headObject" /\ req'[r] = req[r]
            /\ blobs' = blobs \cup {req[r].att} /\ rows' = rows
         \/ /\ pc[r] = "headObject" /\ pc'[r] = "saveRow" /\ req'[r] = req[r]
            /\ blobs' = blobs /\ rows' = rows
         \/ /\ pc[r] = "saveRow" /\ pc'[r] = "rollback" /\ req'[r] = req[r]
            /\ blobs' = blobs /\ rows' = rows
         \/ /\ pc[r] = "saveRow" /\ pc'[r] = "idle" /\ req[r].listed = {}
            /\ blobs' = blobs /\ rows' = rows \cup {req[r].att}
         \/ /\ pc[r] = "rollback" /\ pc'[r] = "idle" /\ req[r].listed = {}
            /\ blobs' = blobs \ {req[r].att} /\ rows' = rows
         \/ /\ pc[r] = "deleteRow" /\ pc'[r] = "idle" /\ req[r].todo = {}
            /\ blobs' = blobs
            /\ \/ req[r].op = "delete" /\ rows' = rows \ req[r].listed
               \/ Listed(r) /\ rows' = {}
         \/ /\ pc[r] \notin {"headObject", "saveRow", "rollback"}
            /\ pc'[r] \notin {"headObject", "saveRow", "rollback"}
            /\ req[r].listed \subseteq req'[r].listed
            /\ rows' = rows
            /\ blobs' = blobs \/ \E a \in req[r].listed : blobs' = blobs \ {a}
<1>0. ControlOK /\ faults \in 0..MaxFaults /\ RequestOK(r) /\ faults + 1 # 0
  BY DEF TypeOK, ControlOK, RequestInv
<1> USE DEF storeVars, UploadSteps, DeleteSteps
<1>1. CASE \/ \E a \in Attachments : BeginUpload(r, a) \/ BeginDelete(r, a)
           \/ BeginDeleteTask(r)
  BY <1>0, <1>1, StartFacts, StepNames DEF BeginUpload, BeginDelete, BeginDeleteTask, RequestOK
<1>2. CASE CheckTask(r) \/ ExistsTask(r)
  BY <1>0, <1>2, StayFacts, ReturnFacts, NoRequestType, StepNames
  DEF CheckTask, ExistsTask, RequestOK
<1>3. CASE PutObject(r) \/ HeadObject(r)
  BY <1>0, <1>3, CallFacts, OutcomeFacts, StayFacts, StepNames DEF PutObject, HeadObject
<1>4. CASE SaveRow(r)
  BY <1>0, <1>4, CallFacts, OutcomeFacts, StayFacts, ReturnFacts, StepNames
  DEF SaveRow, RequestOK
<1>5. CASE Rollback(r)
  BY <1>0, <1>5, CallFacts, OutcomeFacts, ReturnFacts DEF Rollback, RequestOK
<1>6. CASE FindRow(r) \/ ListRows(r)
  BY <1>0, <1>6, PlanFacts, ReturnFacts, NoRequestType DEF TypeOK, FindRow, ListRows, RequestOK
<1>7. CASE DeleteObject(r)
  BY <1>0, <1>7, CallFacts, OutcomeFacts, NextObjectFacts DEF DeleteObject, RequestOK
<1>8. CASE DeleteRow(r)
  <2>1. PICK ok \in BOOLEAN :
          /\ Call(ok)
          /\ \E done \in Outcome(ok, FALSE, TRUE) :
               IF ~done THEN UNCHANGED <<task, rows>>
               ELSE IF req[r].op = "delete"
               THEN rows' = rows \ req[r].listed /\ UNCHANGED task
               ELSE rows' = {} /\ task' = "deleted"
    BY <1>8 DEF DeleteRow
  <2>2. ok
    BY <1>0, <2>1, CallFacts
  <2>3. \/ req[r].op = "delete" /\ rows' = rows \ req[r].listed
        \/ req[r].op # "delete" /\ rows' = {}
    BY <2>1, <2>2 DEF Outcome
  <2>4. QED
    BY <1>0, <1>8, <2>3, ReturnFacts DEF DeleteRow, RequestOK, Deletions, Listed
<1>9. QED
  BY <1>1, <1>2, <1>3, <1>4, <1>5, <1>6, <1>7, <1>8 DEF Step

LEMMA UploadStep ==
  ASSUME TypeOK, RequestInv, FreshInv, NoMessages, UploadInv, [Next]_vars
  PROVE  UploadInv'
<1> SUFFICES ASSUME faults' = 0, NEW x \in Requests
             PROVE  /\ pc'[x] \in {"headObject", "saveRow"} => req'[x].att \in blobs'
                    /\ pc'[x] = "rollback" => req'[x].att \notin rows'
  BY DEF UploadInv
<1>1. /\ faults = 0
      /\ pc[x] \in {"headObject", "saveRow"} => req[x].att \in blobs
      /\ pc[x] = "rollback" => req[x].att \notin rows
  BY CalmStep DEF UploadInv
<1>2. CASE rows' \in {{}, rows} /\ UNCHANGED <<blobs, pc, req>>
  BY <1>1, <1>2
<1>3. ASSUME NEW r \in Requests, Step(r), ~Publish(r)
      PROVE  /\ pc'[x] \in {"headObject", "saveRow"} => req'[x].att \in blobs'
             /\ pc'[x] = "rollback" => req'[x].att \notin rows'
  <2>1. Others(r)
    BY <1>3, ControlStep
  <2>2. CASE x = r
    BY <1>1, <1>3, <2>2, CalmEffect DEF FreshInv, Unsaved
  <2>3. CASE x # r
    <3>1. pc'[x] = pc[x] /\ req'[x] = req[x]
      BY <2>1, <2>3 DEF Others
    <3>2. pc[x] \in Unsaved => /\ req[x].att \notin req[r].listed
                               /\ pc[r] \in Holding => req[x].att # req[r].att
      BY <2>3 DEF FreshInv
    <3>3. pc[r] \in Unsaved /\ pc[x] \in Holding => req[x].att # req[r].att
      BY <2>3 DEF FreshInv
    <3>4. QED
      BY <1>1, <1>3, <3>1, <3>2, <3>3, CalmEffect DEF Unsaved, Holding, UploadSteps
  <2>4. QED
    BY <2>2, <2>3
<1>4. QED
  BY <1>2, <1>3, CalmStep

\* With at most one failure, what a deletion has dealt with is gone or asked for.
LEMMA DealtWith ==
  ASSUME DoneKept, AtMostOneFailure, NEW r \in Requests
  PROVE  Done(r) \cap blobs \subseteq Pending
  BY DEF DoneKept, FewFaults, AtMostOneFailure, Subscribed, Clients

\* The object of a is accounted for.
Accounted(a) == Uploading(a) \/ a \in Pending \/ a \in missed \cup cut

\* What a step of r does to the queues, and to an object r uploads.
LEMMA UploadOutcome ==
  ASSUME TypeOK, RequestInv, AtMostOneFailure, AtMostOneFailure', NEW r \in Requests, Step(r),
         NEW a, a \in blobs', a \notin rows',
         req[r].op = "upload", req[r].att = a,
         pc[r] \in {"putObject", "headObject", "saveRow", "rollback", "publish"}
  PROVE  Accounted(a)'
<1>0. ControlOK /\ RequestOK(r) /\ faults \in Nat
  BY FaultsAssumption DEF TypeOK, ControlOK, RequestInv
<1> USE DEF historyVars, storeVars, Accounted
<1>1. CASE PutObject(r) \/ HeadObject(r)
  BY <1>0, <1>1, StayFacts, StepNames DEF PutObject, HeadObject, Uploading
<1>2. CASE SaveRow(r)
  BY <1>0, <1>2, StayFacts, StepNames, OutcomeFacts DEF SaveRow, Uploading
<1>3. CASE Rollback(r)
  BY <1>0, <1>3, StayFacts, StepNames, OutcomeFacts DEF Rollback, Uploading
<1>4. CASE Publish(r)
  <2>1. faults = 1 /\ "publisher" \in connected /\ faults' \in {0, 1}
    BY <1>0, <1>4 DEF Publish, RequestOK, AtMostOneFailure, Clients
  <2>2. PICK ok \in BOOLEAN : Call(ok) /\ topic' \in Outcome(ok, topic, topic \cup {req[r].att})
    <3>1. \E ok \in BOOLEAN :
            /\ Call(ok)
            /\ topic' \in Outcome(ok, topic, topic \cup {req[r].att})
            /\ channel' \in IF Subscribed THEN {channel}
                            ELSE {channel, channel \cup {req[r].att}}
            /\ IF ok /\ req[r].op # "upload" THEN NextObject(r, req[r].att) ELSE Return(r)
      BY <1>4, <2>1, Zenon DEF Publish
    <3>2. QED
      BY <3>1
  <2>3. ok
    BY <2>1, <2>2, CallFacts DEF TypeOK
  <2>4. QED
    BY <2>2, <2>3 DEF Outcome, Pending
<1>5. CASE ~(PutObject(r) \/ HeadObject(r) \/ SaveRow(r) \/ Rollback(r) \/ Publish(r))
  BY <1>0, <1>5 DEF Step, BeginUpload, BeginDelete, BeginDeleteTask, Start, CheckTask, FindRow,
     ExistsTask, ListRows, DeleteObject, DeleteRow
<1>6. QED
  BY <1>1, <1>2, <1>3, <1>4, <1>5

\* An object a step of r uploads, or takes the row of.
LEMMA NewOrphan ==
  ASSUME TypeOK, RequestInv, DoneKept, ListInv, AtMostOneFailure,
         NEW r \in Requests, Step(r), missed \subseteq missed',
         NEW a, a \in blobs', a \notin rows', a \notin blobs \ rows
  PROVE  \/ pc[r] = "putObject" /\ req[r].op = "upload" /\ req[r].att = a
         \/ a \in Pending /\ UNCHANGED <<topic, channel>>
         \/ a \in missed'
<1>0. ControlOK /\ RequestOK(r)
  BY DEF TypeOK, ControlOK, RequestInv
<1> USE DEF storeVars, queueVars
<1>1. CASE PutObject(r)
  BY <1>0, <1>1, OutcomeFacts DEF PutObject, RequestOK, UploadSteps
<1>2. CASE DeleteRow(r)
  <2>1. a \in blobs /\ a \in rows /\ UNCHANGED <<topic, channel>>
    BY <1>2 DEF DeleteRow
  <2>2. a \in req[r].listed \/ (req[r].op # "delete" /\ pc[r] = "deleteRow")
    BY <1>2, <2>1 DEF DeleteRow
  <2>3. req[r].op # "delete" => Listed(r)
    BY <1>0, <1>2, <2>2 DEF DeleteRow, RequestOK, DeleteSteps, Deletions, Listed
  <2>4. CASE a \in req[r].listed
    <3>1. a \in Done(r)
      BY <1>0, <1>2, <2>4 DEF DeleteRow, RequestOK, Done
    <3>2. QED
      BY <2>1, <3>1, DealtWith
  <2>5. CASE a \notin req[r].listed
    BY <2>1, <2>2, <2>3, <2>5 DEF ListInv
  <2>6. QED
    BY <2>4, <2>5
<1>3. CASE SaveRow(r)
  BY <1>3, OutcomeFacts DEF SaveRow
<1>4. CASE ~(PutObject(r) \/ DeleteRow(r) \/ SaveRow(r))
  <2>1. CASE Rollback(r) \/ DeleteObject(r)
    BY <2>1 DEF Rollback, DeleteObject, Outcome
  <2>2. CASE ~(Rollback(r) \/ DeleteObject(r))
    BY <1>4, <2>2 DEF Step, BeginUpload, BeginDelete, BeginDeleteTask, CheckTask,
       HeadObject, FindRow, ExistsTask, ListRows, Publish
  <2>3. QED
    BY <2>1, <2>2
<1>5. QED
  BY <1>1, <1>2, <1>3, <1>4

LEMMA ObjectsStep ==
  ASSUME TypeOK, RequestInv, NoMessages, DoneKept, ListInv, ObjectsAccounted, [Next]_vars,
         missed \subseteq missed', cut \subseteq cut'
  PROVE  ObjectsAccounted'
<1> SUFFICES ASSUME AtMostOneFailure', NEW a, a \in blobs', a \notin rows'
             PROVE  Accounted(a)'
  BY DEF ObjectsAccounted, Accounted, Pending
<1>0. faults \in Nat
  BY FaultsAssumption DEF TypeOK
<1>1. ASSUME AtMostOneFailure, a \in blobs \ rows
      PROVE  Accounted(a)
  BY <1>1 DEF ObjectsAccounted, Accounted, Pending
<1>2. CASE UNCHANGED vars
  BY <1>1, <1>2 DEF vars, AtMostOneFailure, Accounted, Uploading, Pending
<1>3. ASSUME NEW r \in Requests, Step(r)
      PROVE  Accounted(a)'
  <2>1. Others(r) /\ UNCHANGED connected /\ faults' \in Nat /\ faults' >= faults
    BY <1>3, ControlStep, FaultsAssumption DEF kafkaVars
  <2>2. AtMostOneFailure
    BY <1>0, <2>1 DEF AtMostOneFailure
  <2>3. Pending \subseteq Pending'
    <3>1. CASE Publish(r)
      <4>1. PICK ok \in BOOLEAN :
              /\ topic' \in {topic} \cup Outcome(ok, topic, topic \cup {req[r].att})
              /\ channel' \in {channel, channel \cup {req[r].att}}
        BY <3>1 DEF Publish, queueVars
      <4>2. QED
        BY <4>1 DEF Outcome, Pending
    <3>2. CASE ~Publish(r)
      BY <1>3, <3>2 DEF Pending, queueVars, Step, BeginUpload, BeginDelete, BeginDeleteTask,
         CheckTask, PutObject, HeadObject, SaveRow, Rollback, FindRow, ExistsTask, ListRows,
         DeleteObject, DeleteRow
    <3>3. QED
      BY <3>1, <3>2
  <2>4. CASE a \in blobs \ rows
    <3>1. CASE a \in Pending \/ a \in missed \cup cut
      BY <2>3, <3>1 DEF Accounted
    <3>2. ASSUME NEW x \in Requests, req[x].op = "upload", req[x].att = a,
                 pc[x] \in {"headObject", "saveRow", "rollback", "publish"}
          PROVE  Accounted(a)'
      <4>1. CASE x = r
        BY <1>3, <2>2, <3>2, <4>1, UploadOutcome
      <4>2. CASE x # r
        BY <2>1, <3>2, <4>2 DEF Others, Accounted, Uploading
      <4>3. QED
        BY <4>1, <4>2
    <3>3. QED
      BY <1>1, <2>2, <2>4, <3>1, <3>2 DEF Accounted, Uploading
  <2>5. CASE a \notin blobs \ rows
    <3>1. CASE pc[r] = "putObject" /\ req[r].op = "upload" /\ req[r].att = a
      BY <1>3, <2>2, <3>1, UploadOutcome
    <3>2. CASE (a \in Pending /\ UNCHANGED <<topic, channel>>) \/ a \in missed'
      BY <3>2 DEF Accounted, Pending
    <3>3. QED
      BY <1>3, <2>2, <2>5, <3>1, <3>2, NewOrphan
  <2>6. QED
    BY <2>4, <2>5
<1>4. ASSUME NEW d \in Attachments, Deliver(d)
      PROVE  Accounted(a)'
  <2>1. AtMostOneFailure /\ a \in blobs \ rows
    BY <1>4 DEF Deliver, AtMostOneFailure, kafkaVars, storeVars
  <2>2. Pending \subseteq Pending' /\ UNCHANGED <<pc, req, missed, cut>>
    BY <1>4 DEF Deliver, Pending, historyVars
  <2>3. QED
    BY <1>1, <2>1, <2>2 DEF Accounted, Uploading
<1>5. ASSUME NEW d \in Attachments, Handle(d)
      PROVE  Accounted(a)'
  <2>1. PICK ok \in BOOLEAN : Call(ok) /\ blobs' \in Outcome(ok, blobs, blobs \ {d})
    BY <1>5 DEF Handle
  <2>2. faults >= 1
    BY <1>0, <1>5 DEF Handle, NoMessages
  <2>3. ok /\ faults' = faults
    BY <1>0, <2>1, <2>2, CallFacts DEF AtMostOneFailure, TypeOK
  <2>4. AtMostOneFailure /\ a \in blobs \ rows /\ a # d
    BY <1>5, <2>1, <2>3 DEF Handle, AtMostOneFailure, kafkaVars, Outcome
  <2>5. topic' = topic /\ channel' = channel \ {d} /\ UNCHANGED <<pc, req, missed, cut>>
    BY <1>5 DEF Handle, historyVars
  <2>6. QED
    BY <1>1, <2>4, <2>5 DEF Accounted, Uploading, Pending
<1>6. CASE Rebalance
  BY <1>1, <1>6 DEF Rebalance, AtMostOneFailure, Accounted, Uploading, Pending,
     storeVars, queueVars, historyVars
<1>7. CASE Crash
  <2>1. faults = 0
    BY <1>0, <1>7 DEF Crash, Call, AtMostOneFailure
  <2>2. Accounted(a) /\ a \in Attachments
    BY <1>1, <1>7, <2>1 DEF Crash, AtMostOneFailure, storeVars, TypeOK
  <2>3. a \in cut' \/ a \in missed'
    BY <1>7, <2>1, <2>2 DEF Crash, Accounted, Pending, NoMessages
  <2>4. QED
    BY <2>3 DEF Accounted
<1>8. CASE DeleteUser
  <2>1. a \in blobs /\ (a \in rows => a \in missed') /\ (AtMostOneFailure' = AtMostOneFailure)
    BY <1>8 DEF DeleteUser, AtMostOneFailure, kafkaVars
  <2>2. a \notin rows => Accounted(a)
    BY <1>1, <2>1
  <2>3. UNCHANGED <<pc, req, topic, channel, cut>> /\ missed \subseteq missed'
    BY <1>8 DEF DeleteUser, queueVars
  <2>4. QED
    BY <2>1, <2>2, <2>3 DEF Accounted, Uploading, Pending
<1>9. QED
  BY <1>2, <1>3, <1>4, <1>5, <1>6, <1>7, <1>8 DEF Next, Consume

LEMMA RowsStep ==
  ASSUME TypeOK, RequestInv, NoMessages, UploadInv, RowsBacked, [Next]_vars
  PROVE  RowsBacked'
<1> SUFFICES ASSUME faults' = 0, NEW a \in rows' \ blobs'
             PROVE  \E x \in Requests : a \in req'[x].listed
  BY DEF RowsBacked
<1>1. faults = 0 /\ (a \in rows \ blobs => \E x \in Requests : a \in req[x].listed)
  BY CalmStep DEF RowsBacked
<1>2. CASE rows' \in {{}, rows} /\ UNCHANGED <<blobs, pc, req>>
  BY <1>1, <1>2
<1>3. ASSUME NEW r \in Requests, Step(r), ~Publish(r)
      PROVE  \E x \in Requests : a \in req'[x].listed
  <2>1. Others(r)
    BY <1>3, ControlStep
  <2>2. /\ pc[r] = "saveRow" => req[r].att \in blobs
        /\ pc[r] = "rollback" => req[r].att \notin rows
        /\ pc[r] \in UploadSteps => req[r].listed = {}
    BY <1>1 DEF UploadInv, RequestInv, RequestOK
  <2>3. CASE a \in rows \ blobs
    <3>1. PICK x \in Requests : a \in req[x].listed
      BY <1>1, <2>3
    <3>2. CASE x # r
      BY <2>1, <3>1, <3>2 DEF Others
    <3>3. CASE x = r
      BY <1>1, <1>3, <2>2, <3>1, <3>3, CalmEffect DEF UploadSteps
    <3>4. QED
      BY <3>2, <3>3
  <2>4. CASE a \notin rows \/ a \in blobs
    BY <1>1, <1>3, <2>2, <2>4, CalmEffect
  <2>5. QED
    BY <2>3, <2>4
<1>4. QED
  BY <1>2, <1>3, CalmStep

-----------------------------------------------------------------------------
(* Uploads that were answered                                                *)

\* What LastInv says about one request.
Own(x) ==
  /\ lasting \cap req[x].listed = {}
  /\ pc[x] \in Holding => req[x].att \notin lasting
  /\ pc[x] \in Unsaved => req[x].att \notin missed
  /\ pc[x] \in Unsaved => (req[x].att \in blobs <=> pc[x] \notin Uncalled)

\* The request r may touch what it holds, and what it is to delete.
Touches(r, a) == (pc[r] \in Holding /\ a = req[r].att) \/ a \in req[r].listed

\* A step of r leaves the other attachments alone; only DELETE FROM tasks also
\* takes the rows that were missed.
LEMMA TouchStep ==
  ASSUME TypeOK, RequestInv, ListInv, NEW r \in Requests, Step(r), NEW a, ~Touches(r, a)
  PROVE  /\ a \in blobs' <=> a \in blobs
         /\ a \in rows' => a \in rows
         /\ a \in rows => a \in rows' \cup missed
         /\ a \in missed' <=> a \in missed
         /\ a \in lasting' => a \in lasting
         /\ a \in topic' \cup channel' => a \in topic \cup channel
<1>0. ControlOK /\ RequestOK(r)
  BY DEF TypeOK, ControlOK, RequestInv
<1> USE DEF kafkaVars, storeVars, queueVars, historyVars
<1>1. CASE \/ \E b \in Attachments : BeginUpload(r, b) \/ BeginDelete(r, b)
           \/ BeginDeleteTask(r) \/ CheckTask(r) \/ HeadObject(r) \/ ExistsTask(r)
           \/ FindRow(r) \/ ListRows(r)
  BY <1>1 DEF BeginUpload, BeginDelete, BeginDeleteTask, CheckTask, HeadObject, ExistsTask,
     FindRow, ListRows, Plan
<1>2. CASE PutObject(r) \/ Rollback(r)
  BY <1>2, OutcomeFacts DEF PutObject, Rollback, Touches, Holding, UploadSteps
<1>3. CASE SaveRow(r)
  BY <1>3, OutcomeFacts DEF SaveRow, Touches, Holding, UploadSteps
<1>4. CASE DeleteObject(r)
  BY <1>0, <1>4, OutcomeFacts DEF DeleteObject, Touches, RequestOK
<1>5. CASE Publish(r)
  BY <1>5, OutcomeFacts DEF Publish, Touches, Holding
<1>6. CASE DeleteRow(r)
  <2>1. req[r].op # "delete" => Listed(r)
    BY <1>0, <1>6 DEF DeleteRow, RequestOK, DeleteSteps, Deletions, Listed
  <2>2. \/ rows' = rows
        \/ rows' = rows \ req[r].listed
        \/ rows' = {} /\ Listed(r)
    BY <1>6, <2>1 DEF DeleteRow
  <2>3. (a \in rows' => a \in rows) /\ (a \in rows => a \in rows' \cup missed)
    BY <2>2 DEF Touches, ListInv
  <2>4. QED
    BY <1>6, <2>3 DEF DeleteRow
<1>7. QED
  BY <1>1, <1>2, <1>3, <1>4, <1>5, <1>6 DEF Step

\* Only SaveRow, answered, makes an upload last.
LEMMA LastingStep ==
  ASSUME TypeOK, FreshInv, NEW r \in Requests, Step(r), Own(r)
  PROVE  \/ lasting' \subseteq lasting
         \/ /\ pc[r] = "saveRow" /\ pc'[r] = "idle"
            /\ lasting' = lasting \cup {req[r].att}
            /\ req[r].att \in rows' /\ req[r].att \in blobs'
            /\ req[r].att \notin topic' \cup channel' \cup missed'
<1>0. ControlOK
  BY DEF TypeOK, ControlOK
<1>1. CASE SaveRow(r)
  <2> DEFINE Accepted(known) == known /\ task = "stored"
  <2>1. PICK ok \in BOOLEAN, known \in BOOLEAN :
          /\ rows' \in IF Accepted(known)
                       THEN Outcome(ok, rows, rows \cup {req[r].att}) ELSE {rows}
          /\ IF ok /\ Accepted(known) THEN Return(r) ELSE Stay(r, "rollback")
          /\ lasting' = IF ok /\ Accepted(known) /\ ~RowsListed
                        THEN lasting \cup {req[r].att} ELSE lasting
    BY <1>1 DEF SaveRow
  <2>2. CASE ok /\ Accepted(known) /\ ~RowsListed
    <3>1. rows' = rows \cup {req[r].att} /\ pc'[r] = "idle"
      <4>1. rows' \in Outcome(ok, rows, rows \cup {req[r].att}) /\ Return(r)
        BY <2>1, <2>2
      <4>2. QED
        BY <1>0, <2>2, <4>1, ReturnFacts DEF Outcome
    <3>2. blobs' = blobs /\ topic' = topic /\ channel' = channel /\ missed' = missed
      BY <1>1, <2>2 DEF SaveRow, queueVars
    <3>3. pc[r] = "saveRow" /\ req[r].att \in blobs
          /\ req[r].att \notin topic \cup channel \cup missed
      BY <1>1 DEF SaveRow, Own, FreshInv, Unsaved, Uncalled
    <3>4. QED
      BY <2>1, <2>2, <3>1, <3>2, <3>3
  <2>3. QED
    BY <2>1, <2>2
<1>2. CASE ~SaveRow(r)
  BY <1>2 DEF Step, BeginUpload, BeginDelete, BeginDeleteTask, CheckTask, PutObject, HeadObject,
     Rollback, FindRow, ExistsTask, ListRows, Plan, DeleteObject, Publish, DeleteRow, historyVars
<1>3. QED
  BY <1>1, <1>2

\* The request that steps keeps its part.
LEMMA OwnStep ==
  ASSUME TypeOK, RequestInv, UsedInv, LastInv, NEW r \in Requests, Step(r)
  PROVE  Own(r)'
<1>0. ControlOK /\ RequestOK(r) /\ Own(r)
  BY DEF TypeOK, ControlOK, RequestInv, LastInv, Own
<1> USE DEF kafkaVars, storeVars, queueVars, historyVars, Own, Holding, UploadSteps, Unsaved,
            Uncalled
<1>1. CASE \E a \in Attachments : BeginUpload(r, a)
  <2>1. PICK a \in Attachments : BeginUpload(r, a)
    BY <1>1
  <2>2. a \notin missed /\ a \notin blobs /\ a \notin lasting
    BY <2>1 DEF BeginUpload, LastInv, UploadsLast
  <2>3. QED
    BY <1>0, <2>1, <2>2, StartFacts, StepNames DEF BeginUpload
<1>2. CASE (\E a \in Attachments : BeginDelete(r, a)) \/ BeginDeleteTask(r)
  BY <1>0, <1>2, StartFacts, StepNames DEF BeginDelete, BeginDeleteTask
<1>3. CASE CheckTask(r) \/ HeadObject(r) \/ ExistsTask(r)
  BY <1>0, <1>3, StayFacts, ReturnFacts, NoRequestType, StepNames
  DEF CheckTask, HeadObject, ExistsTask
<1>4. CASE PutObject(r)
  BY <1>0, <1>4, OutcomeFacts, StayFacts, ReturnFacts, NoRequestType, StepNames DEF PutObject
<1>5. CASE SaveRow(r)
  BY <1>0, <1>5, StayFacts, ReturnFacts, NoRequestType, StepNames DEF SaveRow
<1>6. CASE Rollback(r)
  BY <1>0, <1>6, StayFacts, ReturnFacts, NoRequestType, StepNames DEF Rollback
<1>7. CASE FindRow(r) \/ ListRows(r)
  <2>1. \/ \E atts \in SUBSET Attachments : Plan(r, atts)
        \/ Return(r) /\ UNCHANGED lasting
    BY <1>7 DEF FindRow, ListRows, TypeOK
  <2>2. CASE Return(r)
    BY <1>0, <2>2, ReturnFacts, NoRequestType
  <2>3. ASSUME NEW atts \in SUBSET Attachments, Plan(r, atts)
        PROVE  Own(r)'
    <3>1. req'[r].listed = atts /\ pc'[r] \in {"deleteRow", "deleteObject"}
      BY <1>0, <2>3, PlanFacts
    <3>2. lasting' = lasting \ atts
      BY <2>3 DEF Plan
    <3>3. QED
      BY <3>1, <3>2
  <2>4. QED
    BY <2>1, <2>2, <2>3
<1>8. CASE DeleteObject(r)
  BY <1>0, <1>8, FieldTypes, NextObjectFacts, AskFacts DEF DeleteObject, RequestOK
<1>9. CASE Publish(r) \/ DeleteRow(r)
  BY <1>0, <1>9, NextObjectFacts, ReturnFacts, NoRequestType DEF Publish, DeleteRow
<1>10. QED
  BY <1>1, <1>2, <1>3, <1>4, <1>5, <1>6, <1>7, <1>8, <1>9 DEF Step

\* What r may touch, no other request holds before its row is saved.
LEMMA TouchesApart ==
  ASSUME FreshInv, NEW r \in Requests, NEW x \in Requests, x # r, pc[x] \in Unsaved
  PROVE  ~Touches(r, req[x].att)
  BY DEF FreshInv, Touches

LEMMA LastStep ==
  ASSUME TypeOK, RequestInv, UsedInv, FreshInv, ListInv, LastInv, [Next]_vars
  PROVE  LastInv'
<1>0. /\ lasting \subseteq rows \cap blobs /\ blobs \cup missed \subseteq used
      /\ lasting \cap (topic \cup channel \cup missed) = {}
      /\ \A x \in Requests : Own(x)
  BY DEF LastInv, UploadsLast, Own
<1>1. SUFFICES /\ lasting' \subseteq rows' \cap blobs' /\ blobs' \cup missed' \subseteq used'
               /\ lasting' \cap (topic' \cup channel' \cup missed') = {}
               /\ \A x \in Requests : Own(x)'
  BY <1>1 DEF LastInv, UploadsLast, Own
<1>2. CASE UNCHANGED vars
  BY <1>0, <1>2 DEF vars, Own
<1>3. ASSUME NEW r \in Requests, Step(r)
      PROVE  /\ lasting' \subseteq rows' \cap blobs' /\ blobs' \cup missed' \subseteq used'
             /\ lasting' \cap (topic' \cup channel' \cup missed') = {}
             /\ \A x \in Requests : Own(x)'
  <2>0. Others(r) /\ Own(r)' /\ Own(r) /\ used \subseteq used'
    <3>1. used \subseteq used'
      BY <1>3 DEF Step, BeginUpload, BeginDelete, BeginDeleteTask, CheckTask, PutObject,
         HeadObject, SaveRow, Rollback, FindRow, ExistsTask, ListRows, DeleteObject, Publish,
         DeleteRow
    <3>2. QED
      BY <1>0, <1>3, <3>1, ControlStep, OwnStep
  <2>1. \A a : Touches(r, a) => a \in used
    BY DEF UsedInv, Touches
  <2>2. \A a \in lasting : ~Touches(r, a)
    BY <2>0 DEF Own, Touches
  <2>3. \A a \in lasting : a \in rows' /\ a \in blobs' /\ a \notin topic' \cup channel' \cup missed'
    BY <1>0, <1>3, <2>2, TouchStep
  <2>4. \A a \in lasting' : a \in rows' /\ a \in blobs' /\ a \notin topic' \cup channel' \cup missed'
    BY <1>3, <2>0, <2>3, LastingStep
  <2>5. blobs' \cup missed' \subseteq used'
    BY <1>0, <1>3, <2>0, <2>1, TouchStep
  <2>6. ASSUME NEW x \in Requests, x # r
        PROVE  Own(x)'
    <3>1. Own(x) /\ pc'[x] = pc[x] /\ req'[x] = req[x]
      BY <1>0, <2>0, <2>6 DEF Others
    <3>2. CASE lasting' \subseteq lasting
      BY <1>3, <2>6, <3>1, <3>2, TouchesApart, TouchStep DEF Own
    <3>3. CASE pc[r] = "saveRow" /\ lasting' = lasting \cup {req[r].att}
      <4>1. req[r].att \notin req[x].listed /\ (pc[x] \in Holding => req[r].att # req[x].att)
        BY <2>6, <3>3 DEF FreshInv, Unsaved
      <4>2. QED
        BY <1>3, <2>6, <3>1, <3>3, <4>1, TouchesApart, TouchStep DEF Own
    <3>4. QED
      BY <1>3, <2>0, <3>2, <3>3, LastingStep
  <2>7. QED
    BY <2>0, <2>4, <2>5, <2>6
<1>4. ASSUME NEW a \in Attachments, Deliver(a)
      PROVE  /\ lasting' \subseteq rows' \cap blobs' /\ blobs' \cup missed' \subseteq used'
             /\ lasting' \cap (topic' \cup channel' \cup missed') = {}
             /\ \A x \in Requests : Own(x)'
  BY <1>0, <1>4 DEF Deliver, Own, storeVars, historyVars
<1>5. ASSUME NEW a \in Attachments, Handle(a)
      PROVE  /\ lasting' \subseteq rows' \cap blobs' /\ blobs' \cup missed' \subseteq used'
             /\ lasting' \cap (topic' \cup channel' \cup missed') = {}
             /\ \A x \in Requests : Own(x)'
  <2>1. /\ a \in channel /\ channel' = channel \ {a} /\ blobs' \in {blobs, blobs \ {a}}
        /\ UNCHANGED <<rows, used, topic, pc, req, missed, lasting>>
    BY <1>5, OutcomeFacts DEF Handle, historyVars
  <2>2. \A x \in Requests : pc[x] \in Unsaved => req[x].att # a
    BY <2>1 DEF FreshInv
  <2>3. \A x \in Requests : Own(x)'
    BY <1>0, <2>1, <2>2 DEF Own
  <2>4. QED
    BY <1>0, <2>1, <2>3
<1>6. CASE Crash
  BY <1>0, <1>6, NoRequestType DEF Crash, Own, Holding, UploadSteps, Unsaved, storeVars
<1>7. CASE Rebalance
  BY <1>0, <1>7 DEF Rebalance, Own, storeVars, queueVars, historyVars
<1>8. CASE DeleteUser
  <2>1. /\ lasting' = {} /\ missed' = missed \cup rows
        /\ UNCHANGED <<blobs, used, pc, req>>
    BY <1>8 DEF DeleteUser
  <2>2. rows \subseteq used /\ \A x \in Requests : pc[x] \in Unsaved => req[x].att \notin rows
    BY DEF UsedInv, FreshInv
  <2>3. \A x \in Requests : Own(x)'
    BY <1>0, <2>1, <2>2 DEF Own
  <2>4. QED
    BY <1>0, <2>1, <2>2, <2>3
<1>9. QED
  BY <1>2, <1>3, <1>4, <1>5, <1>6, <1>7, <1>8 DEF Next, Consume

-----------------------------------------------------------------------------
(* The inductive invariant                                                  *)

\* The initial states satisfy every part of the invariant.
LEMMA InitIInv ==
  Init => IInv
<1> SUFFICES ASSUME Init
             PROVE  IInv
  OBVIOUS
<1>1. TypeOK
  BY FaultsAssumption, NoRequestType, StepNames DEF Init, TypeOK, Sessions
<1>2. RequestInv /\ UsedInv /\ FreshInv
  BY NoRequestType
  DEF Init, RequestInv, RequestOK, UsedInv, FreshInv, Unsaved, Holding, UploadSteps, DeleteSteps
<1>3. KeptInv /\ ListInv /\ UploadInv /\ ObjectsAccounted /\ RowsBacked
  BY NoRequestType DEF Init, KeptInv, ListInv, Listed, UploadInv,
     ObjectsAccounted, RowsBacked
<1>4. LastInv
  BY NoRequestType DEF Init, LastInv, UploadsLast, Holding, UploadSteps, Unsaved
<1>5. QED
  BY <1>1, <1>2, <1>3, <1>4 DEF IInv

\* Every step keeps it.
LEMMA NextIInv ==
  IInv /\ [Next]_vars => IInv'
<1> SUFFICES ASSUME IInv, [Next]_vars
             PROVE  IInv'
  OBVIOUS
<1>1. /\ TypeOK /\ RequestInv /\ UsedInv /\ FreshInv /\ ListInv /\ UploadInv
      /\ ObjectsAccounted /\ RowsBacked /\ LastInv /\ NoMessages /\ DoneKept
  BY KeptParts DEF IInv
<1>2. TypeOK' /\ RequestInv' /\ UsedInv' /\ FreshInv' /\ ListInv' /\ UploadInv' /\ LastInv'
  BY <1>1, TypeStep, RequestStep, UsedStep, FreshStep, ListStep, UploadStep, LastStep
<1>3. missed \subseteq missed' /\ cut \subseteq cut'
  BY DEF Next, Consume, vars, Step, BeginUpload, BeginDelete, BeginDeleteTask, CheckTask,
     PutObject, HeadObject, SaveRow, Rollback, FindRow, ExistsTask, ListRows, DeleteObject,
     Publish, DeleteRow, DeleteUser, Deliver, Handle, Rebalance, Crash, historyVars
<1>4. ObjectsAccounted' /\ RowsBacked'
  BY <1>1, <1>3, ObjectsStep, RowsStep
<1>5. KeptInv'
  BY <1>1, KeptStep DEF KeptInv, NoMessages, DoneKept, FewFaults, Done, Pending
<1>6. QED
  BY <1>2, <1>4, <1>5 DEF IInv

\* The invariant holds in every reachable state.
THEOREM InvariantIInv == Spec => []IInv
  BY InitIInv, NextIInv, PTL DEF Spec

-----------------------------------------------------------------------------
(* What follows                                                             *)

\* The variables keep their types.
THEOREM TypeCorrect == Spec => []TypeOK
<1>1. IInv => TypeOK
  BY DEF IInv
<1>2. QED
  BY <1>1, InvariantIInv, PTL

\* No object is left without a row and without a cleanup request, even if one
\* call failed, but for three reasons: that call was the upload itself or the
\* process died in it, DeleteTask missed a row that was saved after it had
\* listed them, or the row went with the account of the task's creator.
THEOREM NoOrphans == Spec => []ObjectsAccounted
<1>1. IInv => ObjectsAccounted
  BY DEF IInv
<1>2. QED
  BY <1>1, InvariantIInv, PTL

\* Unless a call failed, the object of a row is in the bucket until a deletion
\* of the row has begun, whatever uploads, deletions and deletions of the task
\* run at the same time.
THEOREM DownloadsFindObjects == Spec => []RowsBacked
<1>1. IInv => RowsBacked
  BY DEF IInv
<1>2. QED
  BY <1>1, InvariantIInv, PTL

\* With the Kafka consumer it takes two failures to lose an object whose
\* deletion was reported as done: after one, its cleanup request is still
\* uncommitted in the topic or waiting in the consumer's channel.
THEOREM CleanupNotLost == Spec => []DeletionsKept
<1>1. IInv => DeletionsKept
  BY FaultsAssumption DEF IInv, TypeOK, KeptInv, DeletionsKept
<1>2. QED
  BY <1>1, InvariantIInv, PTL

\* An upload that was answered keeps its row and its object until a deletion
\* has listed it or the account of the task's creator is deleted, however many
\* calls fail and however often the process dies.
THEOREM AnsweredUploadsLast == Spec => []UploadsLast
<1>1. IInv => UploadsLast
  BY DEF IInv, LastInv
<1>2. QED
  BY <1>1, InvariantIInv, PTL

-----------------------------------------------------------------------------
(* The stores implement AttachmentLifecycle                                  *)

\* An upload leaves the steps before its object or its row for good.
LEMMA ComingStep ==
  ASSUME TypeOK, RequestInv, NEW r \in Requests, Step(r),
         NEW steps \in {Uncalled, Unsaved}, NEW a \in Attachments
  PROVE  /\ Coming(a, steps)' => Coming(a, steps)
         /\ Coming(a, steps) /\ ~Coming(a, steps)' => pc[r] \in steps /\ a = req[r].att
<1>0. ControlOK /\ RequestOK(r) /\ Others(r)
  BY ControlStep DEF TypeOK, ControlOK, RequestInv
<1> USE DEF Uncalled, Unsaved
<1>1. CASE \E b \in Attachments : BeginUpload(r, b)
  <2>1. PICK b \in Attachments : BeginUpload(r, b)
    BY <1>1
  <2>2. /\ b \notin used /\ used' = used \cup {b}
        /\ pc[r] = "idle" /\ pc'[r] \in steps /\ req'[r].att = b
    BY <1>0, <2>1, StartFacts, StepNames DEF BeginUpload
  <2>3. QED
    BY <1>0, <2>2 DEF Coming, Others
<1>2. CASE ~\E b \in Attachments : BeginUpload(r, b)
  <2>1. used' = used
    BY <1>2 DEF Step, BeginDelete, BeginDeleteTask, CheckTask, PutObject, HeadObject, SaveRow,
       Rollback, FindRow, ExistsTask, ListRows, DeleteObject, Publish, DeleteRow
  <2>2. pc'[r] \in steps => pc[r] \in steps /\ req'[r] = req[r]
    <3>1. CASE (\E b \in Attachments : BeginDelete(r, b)) \/ BeginDeleteTask(r)
      BY <1>0, <3>1, StartFacts, StepNames DEF BeginDelete, BeginDeleteTask
    <3>2. CASE CheckTask(r) \/ PutObject(r) \/ HeadObject(r)
      BY <1>0, <3>2, StayFacts, ReturnFacts, StepNames DEF CheckTask, PutObject, HeadObject
    <3>3. CASE SaveRow(r) \/ Rollback(r) \/ ExistsTask(r)
      BY <1>0, <3>3, StayFacts, ReturnFacts, StepNames DEF SaveRow, Rollback, ExistsTask
    <3>4. CASE FindRow(r) \/ ListRows(r)
      BY <1>0, <3>4, PlanFacts, ReturnFacts DEF TypeOK, FindRow, ListRows
    <3>5. CASE DeleteObject(r)
      BY <1>0, <3>5, FieldTypes, NextObjectFacts, AskFacts DEF DeleteObject
    <3>6. CASE Publish(r) \/ DeleteRow(r)
      BY <1>0, <3>6, NextObjectFacts, ReturnFacts DEF Publish, DeleteRow
    <3>7. QED
      BY <1>2, <3>1, <3>2, <3>3, <3>4, <3>5, <3>6 DEF Step
  <2>3. QED
    BY <1>0, <2>1, <2>2 DEF Coming, Others
<1>3. QED
  BY <1>1, <1>2

\* What is stored is not coming.
LEMMA StoredNotComing ==
  ASSUME UsedInv, FreshInv, LastInv, NEW a
  PROVE  /\ a \in blobs => ~Coming(a, Uncalled)
         /\ a \in rows => ~Coming(a, Unsaved)
  BY DEF UsedInv, FreshInv, LastInv, Coming, Uncalled, Unsaved

\* Steps that make nothing.
LEMMA DropStep ==
  ASSUME UsedInv, FreshInv, LastInv, LastInv',
         blobs' \subseteq blobs, rows' \subseteq rows, lasting' = lasting,
         \A a \in Attachments : \A steps \in {Uncalled, Unsaved} :
           Coming(a, steps)' => Coming(a, steps)
  PROVE  Lifecycle!Drop
<1>1. lasting \subseteq rows' \cap blobs'
  BY DEF LastInv, UploadsLast
<1>2. ASSUME NEW a \in Attachments, object'[a] # object[a]
      PROVE  a \notin lasting /\ object'[a] = "gone"
  <2>1. /\ object[a] = IF a \in blobs THEN "stored"
                  ELSE IF Coming(a, Uncalled) THEN "none" ELSE "gone"
        /\ object'[a] = IF a \in blobs' THEN "stored"
                   ELSE IF Coming(a, Uncalled)' THEN "none" ELSE "gone"
    BY DEF object, State
  <2>2. a \in blobs => ~Coming(a, Uncalled)
    BY StoredNotComing
  <2>3. Coming(a, Uncalled)' => Coming(a, Uncalled)
    OBVIOUS
  <2>4. QED
    BY <1>1, <1>2, <2>1, <2>2, <2>3
<1>3. ASSUME NEW a \in Attachments, row'[a] # row[a]
      PROVE  a \notin lasting /\ row'[a] = "gone"
  <2>1. /\ row[a] = IF a \in rows THEN "stored"
                  ELSE IF Coming(a, Unsaved) THEN "none" ELSE "gone"
        /\ row'[a] = IF a \in rows' THEN "stored"
                   ELSE IF Coming(a, Unsaved)' THEN "none" ELSE "gone"
    BY DEF row, State
  <2>2. a \in rows => ~Coming(a, Unsaved)
    BY StoredNotComing
  <2>3. Coming(a, Unsaved)' => Coming(a, Unsaved)
    OBVIOUS
  <2>4. QED
    BY <1>1, <1>3, <2>1, <2>2, <2>3
<1>4. /\ object' \in [Attachments -> {"none", "stored", "gone"}]
      /\ row' \in [Attachments -> {"none", "stored", "gone"}]
  BY DEF object, row, State
<1>5. QED
  BY <1>2, <1>3, <1>4 DEF Lifecycle!Drop, Lifecycle!Loses, Lifecycle!States

\* The steps of a request that make or name something, and the others.
LEMMA LifecycleStep ==
  ASSUME TypeOK, RequestInv, UsedInv, FreshInv, LastInv, LastInv',
         NEW r \in Requests, Step(r)
  PROVE  Lifecycle!Next
<1>0. ControlOK
  BY DEF TypeOK, ControlOK
<1>1. \A a \in Attachments : \A steps \in {Uncalled, Unsaved} :
        /\ Coming(a, steps)' => Coming(a, steps)
        /\ pc[r] \notin steps \/ a # req[r].att => (Coming(a, steps)' <=> Coming(a, steps))
  BY ComingStep
<1> DEFINE att == req[r].att
<1>2. CASE PutObject(r) /\ blobs' # blobs
  <2>1. /\ pc[r] \in Uncalled /\ pc[r] \in Unsaved /\ att \in Attachments
        /\ rows' = rows /\ lasting' = lasting /\ blobs' = blobs \cup {att}
    BY <1>2, HeldAttachment, OutcomeFacts
    DEF PutObject, Uncalled, Unsaved, Holding, UploadSteps
  <2>2. object[att] = "none" /\ row[att] = "none"
    BY <2>1 DEF object, row, State, Coming, LastInv, FreshInv
  <2>3. object' = [object EXCEPT ![att] = "stored"]
    BY <1>1, <2>1 DEF object, State
  <2>4. row' = row \/ row' = [row EXCEPT ![att] = "gone"]
    BY <1>1, <2>1, <2>2 DEF row, State
  <2>5. Lifecycle!Put(att)
    BY <2>1, <2>2, <2>3, <2>4 DEF Lifecycle!Put
  <2>6. QED
    BY <2>1, <2>5 DEF Lifecycle!Next
<1>3. CASE SaveRow(r) /\ rows' # rows
  <2>1. /\ pc[r] \in Unsaved /\ pc[r] \notin Uncalled /\ att \in Attachments
        /\ rows' = rows \cup {att} /\ blobs' = blobs
        /\ lasting' \in {lasting, lasting \cup {att}}
    BY <1>3, HeldAttachment, OutcomeFacts
    DEF SaveRow, Uncalled, Unsaved, Holding, UploadSteps
  <2>2. object[att] = "stored" /\ row[att] = "none"
    BY <2>1 DEF object, row, State, Coming, LastInv, FreshInv
  <2>3. object' = object /\ row' = [row EXCEPT ![att] = "stored"]
    BY <1>1, <2>1 DEF object, row, State
  <2>4. Lifecycle!Save(att)
    BY <2>1, <2>2, <2>3 DEF Lifecycle!Save
  <2>5. QED
    BY <2>1, <2>4 DEF Lifecycle!Next
<1>4. CASE FindRow(r) \/ ListRows(r)
  <2>1. /\ pc[r] \notin Unsaved /\ pc[r] \notin Uncalled
        /\ rows' = rows /\ blobs' = blobs /\ lasting' \subseteq lasting
    BY <1>4 DEF FindRow, ListRows, Plan, storeVars, Unsaved, Uncalled
  <2>2. object' = object /\ row' = row
    BY <1>1, <2>1 DEF object, row, State
  <2>3. QED
    BY <2>1, <2>2 DEF Lifecycle!Next, Lifecycle!Condemn
<1>5. CASE /\ PutObject(r) => blobs' = blobs
           /\ SaveRow(r) => rows' = rows
           /\ ~FindRow(r) /\ ~ListRows(r)
  <2>1. blobs' \subseteq blobs
    <3>1. CASE Rollback(r) \/ DeleteObject(r)
      BY <3>1 DEF Rollback, DeleteObject, Outcome
    <3>2. CASE ~Rollback(r) /\ ~DeleteObject(r)
      BY <1>5, <3>2 DEF Step, BeginUpload, BeginDelete, BeginDeleteTask, CheckTask, HeadObject,
         SaveRow, ExistsTask, Publish, DeleteRow, storeVars
    <3>3. QED
      BY <3>1, <3>2
  <2>2. rows' \subseteq rows
    BY <1>5 DEF Step, BeginUpload, BeginDelete, BeginDeleteTask, CheckTask, PutObject,
       HeadObject, Rollback, ExistsTask, DeleteObject, Publish, DeleteRow, storeVars
  <2>3. lasting' = lasting
    <3>1. CASE SaveRow(r)
      <4>1. pc[r] \in Unsaved /\ att \in Attachments
        BY <3>1, HeldAttachment DEF SaveRow, Unsaved, Holding, UploadSteps
      <4>2. att \notin rows'
        BY <1>5, <3>1, <4>1 DEF FreshInv
      <4>3. lasting' \in {lasting, lasting \cup {att}} /\ lasting' \subseteq rows'
        BY <3>1 DEF SaveRow, LastInv, UploadsLast
      <4>4. QED
        BY <4>2, <4>3
    <3>2. CASE ~SaveRow(r)
      BY <1>5, <3>2 DEF Step, BeginUpload, BeginDelete, BeginDeleteTask, CheckTask, PutObject,
         HeadObject, Rollback, ExistsTask, DeleteObject, Publish, DeleteRow, historyVars
    <3>3. QED
      BY <3>1, <3>2
  <2>4. QED
    BY <1>1, <2>1, <2>2, <2>3, DropStep DEF Lifecycle!Next
<1>6. QED
  BY <1>2, <1>3, <1>4, <1>5

\* DeleteUser takes every row and no object.
LEMMA DisownStep ==
  ASSUME TypeOK, UsedInv, FreshInv, LastInv, DeleteUser
  PROVE  Lifecycle!Disown
<1>1. rows' = {} /\ lasting' = {} /\ UNCHANGED <<blobs, used, pc, req>>
  BY DEF DeleteUser
<1>2. \A a, steps : Coming(a, steps)' <=> Coming(a, steps)
  BY <1>1 DEF Coming
<1>3. object' = object
  BY <1>1, <1>2 DEF object, State
<1>4. \A a \in rows : ~Coming(a, Unsaved)
  BY StoredNotComing
<1>5. row' = [a \in Attachments |-> IF row[a] = "stored" THEN "gone" ELSE row[a]]
  BY <1>1, <1>2, <1>4 DEF row, State
<1>6. QED
  BY <1>1, <1>3, <1>5 DEF Lifecycle!Disown

\* The states of objects and rows start and move as AttachmentLifecycle says:
\* each is made at most once, a row only for an object that is there, no retry,
\* late call or restart brings anything back, and what was answered goes only
\* after a deletion has named it or with its account, the row without the object.
THEOREM ImplementsLifecycle == Spec => NothingComesBack
<1>1. Init => Lifecycle!Init
  BY DEF Init, Lifecycle!Init, object, row, State, Coming
<1>2. IInv /\ IInv' /\ [Next]_vars => [Lifecycle!Next]_<<object, row, lasting>>
  <2> SUFFICES ASSUME IInv, IInv', [Next]_vars
               PROVE  [Lifecycle!Next]_<<object, row, lasting>>
    OBVIOUS
  <2>0. TypeOK /\ RequestInv /\ UsedInv /\ FreshInv /\ LastInv /\ LastInv'
    BY DEF IInv
  <2>1. CASE UNCHANGED vars
    BY <2>1 DEF vars, object, row, State, Coming
  <2>2. ASSUME NEW r \in Requests, Step(r)
        PROVE  Lifecycle!Next
    BY <2>0, <2>2, LifecycleStep
  <2>3. CASE Consume \/ Rebalance
    <3>1. /\ blobs' \subseteq blobs /\ rows' = rows /\ lasting' = lasting
          /\ UNCHANGED <<used, pc, req>>
      <4>1. CASE \E a \in Attachments : Handle(a)
        BY <4>1 DEF Handle, Outcome, historyVars
      <4>2. CASE (\E a \in Attachments : Deliver(a)) \/ Rebalance
        BY <4>2 DEF Deliver, Rebalance, storeVars, historyVars
      <4>3. QED
        BY <2>3, <4>1, <4>2 DEF Consume
    <3>2. QED
      BY <2>0, <3>1, DropStep DEF Coming, Lifecycle!Next
  <2>4. CASE Crash
    <3>1. /\ blobs' = blobs /\ rows' = rows /\ lasting' = lasting /\ used' = used
          /\ \A r \in Requests : pc'[r] = "idle"
      BY <2>4 DEF Crash, storeVars
    <3>2. QED
      BY <2>0, <3>1, DropStep DEF Coming, Uncalled, Unsaved, Lifecycle!Next
  <2>5. CASE DeleteUser
    BY <2>0, <2>5, DisownStep DEF Lifecycle!Next
  <2>6. QED
    BY <2>1, <2>2, <2>3, <2>4, <2>5 DEF Next
<1>3. QED
  BY <1>1, <1>2, InvariantIInv, PTL DEF Spec, NothingComesBack, Lifecycle!Spec
=============================================================================
