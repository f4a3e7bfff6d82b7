----------------------------- MODULE Attachments -----------------------------
(***************************************************************************)
(* The attachments of one task: objects in S3, rows in task_attachments,   *)
(* and the cleanup requests published when an object cannot be deleted     *)
(* (TaskUseCase.UploadTaskAttachment, DeleteTaskAttachment, DeleteTask and *)
(* worker.NewTaskAttachmentCleanupHandler), and the deletion of the        *)
(* account that created the task, whose row and attachments go with it     *)
(* (UserUseCase.DeleteUser).  Nothing spans the two stores, so every call  *)
(* to either is a step, and a crash may come between two.                  *)
(*                                                                         *)
(* A failed call to the store, the database or Kafka may or may not have   *)
(* taken effect.  Bounds: Attachments bounds the uploads, MaxFaults the    *)
(* failed calls and crashes.                                               *)
(***************************************************************************)
EXTENDS Naturals

CONSTANTS
    Requests,     \* requests in flight
    Attachments,  \* uploads; each has an object key of its own
    MaxFaults,
    None

ASSUME FaultsAssumption == MaxFaults \in Nat
ASSUME NoneAssumption == None \notin Attachments

VARIABLES
    connected,  \* Kafka clients that could be built at start-up; without a
                \* subscriber the local bus feeds the cleanup handler
    session,    \* the topic the consumer group's session is about, None
                \* without a subscriber
    task,       \* the row of the task
    rows,       \* task_attachments
    blobs,      \* objects in the bucket
    used,       \* attachments whose upload was started
    topic,      \* cleanup requests in Kafka whose offset is not committed
    channel,    \* cleanup requests in the consumer's channel
    pc, req,    \* next step and local variables of each request
    faults,
    reported,   \* history: attachments whose deletion was reported as done
    missed,     \* history: attachments whose row no deletion found, saved after
                \* DeleteTask listed the rows or gone with the account
    cut,        \* history: attachments whose upload ended in a failed call of
                \* FileStorage.Upload or in a crash
    lasting     \* history: attachments whose upload was answered, that no
                \* deletion has listed and whose account is not deleted

vars == <<connected, session, task, rows, blobs, used, topic, channel, pc, req,
          faults, reported, missed, cut, lasting>>

-----------------------------------------------------------------------------
UploadSteps == {"checkTask", "putObject", "headObject", "saveRow", "rollback"}
DeleteSteps == {"findRow", "existsTask", "listRows", "deleteObject", "deleteRow"}
Steps == {"idle", "publish"} \cup UploadSteps \cup DeleteSteps

Request == [op : {"upload", "delete", "deleteTask", None},
            att : Attachments \cup {None},     \* the object at hand
            listed : SUBSET Attachments,       \* what a deletion is about
            todo : SUBSET Attachments]         \* objects it still has to delete

NoRequest == [op |-> None, att |-> None, listed |-> {}, todo |-> {}]

Clients == {"publisher", "subscriber"}
Topics == {"tasks", "users"}

TypeOK ==
    /\ connected \subseteq Clients
    /\ session \in Topics \cup {None}
    /\ task \in {"stored", "deleted"}
    /\ rows \subseteq Attachments /\ blobs \subseteq Attachments
    /\ used \subseteq Attachments
    /\ topic \subseteq Attachments /\ channel \subseteq Attachments
    /\ pc \in [Requests -> Steps]
    /\ req \in [Requests -> Request]
    /\ faults \in 0..MaxFaults
    /\ reported \subseteq Attachments
    /\ missed \subseteq Attachments /\ cut \subseteq Attachments
    /\ lasting \subseteq Attachments

Sessions(clients) == IF "subscriber" \in clients THEN Topics ELSE {None}

Init ==
    /\ connected \in SUBSET Clients
    /\ session \in Sessions(connected)
    /\ task = "stored"
    /\ rows = {} /\ blobs = {} /\ used = {}
    /\ topic = {} /\ channel = {}
    /\ pc = [r \in Requests |-> "idle"]
    /\ req = [r \in Requests |-> NoRequest]
    /\ faults = 0
    /\ reported = {} /\ missed = {} /\ cut = {} /\ lasting = {}

-----------------------------------------------------------------------------
(* Control shared by the steps *)

\* An external call answers (ok) or fails; failures are budgeted.
Call(ok) ==
    IF ok THEN UNCHANGED faults
          ELSE faults < MaxFaults /\ faults' = faults + 1

\* What a call may leave behind: its effect, or nothing when it failed.
Outcome(ok, before, after) == IF ok THEN {after} ELSE {before, after}

Goto(r, step) == pc' = [pc EXCEPT ![r] = step]
Stay(r, step) == Goto(r, step) /\ UNCHANGED req

Return(r) ==
    /\ Goto(r, "idle")
    /\ req' = [req EXCEPT ![r] = NoRequest]

Start(r, op, att, step) ==
    /\ pc[r] = "idle"
    /\ req' = [req EXCEPT ![r] = [NoRequest EXCEPT !.op = op, !.att = att]]
    /\ Goto(r, step)

kafkaVars == <<connected, session>>
storeVars == <<task, rows, blobs>>
queueVars == <<topic, channel>>
historyVars == <<reported, missed, cut, lasting>>

-----------------------------------------------------------------------------
(* UploadTaskAttachment                                                     *)

\* The object key contains a fresh UUID.
BeginUpload(r, a) ==
    /\ a \notin used
    /\ used' = used \cup {a}
    /\ Start(r, "upload", a, "checkTask")
    /\ UNCHANGED <<kafkaVars, storeVars, queueVars, faults, historyVars>>

CheckTask(r) ==
    /\ pc[r] = "checkTask"
    /\ \E ok \in BOOLEAN :
         /\ Call(ok)
         /\ IF ok /\ task = "stored" THEN Stay(r, "putObject") ELSE Return(r)
    /\ UNCHANGED <<kafkaVars, storeVars, used, queueVars, historyVars>>

\* FileStorage.Upload fails: nobody knows whether the object is there.
CutShort(r) == Return(r) /\ cut' = cut \cup {req[r].att}

\* FileStorage.Upload is a PutObject ...
PutObject(r) ==
    /\ pc[r] = "putObject"
    /\ \E ok \in BOOLEAN :
         /\ Call(ok)
         /\ blobs' \in Outcome(ok, blobs, blobs \cup {req[r].att})
         /\ IF ok THEN Stay(r, "headObject") /\ UNCHANGED cut ELSE CutShort(r)
    /\ UNCHANGED <<kafkaVars, task, rows, used, queueVars, reported, missed, lasting>>

\* ... and a HeadObject, whose failure leaves the object behind.
HeadObject(r) ==
    /\ pc[r] = "headObject"
    /\ \E ok \in BOOLEAN :
         /\ Call(ok)
         /\ IF ok THEN Stay(r, "saveRow") /\ UNCHANGED cut ELSE CutShort(r)
    /\ UNCHANGED <<kafkaVars, storeVars, used, queueVars, reported, missed, lasting>>

\* DeleteTask has listed the rows and not yet deleted them.
Listed(s) == req[s].op = "deleteTask" /\ pc[s] \in {"deleteObject", "publish", "deleteRow"}
RowsListed == \E s \in Requests : Listed(s)

\* SaveAttachment; the foreign keys refuse the row once the task is gone, or
\* the account of the uploader (known), which may be another than the creator's.
SaveRow(r) ==
    /\ pc[r] = "saveRow"
    /\ \E ok, known \in BOOLEAN :
         LET accepted == known /\ task = "stored" IN
         /\ Call(ok)
         /\ rows' \in IF accepted
                      THEN Outcome(ok, rows, rows \cup {req[r].att}) ELSE {rows}
         /\ IF ok /\ accepted THEN Return(r) ELSE Stay(r, "rollback")
         /\ lasting' = IF ok /\ accepted /\ ~RowsListed
                       THEN lasting \cup {req[r].att} ELSE lasting
    /\ missed' = IF RowsListed THEN missed \cup (rows' \ rows) ELSE missed
    /\ UNCHANGED <<kafkaVars, task, blobs, used, queueVars, reported, cut>>

\* (mutant) the upload is not rolled back.
MutRollback(r) ==
    /\ pc[r] = "rollback"
    /\ Return(r)
    /\ UNCHANGED <<kafkaVars, storeVars, used, queueVars, faults, historyVars>>

\* cleanupUploadedAttachmentObject.
Rollback(r) ==
    /\ pc[r] = "rollback"
    /\ \E ok \in BOOLEAN :
         /\ Call(ok)
         /\ blobs' \in Outcome(ok, blobs, blobs \ {req[r].att})
         /\ IF ok THEN Return(r) ELSE Stay(r, "publish")
    /\ UNCHANGED <<kafkaVars, task, rows, used, queueVars, historyVars>>

-----------------------------------------------------------------------------
(* DeleteTaskAttachment and DeleteTask                                       *)

BeginDelete(r, a) ==
    /\ a \in used
    /\ Start(r, "delete", a, "findRow")
    /\ UNCHANGED <<kafkaVars, storeVars, used, queueVars, faults, historyVars>>

BeginDeleteTask(r) ==
    /\ Start(r, "deleteTask", None, "existsTask")
    /\ UNCHANGED <<kafkaVars, storeVars, used, queueVars, faults, historyVars>>

\* The objects of these attachments are to be deleted, then their rows.
Plan(r, atts) ==
    /\ lasting' = lasting \ atts
    /\ req' = [req EXCEPT ![r].listed = atts, ![r].todo = atts]
    /\ Goto(r, IF atts = {} THEN "deleteRow" ELSE "deleteObject")

\* FindAttachmentByID; a request that names another task ends here, too.
FindRow(r) ==
    /\ pc[r] = "findRow"
    /\ \E ok \in BOOLEAN :
         /\ Call(ok)
         /\ IF ok /\ req[r].att \in rows THEN Plan(r, {req[r].att})
                                   ELSE Return(r) /\ UNCHANGED lasting
    /\ UNCHANGED <<kafkaVars, storeVars, used, queueVars, reported, missed, cut>>

ExistsTask(r) ==
    /\ pc[r] = "existsTask"
    /\ \E ok \in BOOLEAN :
         /\ Call(ok)
         /\ IF ok /\ task = "stored" THEN Stay(r, "listRows") ELSE Return(r)
    /\ UNCHANGED <<kafkaVars, storeVars, used, queueVars, historyVars>>

ListRows(r) ==
    /\ pc[r] = "listRows"
    /\ \E ok \in BOOLEAN :
         /\ Call(ok)
         /\ IF ok THEN Plan(r, rows) ELSE Return(r) /\ UNCHANGED lasting
    /\ UNCHANGED <<kafkaVars, storeVars, used, queueVars, reported, missed, cut>>

\* The object of a is taken care of: on to the next, or to the rows.
NextObject(r, a) ==
    /\ req' = [req EXCEPT ![r].todo = @ \ {a}]
    /\ Goto(r, IF req[r].todo \ {a} = {} THEN "deleteRow" ELSE "deleteObject")

\* (mutant) the request for a retry does not name the object that failed.
MutDeleteObject(r) ==
    /\ pc[r] = "deleteObject"
    /\ \E a \in req[r].todo, ok \in BOOLEAN :
         /\ Call(ok)
         /\ blobs' \in Outcome(ok, blobs, blobs \ {a})
         /\ IF ok THEN NextObject(r, a) ELSE Stay(r, "publish")
    /\ UNCHANGED <<kafkaVars, task, rows, used, queueVars, historyVars>>

\* deleteAttachmentObject: one object at a time.
DeleteObject(r) ==
    /\ pc[r] = "deleteObject"
    /\ \E a \in req[r].todo, ok \in BOOLEAN :
         /\ Call(ok)
         /\ blobs' \in Outcome(ok, blobs, blobs \ {a})
         /\ IF ok THEN NextObject(r, a)
                  ELSE /\ req' = [req EXCEPT ![r].att = a]
                       /\ Goto(r, "publish")
    /\ UNCHANGED <<kafkaVars, task, rows, used, queueVars, historyVars>>

\* (mutant) the request for a retry is only logged.
MutPublish(r) ==
    /\ pc[r] = "publish"
    /\ IF req[r].op = "upload" THEN Return(r) ELSE NextObject(r, req[r].att)
    /\ UNCHANGED <<kafkaVars, storeVars, used, queueVars, faults, historyVars>>

Subscribed == "subscriber" \in connected

\* publishAttachmentCleanupRequested: fanout.Publisher sends to Kafka and to
\* the local bus, where the event is dropped if the channel is full of other
\* task events.  A failure ends the request with an error, and so does the
\* panic of a publisher that is missing.
Publish(r) ==
    /\ pc[r] = "publish"
    /\ IF "publisher" \notin connected
       THEN Return(r) /\ UNCHANGED <<queueVars, faults>>
       ELSE \E ok \in BOOLEAN :
              /\ Call(ok)
              /\ topic' \in Outcome(ok, topic, topic \cup {req[r].att})
              /\ channel' \in IF Subscribed THEN {channel}
                              ELSE {channel, channel \cup {req[r].att}}
              /\ IF ok /\ req[r].op # "upload" THEN NextObject(r, req[r].att)
                                              ELSE Return(r)
    /\ UNCHANGED <<kafkaVars, storeVars, used, historyVars>>

\* (mutant) the row of the attachment is left to a later job.
MutDeleteRow(r) ==
    /\ pc[r] = "deleteRow"
    /\ Return(r)
    /\ UNCHANGED <<kafkaVars, storeVars, used, queueVars, faults, historyVars>>

\* (mutant) the DELETE names the task instead of the attachment.
DeleteAllRows(r) ==
    /\ pc[r] = "deleteRow"
    /\ \E ok \in BOOLEAN :
         /\ Call(ok)
         /\ rows' \in Outcome(ok, rows, {})
         /\ reported' = IF ok THEN reported \cup req[r].listed ELSE reported
         /\ task' = IF ok /\ req[r].op = "deleteTask" THEN "deleted" ELSE task
    /\ Return(r)
    /\ UNCHANGED <<kafkaVars, blobs, used, queueVars, missed, cut, lasting>>

\* DELETE FROM task_attachments, or FROM tasks, which cascades.
DeleteRow(r) ==
    /\ pc[r] = "deleteRow"
    /\ \E ok \in BOOLEAN :
         /\ Call(ok)
         /\ \E done \in Outcome(ok, FALSE, TRUE) :
              IF ~done THEN UNCHANGED <<task, rows>>
              ELSE IF req[r].op = "delete"
              THEN rows' = rows \ req[r].listed /\ UNCHANGED task
              ELSE rows' = {} /\ task' = "deleted"
         /\ reported' = IF ok THEN reported \cup req[r].listed ELSE reported
    /\ Return(r)
    /\ UNCHANGED <<kafkaVars, blobs, used, queueVars, missed, cut, lasting>>

-----------------------------------------------------------------------------
(* DeleteUser                                                                *)

\* DELETE FROM users, which cascades to the tasks of the account and to their
\* attachments: no row is listed and no object is looked at.  Whether the call
\* is answered makes no difference to what is modelled here.
DeleteUser ==
    /\ task = "stored"
    /\ task' = "deleted" /\ rows' = {}
    /\ missed' = missed \cup rows
    /\ lasting' = {}
    /\ UNCHANGED <<kafkaVars, blobs, used, queueVars, pc, req, faults, reported, cut>>

-----------------------------------------------------------------------------
(* The cleanup consumer, and crashes                                         *)

\* Subscribe starts a Consume loop per topic on one consumer group, which runs
\* one session at a time: the other loop waits for a rebalance to end it.
Rebalance ==
    /\ Subscribed
    /\ session' \in Topics \ {session}
    /\ UNCHANGED <<connected, storeVars, used, queueVars, pc, req, faults, historyVars>>

\* ConsumeClaim hands the request to the channel and marks its offset, which
\* is committed now or, if the group rebalances or crashes first, not yet.
Deliver(a) ==
    /\ Subscribed /\ session = "tasks" /\ a \in topic
    /\ channel' = channel \cup {a}
    /\ topic' \in {topic, topic \ {a}}
    /\ UNCHANGED <<kafkaVars, storeVars, used, pc, req, faults, historyVars>>

\* The handler deletes once; a failure is logged and the request is gone.
Handle(a) ==
    /\ a \in channel
    /\ channel' = channel \ {a}
    /\ \E ok \in BOOLEAN :
         Call(ok) /\ blobs' \in Outcome(ok, blobs, blobs \ {a})
    /\ UNCHANGED <<kafkaVars, task, rows, used, topic, pc, req, historyVars>>

\* The upload still holds the object of a.
Uploading(a) == \E r \in Requests :
    /\ req[r].op = "upload" /\ req[r].att = a
    /\ pc[r] \in {"headObject", "saveRow", "rollback", "publish"}

\* The process dies and restarts.
Crash ==
    /\ Call(FALSE)
    /\ connected' \in SUBSET Clients /\ session' \in Sessions(connected')
    /\ pc' = [r \in Requests |-> "idle"]
    /\ req' = [r \in Requests |-> NoRequest]
    /\ channel' = {}
    /\ cut' = cut \cup {a \in Attachments : Uploading(a)}
    /\ UNCHANGED <<storeVars, used, topic, reported, missed, lasting>>

-----------------------------------------------------------------------------
Step(r) ==
    \/ \E a \in Attachments : BeginUpload(r, a) \/ BeginDelete(r, a)
    \/ BeginDeleteTask(r)
    \/ CheckTask(r) \/ PutObject(r) \/ HeadObject(r) \/ SaveRow(r) \/ Rollback(r)
    \/ FindRow(r) \/ ExistsTask(r) \/ ListRows(r)
    \/ DeleteObject(r) \/ Publish(r) \/ DeleteRow(r)

Consume == \E a \in Attachments : Deliver(a) \/ Handle(a)

Next == (\E r \in Requests : Step(r)) \/ DeleteUser \/ Consume \/ Rebalance \/ Crash

\* The consumer's goroutines run for as long as the process does, and sessions
\* about the task topic, if there are any, last long enough to deliver.
Fairness == \A a \in Attachments : SF_vars(Deliver(a)) /\ WF_vars(Handle(a))

Spec == Init /\ [][Next]_vars /\ Fairness

-----------------------------------------------------------------------------
(* Properties                                                               *)

\* When nothing failed, or one call did and both Kafka clients are there, an
\* object without a row belongs to an upload that is still running, or has a
\* cleanup request, or is one of three known orphans: its row was saved after
\* DeleteTask had listed the rows, or went with the account of the creator, or
\* its upload failed within FileStorage.Upload or died with the process.  A
\* refused row takes the object with it, and an object that could not be deleted
\* is asked for again.
AtMostOneFailure == faults = 0 \/ (connected = Clients /\ faults = 1)
ObjectsAccounted ==
    AtMostOneFailure => \A a \in blobs \ rows :
      Uploading(a) \/ a \in topic \cup channel \/ a \in missed \cup cut

\* When nothing failed, a row whose object is gone is about to be deleted, so
\* a download outside a deletion always finds its object.
RowsBacked ==
    faults = 0 => \A a \in rows \ blobs :
      \E r \in Requests : a \in req[r].listed

\* With the Kafka consumer, a deletion that was reported as done removed the
\* object or left a request for it behind; two failures are needed to lose it.
DeletionsKept ==
    Subscribed /\ faults <= 1 =>
      \A a \in reported \cap blobs : a \in topic \cup channel

\* "Kafka-backed background consumers are also started for task-event retries
\* such as attachment cleanup" (docs/architecture.md): after a single failure
\* the retry removes the object.  No object comes back, so if there are again
\* and again none left of the deletions reported, each is removed in the end.
RetriesHappen == []<>(Subscribed /\ faults <= 1 => reported \cap blobs = {})

\* ... which holds as long as the group keeps coming back to the task topic.
DeletionsComplete == []<>(session = "tasks") => RetriesHappen

\* However many calls fail and processes die, an upload that was answered lasts
\* until a deletion has listed it or the account of the task's creator is
\* deleted: no rollback, retry of a cleanup or deletion of another attachment
\* takes its row or its object, unless its row was saved behind the back of
\* DeleteTask.
UploadsLast == lasting \subseteq rows \cap blobs

\* "failed blob deletions publish retry events for background cleanup"
\* (docs/status.md:49): without failures and with one request at a time, no
\* object is left behind.  It is, by the deletion of the account.
NothingLeftBehind ==
    faults = 0 => \A a \in blobs \ rows : \E r \in Requests :
      Uploading(a) \/ a \in req[r].listed

-----------------------------------------------------------------------------
(* Refinement: each object and each row is made at most once and stays gone   *)

\* The steps of an upload before its object and its row are made.
Uncalled == {"checkTask", "putObject"}
Unsaved == {"checkTask", "putObject", "headObject", "saveRow"}

\* Not yet made, and an upload may still come to that.
Coming(a, steps) ==
    a \notin used \/ \E r \in Requests : pc[r] \in steps /\ req[r].att = a

State(a, present, steps) ==
    IF a \in present THEN "stored" ELSE IF Coming(a, steps) THEN "none" ELSE "gone"

object == [a \in Attachments |-> State(a, blobs, Uncalled)]
row == [a \in Attachments |-> State(a, rows, Unsaved)]

Lifecycle == INSTANCE AttachmentLifecycle

\* No late call, retry or restart makes again what was deleted or given up, and
\* no row is made without its object.
NothingComesBack == Lifecycle!Spec

-----------------------------------------------------------------------------
(* The inductive strengthening the proofs use                                *)

Deletions == {"delete", "deleteTask"}

\* What the control state of a request says about its local variables.
RequestOK(r) ==
    /\ pc[r] \in UploadSteps => req[r].op = "upload" /\ req[r].listed = {}
    /\ pc[r] \in {"idle", "findRow", "existsTask", "listRows"} => req[r].listed = {}
    /\ pc[r] \in DeleteSteps => req[r].op \in Deletions
    /\ pc[r] = "findRow" => req[r].op = "delete"
    /\ pc[r] = "publish" =>
         /\ faults >= 1
         /\ \/ req[r].op = "upload" /\ req[r].listed = {}
            \/ req[r].op \in Deletions /\ req[r].att \in req[r].listed
    /\ pc[r] = "deleteRow" => req[r].todo = {}
    /\ req[r].todo \subseteq req[r].listed

RequestInv == \A r \in Requests : RequestOK(r)

\* Attachments are only known after their upload was started.
Holding == UploadSteps \cup {"publish"}

UsedInv ==
    /\ rows \cup reported \cup topic \cup channel \subseteq used
    /\ \A r \in Requests : /\ req[r].listed \subseteq used
                           /\ pc[r] \in Holding => req[r].att \in used

\* Until its row is saved, nobody but the upload knows an attachment.
FreshInv ==
    \A r \in Requests : pc[r] \in Unsaved =>
      /\ req[r].att \notin rows \cup reported \cup topic \cup channel
      /\ \A s \in Requests : r # s =>
           /\ req[r].att \notin req[s].listed
           /\ pc[s] \in Holding => req[r].att # req[s].att

\* Messages stem from a failure, and every object a deletion has dealt with is
\* gone or has a message.
KeptInv ==
    /\ faults = 0 => topic = {} /\ channel = {}
    /\ faults = 0 \/ (Subscribed /\ faults = 1) =>
         /\ reported \cap blobs \subseteq topic \cup channel
         /\ \A r \in Requests :
              (req[r].listed \ req[r].todo) \cap blobs \subseteq topic \cup channel

\* While DeleteTask works on its list, the rows are on it or were missed.
ListInv ==
    \A r \in Requests : Listed(r) => rows \subseteq req[r].listed \cup missed

\* Without failures an upload knows where its object and its row are.
UploadInv ==
    faults = 0 => \A r \in Requests :
      /\ pc[r] \in {"headObject", "saveRow"} => req[r].att \in blobs
      /\ pc[r] = "rollback" => req[r].att \notin rows

\* Nobody who removes a row or an object is about to remove those of an upload
\* that was answered.
LastInv ==
    /\ UploadsLast
    /\ blobs \cup missed \subseteq used
    /\ lasting \cap (topic \cup channel \cup missed) = {}
    /\ \A r \in Requests :
         /\ lasting \cap req[r].listed = {}
         /\ pc[r] \in Holding => req[r].att \notin lasting
         /\ pc[r] \in Unsaved => req[r].att \notin missed
         /\ pc[r] \in Unsaved => (req[r].att \in blobs <=> pc[r] \notin Uncalled)

IInv == /\ TypeOK /\ RequestInv /\ UsedInv /\ FreshInv /\ KeptInv /\ ListInv
        /\ UploadInv /\ ObjectsAccounted /\ RowsBacked /\ LastInv
=============================================================================
