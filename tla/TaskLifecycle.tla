---------------------------- MODULE TaskLifecycle ----------------------------
(***************************************************************************)
(* What the task store promises about the status and the assignee of one   *)
(* task.  The rules of entity.Task hold between the row a request read and *)
(* the row it writes back.  With Serial = TRUE a request always reads the  *)
(* row it overwrites; with Serial = FALSE it may write over a later row    *)
(* (a lost update), but only with something derived from an earlier one.   *)
(***************************************************************************)
CONSTANTS Serial, Users, None

VARIABLES
    life,   \* whether the task exists
    card,   \* its status and assignee
    past    \* every card the task has had

Statuses == {"TODO", "IN_PROGRESS", "IN_REVIEW", "DONE", "ARCHIVED"}
Cards == [status : Statuses, assignee : Users \cup {None}]

Init ==
    /\ life \in {"absent", "stored"}
    /\ card \in Cards
    /\ past = IF life = "stored" THEN {card} ELSE {}

\* The cards one update can make of the card it read: DONE only moves on to
\* ARCHIVED, ARCHIVED is final, and archived tasks get no new assignee.
Legal(base) ==
    {new \in Cards :
       /\ base.status = "ARCHIVED" =>
            new.status = "ARCHIVED" /\ new.assignee \in {base.assignee, None}
       /\ base.status = "DONE" => new.status \in {"DONE", "ARCHIVED"}
       /\ new.status # base.status /\ new.status = "ARCHIVED" =>
            new.assignee = base.assignee}

Become(new) == card' = new /\ past' = past \cup {new}

\* New tasks start as TODO.
Create ==
    /\ life = "absent"
    /\ life' = "stored"
    /\ \E new \in Cards : new.status = "TODO" /\ Become(new)

Write ==
    /\ life = "stored"
    /\ \E base \in IF Serial THEN {card} ELSE past :
         \E new \in Legal(base) : Become(new)
    /\ UNCHANGED life

\* Deleting the assignee's account clears the field.
Clear ==
    /\ life = "stored"
    /\ Become([card EXCEPT !.assignee = None])
    /\ UNCHANGED life

\* A deleted task never comes back.
Remove ==
    /\ life = "stored"
    /\ life' = "deleted"
    /\ UNCHANGED <<card, past>>

Next == Create \/ Write \/ Clear \/ Remove

Spec == Init /\ [][Next]_<<life, card, past>>
=============================================================================
