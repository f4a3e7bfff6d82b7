------------------------- MODULE AttachmentLifecycle -------------------------
(***************************************************************************)
(* What the two stores promise about attachments, whatever fails: an       *)
(* object and a row are made once, the row for an object that is there,    *)
(* and what is gone never comes back.  An attachment whose upload was      *)
(* answered keeps both until a deletion has named it, or all rows go at    *)
(* once with the account they belong to.                                   *)
(***************************************************************************)
CONSTANT Attachments

VARIABLES
    object, row,  \* what has become of each attachment's object and row
    lasting       \* the attachments whose upload was answered, without those
                  \* a deletion was asked for or that lost their account

States == {"none", "stored", "gone"}

Init ==
    /\ object = [a \in Attachments |-> "none"]
    /\ row = [a \in Attachments |-> "none"]
    /\ lasting = {}

\* The object is made, by an upload that may end with that.
Put(a) ==
    /\ object[a] = "none"
    /\ object' = [object EXCEPT ![a] = "stored"]
    /\ row' \in {row, [row EXCEPT ![a] = "gone"]}
    /\ UNCHANGED lasting

\* The row is made; the upload may be answered.
Save(a) ==
    /\ object[a] = "stored" /\ row[a] = "none"
    /\ row' = [row EXCEPT ![a] = "stored"]
    /\ lasting' \in {lasting, lasting \cup {a}}
    /\ UNCHANGED object

\* A deletion names attachments.
Condemn ==
    /\ lasting' \subseteq lasting
    /\ UNCHANGED <<object, row>>

Loses(before, after) ==
    /\ after \in [Attachments -> States]
    /\ \A a \in Attachments :
         after[a] # before[a] => a \notin lasting /\ after[a] = "gone"

\* Objects and rows are removed, or their uploads end before making them.
Drop ==
    /\ Loses(object, object')
    /\ Loses(row, row')
    /\ UNCHANGED lasting

\* The account goes, and with it every row and no object.
Disown ==
    /\ row' = [a \in Attachments |-> IF row[a] = "stored" THEN "gone" ELSE row[a]]
    /\ lasting' = {}
    /\ UNCHANGED object

Next == Condemn \/ Drop \/ Disown \/ \E a \in Attachments : Put(a) \/ Save(a)

Spec == Init /\ [][Next]_<<object, row, lasting>>
=============================================================================
