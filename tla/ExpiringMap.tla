---------------------------- MODULE ExpiringMap ----------------------------
(***************************************************************************)
(* A map with deadlines, without clocks: a value is live, then due for the *)
(* instant of its deadline, then lapsed, and at some time forgotten.       *)
(* Reads show a value until it lapses; what asks whether a key is taken    *)
(* finds it free when it is due.  If Revives, extensions and additions     *)
(* work on a lapsed value that is not forgotten yet and bring it back;     *)
(* otherwise a lapsed value is as good as forgotten.                       *)
(***************************************************************************)
EXTENDS Integers

CONSTANTS Keys, Text, By, Half, Yes, No, None,
          Revives  \* TRUE if a lapsed value counts until it is forgotten

Numbers == (-Half)..(Half - 1)
Values == Numbers \cup {Text}

VARIABLES
    phase,   \* "absent", "live", "due", "lapsed"
    value,   \* None when absent
    reply    \* the answer of the last call, for each key it was about

mapVars == <<phase, value, reply>>

MapInit ==
    /\ phase = [k \in Keys |-> "absent"] /\ value = [k \in Keys |-> None]
    /\ reply = None

Shown(k) == IF phase[k] \in {"live", "due"} THEN value[k] ELSE None
Taken(k) == IF phase[k] = "live" THEN value[k] ELSE None

Stay == UNCHANGED <<phase, value>>
Becomes(ks, step, vs) ==
    /\ phase' = [k \in Keys |-> IF k \in ks THEN step ELSE phase[k]]
    /\ value' = [k \in Keys |-> IF k \in ks THEN vs[k] ELSE value[k]]

Read(k) == Stay /\ reply' = [j \in {k} |-> Shown(k)]
ReadMany(ks) == Stay /\ reply' = [k \in ks |-> Taken(k)]
Put(ks, v) == Becomes(ks, "live", [k \in ks |-> v]) /\ reply' = None
PutIfFree(k, v) ==
    \/ Taken(k) = None /\ Becomes({k}, "live", [j \in {k} |-> v]) /\ reply' = [j \in {k} |-> Yes]
    \/ Taken(k) # None /\ Stay /\ reply' = [j \in {k} |-> No]

\* The value is there for those who change it.
Present(k) == phase[k] \in {"live", "due"} \/ (Revives /\ phase[k] = "lapsed")

Extend(k) ==
    /\ IF Present(k) THEN Becomes({k}, "live", value) ELSE Stay
    /\ reply' = None

\* A number is added to the number that is there; counters go round.
Add(k, by) ==
    LET n == IF Present(k) /\ value[k] # Text THEN value[k] ELSE 0
        sum == CHOOSE m \in Numbers : (n + by - m) % (2 * Half) = 0 IN
    Becomes({k}, "live", [j \in {k} |-> sum]) /\ reply' = [j \in {k} |-> sum]
Remove(ks) == Becomes(ks, "absent", [k \in ks |-> None]) /\ reply' = None

\* Time passes, or the cleaner does.
Order == [absent |-> {"absent"}, live |-> {"live", "due"}, due |-> {"lapsed"},
          lapsed |-> {"lapsed", "absent"}]
Age ==
    /\ \A k \in Keys :
          /\ phase'[k] \in Order[phase[k]] \cup {phase[k]}
          /\ value'[k] = IF phase'[k] = "absent" THEN None ELSE value[k]
    /\ DOMAIN phase' = Keys /\ DOMAIN value' = Keys
    /\ UNCHANGED reply

MapNext ==
    \/ \E k \in Keys : Read(k) \/ Extend(k) \/ \E by \in By : Add(k, by)
    \/ \E k \in Keys, v \in Values : PutIfFree(k, v)
    \/ \E ks \in SUBSET Keys : ReadMany(ks) \/ Remove(ks) \/ \E v \in Values : Put(ks, v)
    \/ Age

MapSpec == MapInit /\ [][MapNext]_mapVars
=============================================================================
