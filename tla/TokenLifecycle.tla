--------------------------- MODULE TokenLifecycle ---------------------------
(***************************************************************************)
(* What the session store promises about every token (JTI): it is unissued *)
(* until its session key is written, then live, which is to say accepted,  *)
(* and once it is refused it stays so.  AuthSessions implements this       *)
(* specification.                                                          *)
(***************************************************************************)
CONSTANT Tokens

VARIABLE life

LifeStates == {"unissued", "live", "dead"}

TypeOK == life \in [Tokens -> LifeStates]

Init == life = [t \in Tokens |-> "unissued"]

\* A token becomes usable, once.
Issue(t) ==
    /\ life[t] = "unissued"
    /\ life' = [life EXCEPT ![t] = "live"]

\* A token is revoked, invalidated with others or expires, or its keys are
\* deleted before it was ever accepted; there is no way back.
Retire(t) ==
    /\ life[t] # "dead"
    /\ life' = [life EXCEPT ![t] = "dead"]

Next == \E t \in Tokens : Issue(t) \/ Retire(t)

Spec == Init /\ [][Next]_life
=============================================================================
