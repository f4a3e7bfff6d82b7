----------------------------- MODULE MCSeeding -----------------------------
EXTENDS Seeding, TLC

CONSTANTS admin, member, p1, p2

\* The administrator has every permission, a member one of them.
MCOrder == <<admin, member>>
MCDesired == (admin :> {p1, p2}) @@ (member :> {p1})
=============================================================================
