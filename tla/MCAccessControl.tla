-------------------------- MODULE MCAccessControl --------------------------
EXTENDS AccessControl, TLC

CONSTANTS o1, o2

\* Tokens without roles, with one, and with two.
MCRoleLists == {<<>>, <<o1>>, <<o1, o2>>}
MCNames == {{}, {"member"}, {"manager"}, {"viewer"}, {"member", "viewer"}}

\* What the seeded roles put into a token: the names of single resources.
MCClaimed == {{}, {Perm("task", "create")}}

Symmetry == Permutations(Ids)
=============================================================================
