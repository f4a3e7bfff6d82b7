--------------------------- MODULE MCAuthSessions ---------------------------
(* Instances of AuthSessions for TLC; requests and pairs are interchangeable. *)
EXTENDS AuthSessions, TLC

Symmetry == Permutations(Requests) \cup Permutations(Pairs)

LogoutOps == {"login", "read", "logout", "refresh", "changePassword"}
FaultOps == {"login", "logout", "changePassword"}
SeqOps == AllOps \ {"logout"}
=============================================================================
