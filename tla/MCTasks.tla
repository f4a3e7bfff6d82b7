------------------------------- MODULE MCTasks -------------------------------
(* Instances of Tasks for TLC; requests are interchangeable. *)
EXTENDS Tasks, TLC

Symmetry == Permutations(Requests)

ConcurrentOps == {"update", "changeStatus", "complete", "assign", "delete", "create",
                  "get", "list"}
SerialOps == AllOps \cup Cascades
RaceOps == {"changeStatus", "complete"}
LabelOps == {"addLabel"}
CascadeOps == {"get", "deleteUser"}
ActiveTargets == {"IN_PROGRESS", "DONE", "ARCHIVED"}
=============================================================================
