---------------------------- MODULE MCAttachments ----------------------------
(* The instance of Attachments for TLC: no symmetry, because a liveness      *)
(* property is checked.                                                      *)
EXTENDS Attachments, TLC
=============================================================================
