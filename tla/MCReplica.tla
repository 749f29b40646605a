----------------------------- MODULE MCReplica -----------------------------
(* Small instances of Replica for TLC. *)
EXTENDS Replica, TLC
=============================================================================
