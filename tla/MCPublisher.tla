---------------------------- MODULE MCPublisher ----------------------------
(* Small instances of Publisher for TLC. *)
EXTENDS Publisher, TLC

\* Database contents are interchangeable.
MCContentSymmetry == Permutations(Contents)
=============================================================================
