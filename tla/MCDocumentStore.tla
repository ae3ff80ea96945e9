-------------------------- MODULE MCDocumentStore --------------------------
(* Constants for TLC. *)
EXTENDS DocumentStore, TLC

CONSTANTS c1, c2

CallSymmetry == Permutations(Calls)
=============================================================================
