---------------------------- MODULE MCServiceDesk ----------------------------
(* Constants for TLC. *)
EXTENDS ServiceDesk, TLC

CONSTANTS ann, bob, a1, f1, f2

\* Users are alike as long as none is an admin, and so are the document calls.
UsersAndCalls == Permutations({ann, bob} \cap Users) \cup Permutations(Calls)
=============================================================================
