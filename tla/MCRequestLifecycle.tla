------------------------ MODULE MCRequestLifecycle ------------------------
(* Constants for TLC: who may do what, and the symmetry of the instance. *)
EXTENDS RequestLifecycle, TLC

CONSTANTS ann, bob, c1, c2, c3, r1

\* Users are alike (each may be employee, member or both) when none is an
\* admin, and so are call slots.
UsersAndCalls == Permutations({ann, bob}) \cup Permutations(Calls)
=============================================================================
