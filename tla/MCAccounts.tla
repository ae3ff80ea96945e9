------------------------------ MODULE MCAccounts ------------------------------
(* Constants for TLC: what invitations and updates may grant. *)
EXTENDS Accounts, TLC

CONSTANTS x1, x2, c1, c2

MCGrants == {[role |-> "EMPLOYEE", joins |-> TRUE], [role |-> "SYSTEM_ADMIN", joins |-> FALSE]}

AddressesAndCalls == Permutations(Emails) \cup Permutations(Admissions)
=============================================================================
