--------------------------- MODULE RequestStates ---------------------------
(***************************************************************************)
(* What the request API promises about the rows of the Request table,      *)
(* without calls, audit rows or events: every row is in one state, moves   *)
(* only along the transitions below, and gets its claimant in the step of  *)
(* the claim and never afterwards.                                         *)
(*                                                                         *)
(* Withdraw is not limited to PENDING requests: cancelRequest writes       *)
(* CANCELLED without repeating its status check (README, findings), so     *)
(* this is the strongest promise the implementation keeps.                 *)
(***************************************************************************)
CONSTANTS Requests, Users, None

VARIABLES state,      \* [Requests -> States]
          claimant    \* [Requests -> Users \cup {None}]

States == {"absent", "PENDING", "IN_PROGRESS", "COMPLETED", "REJECTED", "CANCELLED"}

Init == /\ state = [r \in Requests |-> "absent"]
        /\ claimant = [r \in Requests |-> None]

Move(r, from, to) == /\ state[r] = from
                     /\ state' = [state EXCEPT ![r] = to]

Open(r) == Move(r, "absent", "PENDING") /\ UNCHANGED claimant

Claim(r, u) == /\ claimant[r] = None
               /\ Move(r, "PENDING", "IN_PROGRESS")
               /\ claimant' = [claimant EXCEPT ![r] = u]

Start(r) == Move(r, "PENDING", "IN_PROGRESS") /\ UNCHANGED claimant

Complete(r) == Move(r, "IN_PROGRESS", "COMPLETED") /\ UNCHANGED claimant

Reject(r) == /\ \E from \in {"PENDING", "IN_PROGRESS"} : Move(r, from, "REJECTED")
             /\ UNCHANGED claimant

Withdraw(r) == /\ state[r] # "absent"
               /\ state' = [state EXCEPT ![r] = "CANCELLED"]
               /\ UNCHANGED claimant

Next == \E r \in Requests : \/ Open(r)
                            \/ \E u \in Users : Claim(r, u)
                            \/ Start(r)
                            \/ Complete(r)
                            \/ Reject(r)
                            \/ Withdraw(r)

Spec == Init /\ [][Next]_<<state, claimant>>
=============================================================================
