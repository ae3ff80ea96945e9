--------------------------- MODULE DeliveryStates ---------------------------
(***************************************************************************)
(* What the outbox promises about an event, without runs, batches and      *)
(* counters: it is posted only once it is there, it is SENT only if the    *)
(* receiver has it, FAILED only after as many failures as are allowed, and *)
(* a settled event is never open again.                                    *)
(*                                                                         *)
(* A settled event may still be posted, accepted and settled the other     *)
(* way: a run that is late knows nothing of what another run did (README,  *)
(* section 6), so this is the strongest promise the implementation keeps.  *)
(***************************************************************************)
EXTENDS Naturals

CONSTANTS Events, MaxAttempts

VARIABLES state,      \* [Events -> States]
          accepted,   \* events the receiver has accepted
          failures    \* failed attempts per event, counted up to MaxAttempts

States == {"absent", "PENDING", "SENT", "FAILED"}

Init == /\ state = [e \in Events |-> "absent"]
        /\ accepted = {}
        /\ failures = [e \in Events |-> 0]

Open(e) == /\ state[e] = "absent"
           /\ state' = [state EXCEPT ![e] = "PENDING"]
           /\ UNCHANGED <<accepted, failures>>

\* One attempt: the receiver gets it or not, and it counts as a failure or
\* not; only an attempt that reached the receiver can do without the count.
Attempt(e) == /\ state[e] # "absent"
              /\ accepted' \in {accepted, accepted \cup {e}}
              /\ \/ e \in accepted' /\ UNCHANGED failures
                 \/ failures[e] < MaxAttempts /\ failures' = [failures EXCEPT ![e] = @ + 1]
                 \/ failures[e] = MaxAttempts /\ UNCHANGED failures
              /\ UNCHANGED state

Settle(e) == /\ state[e] # "absent"
             /\ \/ e \in accepted /\ state' = [state EXCEPT ![e] = "SENT"]
                \/ failures[e] = MaxAttempts /\ state' = [state EXCEPT ![e] = "FAILED"]
             /\ UNCHANGED <<accepted, failures>>

Next == \E e \in Events : Open(e) \/ Attempt(e) \/ Settle(e)

Spec == Init /\ [][Next]_<<state, accepted, failures>>
=============================================================================
