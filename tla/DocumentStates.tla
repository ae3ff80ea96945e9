--------------------------- MODULE DocumentStates ---------------------------
(***************************************************************************)
(* What the document store promises about a document, without calls, jobs, *)
(* batches and configuration: its row comes once, with content that is in  *)
(* the row or stored already, the row gives its bytes up only to the       *)
(* bucket or to an erasure, only documents that are due are purged, and an *)
(* object goes only after an erasure of its document has set out.          *)
(*                                                                         *)
(* Store is open to erased documents: the backfill may bring the object of *)
(* one back (README, section 6), so this is the strongest promise the      *)
(* implementation keeps.                                                   *)
(***************************************************************************)
CONSTANT Docs

VARIABLES state,      \* [Docs -> States]
          held,       \* documents whose row has the bytes
          stored,     \* documents whose object is in the bucket
          due,        \* documents whose purgeAt has passed
          condemned   \* documents whose object an erasure set out to delete

vars == <<state, held, stored, due, condemned>>

States == {"absent", "active", "replaced", "removed", "purged"}

Init == /\ state = [d \in Docs |-> "absent"]
        /\ held = {} /\ stored = {} /\ due = {} /\ condemned = {}

Store(d) == /\ stored' = stored \cup {d}
            /\ UNCHANGED <<state, held, due, condemned>>

Create(d) == /\ state[d] = "absent"
             /\ state' = [state EXCEPT ![d] = "active"]
             /\ \/ held' = held \cup {d}
                \/ d \in stored /\ UNCHANGED held
             /\ UNCHANGED <<stored, due, condemned>>

\* All at once: what is active when the next document comes.
Replace == /\ state' = [d \in Docs |-> IF state[d] = "active" THEN "replaced" ELSE state[d]]
           /\ UNCHANGED <<held, stored, due, condemned>>

MoveOut(d) == /\ d \in stored \cup condemned
              /\ held' = held \ {d}
              /\ UNCHANGED <<state, stored, due, condemned>>

Discard(d) == /\ state[d] # "absent"
              /\ condemned' = condemned \cup {d}
              /\ stored' \in {stored, stored \ {d}}
              /\ UNCHANGED <<state, held, due>>

Erase(d, as) == /\ state[d] # "absent"
                /\ state' = [state EXCEPT ![d] = as]
                /\ held' = held \ {d}
                /\ UNCHANGED <<stored, due, condemned>>

Remove(d) == Erase(d, "removed")
Purge(d) == d \in due /\ Erase(d, "purged")

Age(d) == /\ state[d] # "absent"
          /\ due' = due \cup {d}
          /\ UNCHANGED <<state, held, stored, condemned>>

Next == \/ Replace
        \/ \E d \in Docs : \/ Store(d) \/ Create(d) \/ MoveOut(d)
                           \/ Discard(d) \/ Remove(d) \/ Purge(d) \/ Age(d)

Spec == Init /\ [][Next]_vars
=============================================================================
