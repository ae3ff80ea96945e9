------------------------- MODULE NotificationOutbox -------------------------
(***************************************************************************)
(* The delivery of outbox rows: NotificationsService.deliverPendingEvents  *)
(* in src/src/notifications/notifications.service.ts, run by a cron every  *)
(* minute.  A run posts up to BatchSize rows one after the other, each     *)
(* with a timeout of ten seconds, so runs overlap, in one process and      *)
(* between processes; a run is a slot of Ticks here.  Every await (the     *)
(* query, the post, each update) ends an action.                           *)
(***************************************************************************)
EXTENDS Naturals, FiniteSets

CONSTANTS MaxEvents,    \* bound on the rows written to the outbox
          MaxAttempts,  \* MAX_ATTEMPTS
          BatchSize,    \* the take of the query
          Ticks,        \* runs of the cron job that may overlap
          MaxRestarts   \* bound on the process restarts

ASSUME OutboxAssumption ==
    /\ MaxEvents \in Nat
    /\ MaxAttempts \in Nat \ {0}
    /\ BatchSize \in Nat \ {0}
    /\ MaxRestarts \in Nat

VARIABLES row,          \* the NotificationEvent rows, numbered by createdAt
          tick,         \* the runs of deliverPendingEvents
          webhook,      \* NOTIFY_WEBHOOK_URL is set, as the process started
          restarts,     \* number of restarts
          received,     \* rows whose post the receiver has accepted
          tries         \* posts of a row that failed, counted up to MaxAttempts

vars == <<row, tick, webhook, restarts, received, tries>>

Events == 1..MaxEvents

EventStatus == {"absent", "PENDING", "SENT", "FAILED"}
Row == [status : EventStatus, attempts : 0..MaxAttempts]

\* left: the rows of the batch not done yet; read: the attempts the query
\* returned for them.
Tick == [pc : {"idle", "post", "markSent", "countFailure"},
         left : SUBSET Events, read : [Events -> 0..MaxAttempts]]
NoTick == [pc |-> "idle", left |-> {}, read |-> [e \in Events |-> 0]]

TypeOK == /\ row \in [Events -> Row]
          /\ tick \in [Ticks -> Tick]
          /\ webhook \in BOOLEAN
          /\ restarts \in 0..MaxRestarts
          /\ received \subseteq Events
          /\ tries \in [Events -> 0..MaxAttempts]

Init == /\ row = [e \in Events |-> [status |-> "absent", attempts |-> 0]]
        /\ tick = [t \in Ticks |-> NoTick]
        /\ webhook \in BOOLEAN
        /\ restarts = 0
        /\ received = {}
        /\ tries = [e \in Events |-> 0]

----------------------------------------------------------------------------

\* A new key: emit's upsert, or the create at the end of a claim.
Emit(e) ==
    /\ row[e].status = "absent"
    /\ \A d \in Events : d < e => row[d].status # "absent"
    /\ row' = [row EXCEPT ![e].status = "PENDING"]
    /\ UNCHANGED <<tick, webhook, restarts, received, tries>>

Due == {e \in Events : row[e].status = "PENDING" /\ row[e].attempts < MaxAttempts}

Oldest(S) == {e \in S : Cardinality({d \in S : d < e}) < BatchSize}

\* The query.  With no row due or no webhook the run ends here.
StartTick(t) ==
    /\ tick[t].pc = "idle"
    /\ Due # {}
    /\ webhook
    /\ tick' = [tick EXCEPT ![t] =
           [pc |-> "post", left |-> Oldest(Due), read |-> [e \in Events |-> row[e].attempts]]]
    /\ UNCHANGED <<row, webhook, restarts, received, tries>>

\* The row the loop is at.
Current(t, e) == e \in tick[t].left /\ \A d \in tick[t].left : e <= d

\* The loop goes to the next row, or the run ends.
Advance(t, e) ==
    tick' = [tick EXCEPT ![t] =
        IF tick[t].left = {e} THEN NoTick
        ELSE [tick[t] EXCEPT !.pc = "post", !.left = tick[t].left \ {e}]]

At(t, pc) == tick' = [tick EXCEPT ![t].pc = pc]

OnError(t) == At(t, "countFailure")

Failed(e) == tries' = [tries EXCEPT ![e] = IF @ < MaxAttempts THEN @ + 1 ELSE @]

\* The receiver accepts the post and its 2xx answer arrives in time.
PostAccepted(t, e) ==
    /\ tick[t].pc = "post"
    /\ Current(t, e)
    /\ received' = received \cup {e}
    /\ At(t, "markSent")
    /\ UNCHANGED <<row, webhook, restarts, tries>>

\* An error status, no connection, or an answer lost or too late: in the
\* last case the receiver has the event.
PostFailed(t, e) ==
    /\ tick[t].pc = "post"
    /\ Current(t, e)
    /\ received' \in {received, received \cup {e}}
    /\ Failed(e)
    /\ OnError(t)
    /\ UNCHANGED <<row, webhook, restarts>>

MarkSent(t, e) ==
    /\ tick[t].pc = "markSent"
    /\ Current(t, e)
    /\ row' = [row EXCEPT ![e].status = "SENT"]
    /\ Advance(t, e)
    /\ UNCHANGED <<webhook, restarts, received, tries>>

\* The update to SENT throws inside the same try: the catch counts a failure.
MarkSentThrows(t, e) ==
    /\ tick[t].pc = "markSent"
    /\ Current(t, e)
    /\ Failed(e)
    /\ OnError(t)
    /\ UNCHANGED <<row, webhook, restarts, received>>

\* Mutants: the counter is advanced from its present value, or never.
NextAttemptsFresh(t, e) == row[e].attempts + 1
NextAttemptsStuck(t, e) == tick[t].read[e]

\* Computed from the row as the query returned it.
NextAttempts(t, e) == tick[t].read[e] + 1

\* Mutant: the status is always written.
StatusAfterReset(e, n) == IF n >= MaxAttempts THEN "FAILED" ELSE "PENDING"

StatusAfter(e, n) == IF n >= MaxAttempts THEN "FAILED" ELSE row[e].status

\* The update selects by id: it writes over what other runs did to the row.
CountFailure(t, e) ==
    LET n == NextAttempts(t, e) IN
    /\ tick[t].pc = "countFailure"
    /\ Current(t, e)
    /\ row' = [row EXCEPT ![e] = [status |-> StatusAfter(e, n), attempts |-> n]]
    /\ Advance(t, e)
    /\ UNCHANGED <<webhook, restarts, received, tries>>

\* The update in the catch throws: the whole run ends.
CountFailureThrows(t) ==
    /\ tick[t].pc = "countFailure"
    /\ tick' = [tick EXCEPT ![t] = NoTick]
    /\ UNCHANGED <<row, webhook, restarts, received, tries>>

\* The process ends and starts again, perhaps with another configuration.
Restart ==
    /\ restarts < MaxRestarts
    /\ restarts' = restarts + 1
    /\ tick' = [t \in Ticks |-> NoTick]
    /\ webhook' \in BOOLEAN
    /\ UNCHANGED <<row, received, tries>>

----------------------------------------------------------------------------

Step(t) == \E e \in Events : \/ PostAccepted(t, e)
                             \/ PostFailed(t, e)
                             \/ MarkSent(t, e)
                             \/ CountFailure(t, e)

Throw(t) == (\E e \in Events : MarkSentThrows(t, e)) \/ CountFailureThrows(t)

Next == \/ \E e \in Events : Emit(e)
        \/ \E t \in Ticks : StartTick(t) \/ Step(t) \/ Throw(t)
        \/ Restart

Spec == Init /\ [][Next]_vars

\* The cron keeps firing, the event loop resumes every run, a post ends after ten
\* seconds at the latest; an update does not throw for ever.
FairSpec ==
    /\ Spec
    /\ \A t \in Ticks :
          /\ WF_vars(StartTick(t)) /\ WF_vars(Step(t))
          /\ SF_vars(\E e \in Events : MarkSent(t, e))
          /\ SF_vars(\E e \in Events : CountFailure(t, e))

----------------------------------------------------------------------------
(* Properties *)

\* A row is marked SENT only if the receiver accepted its post, whatever runs
\* overlap and wherever the process stops.
SentWasReceived == \A e \in Events : row[e].status = "SENT" => e \in received

\* No row is given up before MaxAttempts posts of it failed: stale counters
\* may lose failures but never invent them.
GivenUpAfterAllTries ==
    \A e \in Events : /\ row[e].attempts <= tries[e]
                      /\ row[e].status = "FAILED" => tries[e] = MaxAttempts

\* A row that the next query would skip is decided: no PENDING row has used
\* up its attempts, where nothing would ever pick it up again.
PendingIsDue ==
    \A e \in Events : row[e].status = "PENDING" => row[e].attempts < MaxAttempts

\* A settled row never becomes PENDING again.
SettledStep == \A e \in Events : row[e].status \in {"SENT", "FAILED"} =>
                   row'[e].status \in {"SENT", "FAILED"}
SettledStaysSettled == [][SettledStep]_vars

\* The rows behave as DeliveryStates allows, with all the runs, lost answers,
\* failing updates and restarts of deliverPendingEvents.
Delivery == INSTANCE DeliveryStates WITH
                state    <- [e \in Events |-> row[e].status],
                accepted <- received,
                failures <- tries
DeliverySpec == Delivery!Spec

\* With a webhook, every row is settled in the end, although overlapping runs
\* write over each other's counters and the receiver may be down throughout.
EveryEventIsSettled ==
    \A e \in Events :
        (row[e].status = "PENDING" /\ webhook)
            ~> (row[e].status \in {"SENT", "FAILED"} \/ ~webhook)
=============================================================================
