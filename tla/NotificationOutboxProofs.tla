---------------------- MODULE NotificationOutboxProofs ----------------------
(***************************************************************************)
(* What the delivery of outbox rows keeps for any number of rows, of       *)
(* overlapping runs and of restarts.                                       *)
(*                                                                         *)
(* A run works on what its query returned, so the induction is about what  *)
(* a run holds in its hands: the attempts it read for the rows of its      *)
(* batch are no more than the posts that failed (ReadIsPast), and the      *)
(* update it is about to make is backed by an answer it got (InHand).      *)
(***************************************************************************)
EXTENDS NotificationOutbox, TLAPS

\* The rows left in a batch were due, and their failures only grow.
ReadIsPast == \A t \in Ticks : \A e \in tick[t].left :
                  tick[t].read[e] < MaxAttempts /\ tick[t].read[e] <= tries[e]

\* A run marks a row SENT after the receiver accepted it, and counts a failure
\* after one that the counter it read does not include.
InHand == \A t \in Ticks, e \in Events : Current(t, e) =>
              /\ tick[t].pc = "markSent" => e \in received
              /\ tick[t].pc = "countFailure" => tick[t].read[e] < tries[e]

\* PendingIsDue, said of the rows yet to be written too.
OpenIsDue == \A e \in Events : row[e].status \in {"absent", "PENDING"} =>
                 row[e].attempts < MaxAttempts

Inv == /\ TypeOK
       /\ ReadIsPast
       /\ InHand
       /\ SentWasReceived
       /\ GivenUpAfterAllTries
       /\ OpenIsDue

----------------------------------------------------------------------------
(* What a step does to the runs *)

\* Another run, or this one with nothing new in its hands.
Keeps(t) == tick'[t].left = {} \/ /\ tick'[t].left \subseteq tick[t].left
                                  /\ tick'[t].read = tick[t].read

\* At moves the program counter of one run and nothing else.
LEMMA AtMoves ==
    ASSUME TypeOK, NEW t \in Ticks, NEW pc \in {"idle", "post", "markSent", "countFailure"},
           At(t, pc)
    PROVE  /\ tick' \in [Ticks -> Tick]
           /\ tick'[t] = [tick[t] EXCEPT !.pc = pc]
           /\ \A u \in Ticks \ {t} : tick'[u] = tick[u]
           /\ \A u \in Ticks : Keeps(u)
  BY DEF TypeOK, At, Tick, Keeps

\* Advance leaves a run with the rest of its batch, before a post or idle.
LEMMA AdvanceMoves ==
    ASSUME TypeOK, NEW t \in Ticks, NEW e \in Events, Advance(t, e)
    PROVE  /\ tick' \in [Ticks -> Tick]
           /\ tick'[t].pc \in {"idle", "post"}
           /\ \A u \in Ticks \ {t} : tick'[u] = tick[u]
           /\ \A u \in Ticks : Keeps(u)
  <1>1. NoTick \in Tick
    BY OutboxAssumption DEF NoTick, Tick
  <1>2. tick[t] \in Tick
    BY DEF TypeOK
  <1>3. CASE tick[t].left = {e}
    BY <1>1, <1>3 DEF TypeOK, Advance, NoTick, Keeps
  <1>4. CASE tick[t].left # {e}
    <2>1. tick'[t] = [tick[t] EXCEPT !.pc = "post", !.left = tick[t].left \ {e}]
      BY <1>4 DEF TypeOK, Advance
    <2>2. tick'[t] \in Tick
      BY <1>2, <2>1 DEF Tick
    <2>3. \A u \in Ticks \ {t} : tick'[u] = tick[u]
      BY DEF TypeOK, Advance
    <2>4. tick' \in [Ticks -> Tick]
      BY <1>4, <2>1, <2>2 DEF TypeOK, Advance
    <2>5. /\ tick'[t].pc = "post"
          /\ tick'[t].left = tick[t].left \ {e}
          /\ tick'[t].read = tick[t].read
      BY <1>2, <2>1 DEF Tick
    <2>6. QED
      BY <2>3, <2>4, <2>5 DEF Keeps
  <1>5. QED
    BY <1>3, <1>4

\* One more failed post is counted, up to MaxAttempts.
LEMMA FailedCounts ==
    ASSUME TypeOK, NEW e \in Events, Failed(e)
    PROVE  /\ tries' \in [Events -> 0..MaxAttempts]
           /\ \A d \in Events : tries[d] <= tries'[d]
           /\ \A n \in Nat : n < MaxAttempts /\ n <= tries[e] => n < tries'[e]
  BY OutboxAssumption DEF TypeOK, Failed

----------------------------------------------------------------------------
(* The batches *)

\* Runs that take nothing new into their hands keep ReadIsPast, as failures
\* only grow.
LEMMA KeptBatches ==
    ASSUME ReadIsPast, TypeOK, tries' \in [Events -> 0..MaxAttempts],
           \A d \in Events : tries[d] <= tries'[d],
           \A t \in Ticks : Keeps(t)
    PROVE  ReadIsPast'
  <1>1. SUFFICES ASSUME NEW t \in Ticks, NEW e \in tick'[t].left
                 PROVE  tick'[t].read[e] < MaxAttempts /\ tick'[t].read[e] <= tries'[e]
    BY DEF ReadIsPast
  <1>2. e \in tick[t].left /\ tick'[t].read = tick[t].read
    BY <1>1 DEF Keeps
  <1>3. e \in Events /\ tick[t].read[e] \in 0..MaxAttempts
    BY <1>2 DEF TypeOK, Tick
  <1>4. tick[t].read[e] < MaxAttempts /\ tick[t].read[e] <= tries[e]
    BY <1>2 DEF ReadIsPast
  <1>5. tries[e] \in 0..MaxAttempts /\ tries'[e] \in 0..MaxAttempts /\ tries[e] <= tries'[e]
    BY <1>3 DEF TypeOK
  <1>6. QED
    BY <1>2, <1>3, <1>4, <1>5, OutboxAssumption

\* A run that has nothing to write, or that is as it was, keeps InHand.
LEMMA KeptHands ==
    ASSUME TypeOK, InHand, tries' \in [Events -> 0..MaxAttempts],
           \A d \in Events : tries[d] <= tries'[d],
           received \subseteq received',
           NEW t \in Ticks, NEW e \in Events,
           tick'[t].pc \in {"idle", "post"} \/ tick'[t] = tick[t]
    PROVE  Current(t, e)' =>
              /\ tick'[t].pc = "markSent" => e \in received'
              /\ tick'[t].pc = "countFailure" => tick'[t].read[e] < tries'[e]
  <1>1. CASE tick'[t].pc \in {"idle", "post"}
    BY <1>1
  <1>2. CASE tick'[t] = tick[t]
    <2>1. Current(t, e)' => Current(t, e)
      BY <1>2 DEF Current
    <2>2. /\ tries[e] \in 0..MaxAttempts /\ tries'[e] \in 0..MaxAttempts
          /\ tries[e] <= tries'[e]
          /\ tick[t].read[e] \in 0..MaxAttempts
      BY DEF TypeOK, Tick
    <2>3. QED
      BY <1>2, <2>1, <2>2, OutboxAssumption DEF InHand
  <1>3. QED
    BY <1>1, <1>2

----------------------------------------------------------------------------
(* The steps *)

\* A run starts with rows that were due, of which it knows the attempts.
LEMMA StartStep ==
    ASSUME Inv, NEW t \in Ticks, StartTick(t)
    PROVE  Inv'
  <1> USE OutboxAssumption
  <1> DEFINE batch == [pc |-> "post", left |-> Oldest(Due),
                       read |-> [e \in Events |-> row[e].attempts]]
  <1>1. TypeOK /\ row \in [Events -> Row]
    BY DEF Inv, TypeOK
  <1>2. batch \in Tick
    <2>1. [e \in Events |-> row[e].attempts] \in [Events -> 0..MaxAttempts]
      BY <1>1 DEF Row
    <2>2. Oldest(Due) \in SUBSET Events
      BY DEF Oldest, Due
    <2>3. QED
      BY <2>1, <2>2 DEF Tick
  <1>3. tick' = [tick EXCEPT ![t] = batch]
    BY DEF StartTick
  <1>4. TypeOK'
    BY <1>1, <1>2, <1>3 DEF StartTick, TypeOK
  <1>5. ReadIsPast'
    <2>1. SUFFICES ASSUME NEW u \in Ticks, NEW e \in tick'[u].left
                   PROVE  tick'[u].read[e] < MaxAttempts /\ tick'[u].read[e] <= tries[e]
      BY DEF ReadIsPast, StartTick
    <2>2. CASE u # t
      BY <1>1, <1>3, <2>1, <2>2 DEF Inv, ReadIsPast, TypeOK
    <2>3. CASE u = t
      <3>1. tick'[u].left = Oldest(Due) /\ tick'[u].read = [d \in Events |-> row[d].attempts]
        BY <1>1, <1>3, <2>3 DEF TypeOK
      <3>2. e \in Events /\ row[e].attempts < MaxAttempts
        BY <2>1, <3>1 DEF Oldest, Due
      <3>3. row[e].attempts <= tries[e]
        BY <3>2 DEF Inv, GivenUpAfterAllTries
      <3>4. QED
        BY <3>1, <3>2, <3>3
    <2>4. QED
      BY <2>2, <2>3
  <1>6. InHand'
    <2>1. SUFFICES ASSUME NEW u \in Ticks, NEW e \in Events, Current(u, e)'
                   PROVE  /\ tick'[u].pc = "markSent" => e \in received
                          /\ tick'[u].pc = "countFailure" => tick'[u].read[e] < tries[e]
      BY DEF InHand, StartTick
    <2>2. CASE u = t
      BY <1>1, <1>3, <2>2 DEF TypeOK
    <2>3. CASE u # t
      BY <1>1, <1>3, <2>1, <2>3 DEF Inv, InHand, Current, TypeOK
    <2>4. QED
      BY <2>2, <2>3
  <1>7. QED
    BY <1>4, <1>5, <1>6
       DEF StartTick, Inv, SentWasReceived, GivenUpAfterAllTries, OpenIsDue

\* Steps that leave the rows alone keep what is said of them.
LEMMA KeptRows ==
    ASSUME Inv, row' = row, tries' \in [Events -> 0..MaxAttempts],
           \A d \in Events : tries[d] <= tries'[d],
           received \subseteq received'
    PROVE  SentWasReceived' /\ GivenUpAfterAllTries' /\ OpenIsDue'
  <1>1. \A e \in Events : /\ row[e].attempts \in 0..MaxAttempts
                          /\ tries[e] \in 0..MaxAttempts
                          /\ tries'[e] \in 0..MaxAttempts
    BY DEF Inv, TypeOK, Row
  <1>2. GivenUpAfterAllTries'
    BY <1>1, OutboxAssumption DEF Inv, GivenUpAfterAllTries
  <1>3. QED
    BY <1>2 DEF Inv, SentWasReceived, OpenIsDue

\* A run goes on with the answer it got: what it will write is backed by it.
LEMMA AnswerStep ==
    ASSUME Inv, NEW t \in Ticks, NEW e \in Events, Current(t, e),
           NEW pc \in {"markSent", "countFailure"}, At(t, pc),
           row' = row, webhook' = webhook, restarts' = restarts,
           received \subseteq received', received' \subseteq Events,
           tries' \in [Events -> 0..MaxAttempts],
           \A d \in Events : tries[d] <= tries'[d],
           pc = "markSent" => e \in received',
           pc = "countFailure" => tick[t].read[e] < tries'[e]
    PROVE  Inv'
  <1>1. TypeOK /\ ReadIsPast /\ InHand
    BY DEF Inv
  <1>2. /\ tick' \in [Ticks -> Tick]
        /\ tick'[t] = [tick[t] EXCEPT !.pc = pc]
        /\ \A u \in Ticks \ {t} : tick'[u] = tick[u]
        /\ \A u \in Ticks : Keeps(u)
    BY <1>1, AtMoves
  <1>3. TypeOK'
    BY <1>1, <1>2 DEF TypeOK
  <1>4. ReadIsPast'
    BY <1>1, <1>2, KeptBatches
  <1>5. InHand'
    <2>1. SUFFICES ASSUME NEW u \in Ticks, NEW d \in Events, Current(u, d)'
                   PROVE  /\ tick'[u].pc = "markSent" => d \in received'
                          /\ tick'[u].pc = "countFailure" => tick'[u].read[d] < tries'[d]
      BY DEF InHand
    <2>2. CASE u # t
      BY <1>1, <1>2, <2>1, <2>2, KeptHands
    <2>3. CASE u = t
      <3>1. /\ tick'[t].pc = pc
            /\ tick'[t].left = tick[t].left
            /\ tick'[t].read = tick[t].read
        BY <1>1, <1>2 DEF TypeOK, Tick
      <3>2. d = e
        BY <2>1, <2>3, <3>1 DEF Current, Events
      <3>3. QED
        BY <2>3, <3>1, <3>2
    <2>4. QED
      BY <2>2, <2>3
  <1>6. SentWasReceived' /\ GivenUpAfterAllTries' /\ OpenIsDue'
    BY KeptRows
  <1>7. QED
    BY <1>3, <1>4, <1>5, <1>6 DEF Inv

\* A run updates its row as the answer allows and goes to the next one.
LEMMA UpdateStep ==
    ASSUME Inv, NEW t \in Ticks, NEW e \in Events, Advance(t, e),
           UNCHANGED <<webhook, restarts, received, tries>>,
           NEW r \in Row, row' = [row EXCEPT ![e] = r],
           r.status = "SENT" => e \in received,
           r.attempts <= tries[e],
           r.status = "FAILED" => tries[e] = MaxAttempts,
           r.status \in {"absent", "PENDING"} => r.attempts < MaxAttempts
    PROVE  Inv'
  <1>1. TypeOK /\ ReadIsPast /\ InHand
    BY DEF Inv
  <1>2. /\ tick' \in [Ticks -> Tick]
        /\ tick'[t].pc \in {"idle", "post"}
        /\ \A u \in Ticks \ {t} : tick'[u] = tick[u]
        /\ \A u \in Ticks : Keeps(u)
    BY <1>1, AdvanceMoves
  <1>3. /\ tries' \in [Events -> 0..MaxAttempts]
        /\ \A d \in Events : tries[d] <= tries'[d]
    BY <1>1, OutboxAssumption DEF TypeOK
  <1>4. TypeOK'
    BY <1>1, <1>2 DEF TypeOK
  <1>5. ReadIsPast'
    BY <1>1, <1>2, <1>3, KeptBatches
  <1>6. InHand'
    <2>1. SUFFICES ASSUME NEW u \in Ticks, NEW d \in Events, Current(u, d)'
                   PROVE  /\ tick'[u].pc = "markSent" => d \in received'
                          /\ tick'[u].pc = "countFailure" => tick'[u].read[d] < tries'[d]
      BY DEF InHand
    <2>2. tick'[u].pc \in {"idle", "post"} \/ tick'[u] = tick[u]
      BY <1>2
    <2>3. QED
      BY <1>1, <1>3, <2>1, <2>2, KeptHands
  <1>7. row'[e] = r /\ \A d \in Events \ {e} : row'[d] = row[d]
    BY <1>1 DEF TypeOK
  <1>8. SentWasReceived' /\ GivenUpAfterAllTries' /\ OpenIsDue'
    BY <1>7 DEF Inv, SentWasReceived, GivenUpAfterAllTries, OpenIsDue
  <1>9. QED
    BY <1>4, <1>5, <1>6, <1>8 DEF Inv

\* Runs may stop anywhere: by an exception or with their process.
LEMMA StopStep ==
    ASSUME Inv, UNCHANGED <<row, received, tries>>,
           webhook' \in BOOLEAN, restarts' \in 0..MaxRestarts,
           tick' \in [Ticks -> Tick],
           \A t \in Ticks : tick'[t] = NoTick \/ tick'[t] = tick[t]
    PROVE  Inv'
  <1>1. TypeOK /\ ReadIsPast /\ InHand
    BY DEF Inv
  <1>2. \A t \in Ticks : Keeps(t)
    BY DEF Keeps, NoTick
  <1>3. /\ tries' \in [Events -> 0..MaxAttempts]
        /\ \A d \in Events : tries[d] <= tries'[d]
    BY <1>1, OutboxAssumption DEF TypeOK
  <1>4. TypeOK'
    BY <1>1 DEF TypeOK
  <1>5. ReadIsPast'
    BY <1>1, <1>2, <1>3, KeptBatches
  <1>6. InHand'
    <2>1. \A t \in Ticks : tick'[t].pc \in {"idle", "post"} \/ tick'[t] = tick[t]
      BY DEF NoTick
    <2>2. QED
      BY <1>1, <1>3, <2>1, KeptHands DEF InHand
  <1>7. SentWasReceived' /\ GivenUpAfterAllTries' /\ OpenIsDue'
    BY <1>3, KeptRows
  <1>8. QED
    BY <1>4, <1>5, <1>6, <1>7 DEF Inv

\* A new row has failed nothing.
LEMMA EmitStep ==
    ASSUME Inv, NEW e \in Events, Emit(e)
    PROVE  Inv'
  <1>1. TypeOK /\ row \in [Events -> Row]
    BY DEF Inv, TypeOK
  <1>2. UNCHANGED <<tick, webhook, restarts, received, tries>>
    BY DEF Emit
  <1>3. /\ row' \in [Events -> Row]
        /\ row'[e].status = "PENDING" /\ row'[e].attempts = row[e].attempts
        /\ \A d \in Events \ {e} : row'[d] = row[d]
    BY <1>1 DEF Emit, Row, EventStatus
  <1>4. TypeOK'
    BY <1>1, <1>2, <1>3 DEF TypeOK
  <1>5. ReadIsPast' /\ InHand'
    BY <1>2 DEF Inv, ReadIsPast, InHand, Current
  <1>6. SentWasReceived' /\ GivenUpAfterAllTries'
    BY <1>2, <1>3 DEF Inv, SentWasReceived, GivenUpAfterAllTries
  <1>7. OpenIsDue'
    BY <1>3 DEF Inv, OpenIsDue, Emit
  <1>8. QED
    BY <1>4, <1>5, <1>6, <1>7 DEF Inv

\* The failure is counted from the attempts the run read, whatever the row
\* says by now: that is never more than the posts that failed.
LEMMA CountStep ==
    ASSUME Inv, NEW t \in Ticks, NEW e \in Events, CountFailure(t, e)
    PROVE  Inv'
  <1> DEFINE n == tick[t].read[e] + 1
  <1> DEFINE r == [status |-> StatusAfter(e, n), attempts |-> n]
  <1>1. TypeOK /\ ReadIsPast /\ InHand
    BY DEF Inv
  <1>2. Current(t, e) /\ e \in tick[t].left /\ tick[t].pc = "countFailure"
    BY DEF CountFailure, Current
  <1>3. /\ tick[t].read[e] \in 0..MaxAttempts
        /\ tick[t].read[e] < MaxAttempts
        /\ tick[t].read[e] < tries[e]
        /\ tries[e] \in 0..MaxAttempts
    BY <1>1, <1>2 DEF TypeOK, Tick, ReadIsPast, InHand
  <1>4. n \in 0..MaxAttempts /\ n <= tries[e]
    BY <1>3, OutboxAssumption
  <1>5. row[e] \in Row
    BY <1>1 DEF TypeOK
  <1>6. r \in Row
    BY <1>4, <1>5 DEF Row, EventStatus, StatusAfter
  <1>7. r.status = "FAILED" => tries[e] = MaxAttempts
    <2>1. CASE n >= MaxAttempts
      BY <1>3, <1>4, <2>1, OutboxAssumption
    <2>2. CASE ~(n >= MaxAttempts)
      BY <1>2, <2>2 DEF StatusAfter, Inv, GivenUpAfterAllTries
    <2>3. QED
      BY <2>1, <2>2
  <1>8. r.status = "SENT" => e \in received
    BY DEF StatusAfter, Inv, SentWasReceived
  <1>9. r.status \in {"absent", "PENDING"} => r.attempts < MaxAttempts
    BY <1>4, OutboxAssumption DEF StatusAfter
  <1>10. row' = [row EXCEPT ![e] = r]
    BY DEF CountFailure, NextAttempts
  <1>11. Advance(t, e) /\ UNCHANGED <<webhook, restarts, received, tries>>
    BY DEF CountFailure
  <1>12. r.attempts <= tries[e]
    BY <1>4
  <1> HIDE DEF r
  <1>13. QED
    BY <1>6, <1>7, <1>8, <1>9, <1>10, <1>11, <1>12, UpdateStep

\* Every step keeps the invariant.
LEMMA NextKeepsInv ==
    ASSUME Inv, [Next]_vars
    PROVE  Inv'
  <1>1. TypeOK /\ ReadIsPast /\ InHand
    BY DEF Inv
  <1>2. /\ tries \in [Events -> 0..MaxAttempts]
        /\ \A d \in Events : tries[d] <= tries[d]
        /\ received \subseteq Events
        /\ webhook \in BOOLEAN
        /\ restarts \in 0..MaxRestarts
        /\ tick \in [Ticks -> Tick]
        /\ row \in [Events -> Row]
    BY <1>1, OutboxAssumption DEF TypeOK
  <1>3. ASSUME NEW t \in Ticks, NEW e \in Events, Failed(e), Current(t, e)
        PROVE  /\ tries' \in [Events -> 0..MaxAttempts]
               /\ \A d \in Events : tries[d] <= tries'[d]
               /\ tick[t].read[e] < tries'[e]
    <2>1. /\ tick[t].read[e] \in Nat
          /\ tick[t].read[e] < MaxAttempts
          /\ tick[t].read[e] <= tries[e]
      BY <1>1, <1>2, <1>3 DEF ReadIsPast, Current, Tick
    <2>2. QED
      BY <1>1, <1>3, <2>1, FailedCounts
  <1>4. ASSUME NEW e \in Events, Emit(e)
        PROVE  Inv'
    BY <1>4, EmitStep
  <1>5. ASSUME NEW t \in Ticks, StartTick(t)
        PROVE  Inv'
    BY <1>5, StartStep
  <1>6. ASSUME NEW t \in Ticks, NEW e \in Events, PostAccepted(t, e)
        PROVE  Inv'
    BY <1>2, <1>6, AnswerStep DEF PostAccepted
  <1>7. ASSUME NEW t \in Ticks, NEW e \in Events, PostFailed(t, e)
        PROVE  Inv'
    <2>1. /\ received \subseteq received' /\ received' \subseteq Events
      BY <1>2, <1>7 DEF PostFailed
    <2>2. QED
      BY <1>3, <1>7, <2>1, AnswerStep DEF PostFailed, OnError
  <1>8. ASSUME NEW t \in Ticks, NEW e \in Events, MarkSent(t, e)
        PROVE  Inv'
    <2> DEFINE r == [row[e] EXCEPT !.status = "SENT"]
    <2>1. row' = [row EXCEPT ![e] = r]
      BY <1>2, <1>8 DEF MarkSent
    <2>2. r \in Row /\ r.status = "SENT" /\ r.attempts = row[e].attempts
      BY <1>2 DEF Row, EventStatus
    <2>3. e \in received /\ row[e].attempts <= tries[e]
      BY <1>1, <1>8 DEF MarkSent, InHand, Inv, GivenUpAfterAllTries
    <2>4. Advance(t, e) /\ UNCHANGED <<webhook, restarts, received, tries>>
      BY <1>8 DEF MarkSent
    <2> HIDE DEF r
    <2>5. QED
      BY <2>1, <2>2, <2>3, <2>4, UpdateStep
  <1>9. ASSUME NEW t \in Ticks, NEW e \in Events, MarkSentThrows(t, e)
        PROVE  Inv'
    BY <1>2, <1>3, <1>9, AnswerStep DEF MarkSentThrows, OnError
  <1>10. ASSUME NEW t \in Ticks, NEW e \in Events, CountFailure(t, e)
         PROVE  Inv'
    BY <1>10, CountStep
  <1>11. NoTick \in Tick
    BY OutboxAssumption DEF NoTick, Tick
  <1>12. ASSUME NEW t \in Ticks, CountFailureThrows(t)
         PROVE  Inv'
    <2>1. tick' \in [Ticks -> Tick]
      BY <1>2, <1>11, <1>12 DEF CountFailureThrows
    <2>2. \A u \in Ticks : tick'[u] = NoTick \/ tick'[u] = tick[u]
      BY <1>2, <1>12 DEF CountFailureThrows
    <2>3. QED
      BY <1>2, <1>12, <2>1, <2>2, StopStep DEF CountFailureThrows
  <1>13. CASE Restart
    <2>1. restarts' \in 0..MaxRestarts
      BY <1>2, <1>13, OutboxAssumption DEF Restart
    <2>2. tick' \in [Ticks -> Tick] /\ \A t \in Ticks : tick'[t] = NoTick
      BY <1>11, <1>13 DEF Restart
    <2>3. QED
      BY <1>13, <2>1, <2>2, StopStep DEF Restart
  <1>14. CASE UNCHANGED vars
    BY <1>2, <1>14, StopStep DEF vars
  <1>15. QED
    BY <1>4, <1>5, <1>6, <1>7, <1>8, <1>9, <1>10, <1>12, <1>13, <1>14
       DEF Next, Step, Throw

----------------------------------------------------------------------------
(* The theorems *)

\* The invariant holds with an empty outbox and no run.
LEMMA InitInv == Init => Inv
  <1>1. SUFFICES ASSUME Init PROVE Inv
    OBVIOUS
  <1>2. NoTick \in Tick
    BY OutboxAssumption DEF NoTick, Tick
  <1>3. TypeOK
    BY <1>1, <1>2, OutboxAssumption DEF Init, TypeOK, Row, EventStatus
  <1>4. ReadIsPast /\ InHand
    BY <1>1 DEF Init, ReadIsPast, InHand, Current, NoTick
  <1>5. SentWasReceived /\ GivenUpAfterAllTries /\ OpenIsDue
    BY <1>1, OutboxAssumption DEF Init, SentWasReceived, GivenUpAfterAllTries, OpenIsDue
  <1>6. QED
    BY <1>3, <1>4, <1>5 DEF Inv

\* The invariant holds in every reachable state.
LEMMA InvHolds == Spec => []Inv
  BY InitInv, NextKeepsInv, PTL DEF Spec

\* The rows, the counters and the batches of the runs keep their types: no run
\* counts an attempt beyond MAX_ATTEMPTS.
THEOREM OutboxTypes == Spec => []TypeOK
  <1>1. Inv => TypeOK
    BY DEF Inv
  <1>2. QED
    BY <1>1, InvHolds, PTL

\* However many runs overlap and wherever a process stops, a row says SENT
\* only if the receiver accepted its post.
THEOREM SentMeansReceived == Spec => []SentWasReceived
  <1>1. Inv => SentWasReceived
    BY DEF Inv
  <1>2. QED
    BY <1>1, InvHolds, PTL

\* The counter of a row, written by runs that read it before, never exceeds the
\* posts that failed: a row is FAILED after MAX_ATTEMPTS of them.
THEOREM FailedMeansTried == Spec => []GivenUpAfterAllTries
  <1>1. Inv => GivenUpAfterAllTries
    BY DEF Inv
  <1>2. QED
    BY <1>1, InvHolds, PTL

\* No row is PENDING with its attempts used up, where no query would find it.
THEOREM PendingStaysDue == Spec => []PendingIsDue
  <1>1. Inv => PendingIsDue
    BY DEF Inv, OpenIsDue, PendingIsDue
  <1>2. QED
    BY <1>1, InvHolds, PTL

\* A late update of one run never reopens a row that another run has settled.
THEOREM SettledForGood == Spec => SettledStaysSettled
  <1>1. Inv /\ [Next]_vars => [SettledStep]_vars
    <2>1. SUFFICES ASSUME TypeOK, Next PROVE SettledStep
      BY DEF Inv, SettledStep, vars
    <2>2. SUFFICES ASSUME NEW d \in Events, row[d].status \in {"SENT", "FAILED"}
                   PROVE  row'[d].status \in {"SENT", "FAILED"}
      BY DEF SettledStep
    <2>3. row \in [Events -> Row]
      BY <2>1 DEF TypeOK
    <2>4. ASSUME NEW e \in Events, Emit(e)
          PROVE  row'[d] = row[d]
      BY <2>2, <2>3, <2>4 DEF Emit
    <2>5. ASSUME NEW t \in Ticks, NEW e \in Events, MarkSent(t, e)
          PROVE  row'[d].status \in {"SENT", "FAILED"}
      BY <2>2, <2>3, <2>5 DEF MarkSent, Row
    <2>6. ASSUME NEW t \in Ticks, NEW e \in Events, CountFailure(t, e)
          PROVE  row'[d].status \in {"SENT", "FAILED"}
      BY <2>2, <2>3, <2>6 DEF CountFailure, StatusAfter
    <2>7. row' = row \/ (\E e \in Events : Emit(e))
                    \/ (\E t \in Ticks, e \in Events : MarkSent(t, e) \/ CountFailure(t, e))
      BY <2>1 DEF Next, Step, Throw, StartTick, PostAccepted, PostFailed, MarkSentThrows,
                  CountFailureThrows, Restart
    <2>8. QED
      BY <2>2, <2>4, <2>5, <2>6, <2>7
  <1>2. QED
    BY <1>1, InvHolds, PTL DEF Spec, SettledStaysSettled
----------------------------------------------------------------------------
(* The deliveries implement DeliveryStates *)

\* A run posts rows that are in the table.
BatchIsThere == \A t \in Ticks : \A e \in tick[t].left : row[e].status # "absent"

\* How a step leaves the runs: with no rows but those they had, or with rows a
\* query found.
LEMMA BatchesShrink ==
    ASSUME TypeOK, [Next]_vars, NEW t \in Ticks
    PROVE  tick'[t].left \subseteq tick[t].left \cup Due
  <1>1. CASE \E u \in Ticks : StartTick(u)
    BY <1>1 DEF StartTick, Oldest, TypeOK
  <1>2. ASSUME NEW u \in Ticks, NEW e \in Events,
               PostAccepted(u, e) \/ PostFailed(u, e) \/ MarkSentThrows(u, e)
        PROVE  tick'[t].left \subseteq tick[t].left
    <2>1. At(u, "markSent") \/ At(u, "countFailure")
      BY <1>2 DEF PostAccepted, PostFailed, MarkSentThrows, OnError
    <2> QED
      BY <2>1, AtMoves DEF Keeps
  <1>3. ASSUME NEW u \in Ticks, NEW e \in Events, MarkSent(u, e) \/ CountFailure(u, e)
        PROVE  tick'[t].left \subseteq tick[t].left
    BY <1>3, AdvanceMoves DEF MarkSent, CountFailure, Keeps
  <1>4. CASE (\E u \in Ticks : CountFailureThrows(u)) \/ Restart
    BY <1>4 DEF CountFailureThrows, Restart, NoTick, TypeOK
  <1> QED
    BY <1>1, <1>2, <1>3, <1>4 DEF Next, Step, Throw, Emit, vars

\* What a step does to the statuses, what was received and what has failed.
LEMMA EffectStep ==
    ASSUME Inv, BatchIsThere, [Next]_vars
    PROVE  \/ UNCHANGED <<row, received, tries>>
           \/ \E e \in Events :
                  \/ Emit(e)
                  \/ /\ row[e].status # "absent"
                     /\ UNCHANGED row
                     /\ \/ received' = received \cup {e} /\ UNCHANGED tries
                        \/ received' \in {received, received \cup {e}} /\ Failed(e)
                  \/ /\ row[e].status # "absent"
                     /\ UNCHANGED <<received, tries>>
                     /\ \E n \in 0..MaxAttempts, s \in {"SENT", "FAILED", row[e].status} :
                            /\ row' = [row EXCEPT ![e] = [status |-> s, attempts |-> n]]
                            /\ s = "SENT" => e \in received
                            /\ s = "FAILED" => tries[e] = MaxAttempts
  <1>0. TypeOK /\ ReadIsPast /\ InHand
    BY DEF Inv
  <1>1. ASSUME NEW t \in Ticks, NEW e \in Events, Current(t, e)
        PROVE  row[e] \in Row /\ row[e].status # "absent"
    BY <1>0, <1>1 DEF Current, BatchIsThere, TypeOK
  <1>2. ASSUME NEW t \in Ticks, NEW e \in Events, MarkSent(t, e)
        PROVE  /\ row' = [row EXCEPT ![e] = [status |-> "SENT", attempts |-> row[e].attempts]]
               /\ row[e].attempts \in 0..MaxAttempts
               /\ e \in received
    <2>1. row[e] \in Row
      BY <1>1, <1>2 DEF MarkSent
    <2>2. row' = [row EXCEPT ![e].status = "SENT"]
      BY <1>2 DEF MarkSent
    <2>3. [row[e] EXCEPT !.status = "SENT"] = [status |-> "SENT", attempts |-> row[e].attempts]
      BY <2>1 DEF Row
    <2>4. e \in received
      BY <1>0, <1>2 DEF MarkSent, InHand
    <2> QED
      BY <2>1, <2>2, <2>3, <2>4 DEF Row
  <1>3. ASSUME NEW t \in Ticks, NEW e \in Events, CountFailure(t, e)
        PROVE  \E n \in 0..MaxAttempts, s \in {"SENT", "FAILED", row[e].status} :
                   /\ row' = [row EXCEPT ![e] = [status |-> s, attempts |-> n]]
                   /\ s = "SENT" => e \in received
                   /\ s = "FAILED" => tries[e] = MaxAttempts
    <2> DEFINE n == tick[t].read[e] + 1
               s == StatusAfter(e, n)
    <2>1. /\ tick[t].read[e] \in 0..MaxAttempts /\ tick[t].read[e] < MaxAttempts
          /\ tick[t].read[e] < tries[e] /\ tries[e] \in 0..MaxAttempts
      BY <1>0, <1>3 DEF CountFailure, Current, InHand, ReadIsPast, TypeOK, Tick
    <2>2. n \in 0..MaxAttempts
      BY <2>1, OutboxAssumption
    <2>3. s \in {"FAILED", row[e].status}
      BY DEF StatusAfter
    <2>4. s = "SENT" => e \in received
      BY DEF StatusAfter, Inv, SentWasReceived
    <2>5. s = "FAILED" => tries[e] = MaxAttempts
      <3>1. CASE n >= MaxAttempts
        BY <2>1, <3>1, OutboxAssumption
      <3>2. CASE ~(n >= MaxAttempts)
        BY <3>2 DEF StatusAfter, Inv, GivenUpAfterAllTries
      <3> QED
        BY <3>1, <3>2
    <2>6. row' = [row EXCEPT ![e] = [status |-> s, attempts |-> n]]
      BY <1>3 DEF CountFailure, NextAttempts
    <2> QED
      BY <2>2, <2>3, <2>4, <2>5, <2>6
  <1>4. ASSUME NEW t \in Ticks, NEW e \in Events,
               PostAccepted(t, e) \/ PostFailed(t, e) \/ MarkSentThrows(t, e)
        PROVE  /\ row[e].status # "absent"
               /\ UNCHANGED row
               /\ \/ received' = received \cup {e} /\ UNCHANGED tries
                  \/ received' \in {received, received \cup {e}} /\ Failed(e)
    BY <1>1, <1>4 DEF PostAccepted, PostFailed, MarkSentThrows
  <1>5. ASSUME NEW t \in Ticks, NEW e \in Events, MarkSent(t, e) \/ CountFailure(t, e)
        PROVE  /\ row[e].status # "absent"
               /\ UNCHANGED <<received, tries>>
               /\ \E n \in 0..MaxAttempts, s \in {"SENT", "FAILED", row[e].status} :
                      /\ row' = [row EXCEPT ![e] = [status |-> s, attempts |-> n]]
                      /\ s = "SENT" => e \in received
                      /\ s = "FAILED" => tries[e] = MaxAttempts
    <2>1. Current(t, e) /\ UNCHANGED <<received, tries>>
      BY <1>5 DEF MarkSent, CountFailure
    <2> QED
      BY <1>1, <1>2, <1>3, <1>5, <2>1
  <1>6. ASSUME \/ \E t \in Ticks : StartTick(t) \/ CountFailureThrows(t)
               \/ Restart
               \/ UNCHANGED vars
        PROVE  UNCHANGED <<row, received, tries>>
    BY <1>6 DEF StartTick, CountFailureThrows, Restart, vars
  <1> QED
    BY <1>4, <1>5, <1>6 DEF Next, Step, Throw

\* No row goes away, so no run is left with a row that is not there.
LEMMA BatchStep ==
    ASSUME Inv, BatchIsThere, [Next]_vars
    PROVE  BatchIsThere'
  <1> SUFFICES ASSUME NEW t \in Ticks, NEW e \in tick'[t].left
               PROVE  row'[e].status # "absent"
    BY DEF BatchIsThere
  <1>1. e \in tick[t].left \cup Due
    BY BatchesShrink DEF Inv
  <1>2. e \in Events /\ row[e].status # "absent"
    BY <1>1 DEF BatchIsThere, Due, Inv, TypeOK, Tick
  <1> QED
    BY <1>2, EffectStep DEF Emit, Inv, TypeOK

\* Each effect is an action of DeliveryStates.
LEMMA DeliveryStep ==
    ASSUME Inv, BatchIsThere, [Next]_vars
    PROVE  Delivery!Next \/ UNCHANGED <<[e \in Events |-> row[e].status], received, tries>>
  <1> DEFINE st == [e \in Events |-> row[e].status]
  <1>0. row \in [Events -> Row] /\ tries \in [Events -> 0..MaxAttempts]
    BY DEF Inv, TypeOK
  <1>1. CASE UNCHANGED <<row, received, tries>>
    BY <1>1
  <1>2. ASSUME NEW e \in Events, Emit(e)
        PROVE  Delivery!Open(e)
    <2>1. \A d \in Events : row'[d].status = IF d = e THEN "PENDING" ELSE row[d].status
      BY <1>0, <1>2 DEF Emit, Row
    <2>2. st' = [st EXCEPT ![e] = "PENDING"]
      BY <2>1
    <2> QED
      BY <1>2, <2>2 DEF Emit, Delivery!Open
  <1>3. ASSUME NEW e \in Events, row[e].status # "absent", UNCHANGED row,
               \/ received' = received \cup {e} /\ UNCHANGED tries
               \/ received' \in {received, received \cup {e}} /\ Failed(e)
        PROVE  Delivery!Attempt(e)
    <2>1. st' = st /\ st[e] # "absent"
      BY <1>3
    <2>2. CASE received' = received \cup {e} /\ UNCHANGED tries
      BY <2>1, <2>2 DEF Delivery!Attempt
    <2>3. CASE received' \in {received, received \cup {e}} /\ Failed(e)
      <3>1. \/ tries[e] < MaxAttempts /\ tries' = [tries EXCEPT ![e] = @ + 1]
            \/ tries[e] = MaxAttempts /\ tries' = tries
        <4>1. tries[e] < MaxAttempts \/ tries[e] = MaxAttempts
          BY <1>0, OutboxAssumption
        <4>2. CASE tries[e] < MaxAttempts
          BY <2>3, <4>2 DEF Failed
        <4>3. CASE tries[e] = MaxAttempts
          <5>1. ~(tries[e] < MaxAttempts)
            BY <4>3, OutboxAssumption
          <5>2. tries' = [tries EXCEPT ![e] = tries[e]]
            BY <2>3, <5>1 DEF Failed
          <5> QED
            BY <1>0, <4>3, <5>2
        <4> QED
          BY <4>1, <4>2, <4>3
      <3> QED
        BY <2>1, <2>3, <3>1 DEF Delivery!Attempt
    <2> QED
      BY <1>3, <2>2, <2>3
  <1>4. ASSUME NEW e \in Events, row[e].status # "absent", UNCHANGED <<received, tries>>,
               NEW n \in 0..MaxAttempts, NEW s \in {"SENT", "FAILED", row[e].status},
               row' = [row EXCEPT ![e] = [status |-> s, attempts |-> n]],
               s = "SENT" => e \in received,
               s = "FAILED" => tries[e] = MaxAttempts
        PROVE  Delivery!Settle(e) \/ UNCHANGED <<st, received, tries>>
    <2>1. \A d \in Events : row'[d].status = IF d = e THEN s ELSE row[d].status
      BY <1>0, <1>4
    <2>2. st' = [st EXCEPT ![e] = s]
      BY <2>1
    <2>3. CASE s \in {"SENT", "FAILED"}
      BY <1>4, <2>2, <2>3 DEF Delivery!Settle
    <2>4. CASE s = row[e].status
      <3>1. \A d \in Events : row'[d].status = row[d].status
        BY <2>1, <2>4
      <3> QED
        BY <1>4, <3>1
    <2> QED
      BY <2>3, <2>4
  <1> HIDE DEF st
  <1>5. (\E e \in Events : Delivery!Open(e) \/ Delivery!Attempt(e) \/ Delivery!Settle(e))
        \/ UNCHANGED <<st, received, tries>>
    BY <1>1, <1>2, <1>3, <1>4, EffectStep DEF st
  <1> QED
    BY <1>5 DEF Delivery!Next, st

\* With any number of overlapping runs, lost answers, failing updates and
\* restarts, deliverPendingEvents implements DeliveryStates.
THEOREM ImplementsDeliveryStates == Spec => DeliverySpec
  <1>1. Init => BatchIsThere
    BY DEF Init, BatchIsThere, NoTick
  <1>2. Init => Delivery!Init
    BY DEF Init, Delivery!Init
  <1>3. Inv /\ BatchIsThere /\ [Next]_vars => BatchIsThere'
    BY BatchStep
  <1>4. Inv /\ BatchIsThere /\ [Next]_vars =>
            [Delivery!Next]_<<[e \in Events |-> row[e].status], received, tries>>
    BY DeliveryStep
  <1> QED
    BY <1>1, <1>2, <1>3, <1>4, InvHolds, PTL DEF Spec, DeliverySpec, Delivery!Spec
=============================================================================
