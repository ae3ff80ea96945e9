--------------------------- MODULE ServiceDeskProofs ---------------------------
(***************************************************************************)
(* Theorems about ServiceDesk, checked by TLAPS.  Those of its two parts   *)
(* are at hand: DocumentStore is extended with its proofs, and Lifecycle   *)
(* brings those of RequestLifecycle, instantiated as in ServiceDesk.       *)
(***************************************************************************)
EXTENDS ServiceDesk, DocumentStoreProofs

Lifecycle == INSTANCE RequestLifecycleProofs WITH
                 Requests <- {Ticket}, attached <- Attached,
                 Calls <- ApiCalls, calls <- apiCalls, auditLog <- requestLog

----------------------------------------------------------------------------
(* The two instances of RequestLifecycle are the same *)

\* Each action of the one is the action of the other, definition by definition.
LEMMA StepsAgree == RequestApi!Next => Lifecycle!Next
<1> USE DEF RequestApi!NoRow, Lifecycle!NoRow, RequestApi!Exists,
            Lifecycle!Exists, RequestApi!IsMemberOf, Lifecycle!IsMemberOf,
            RequestApi!NoCall, Lifecycle!NoCall, RequestApi!Idle, Lifecycle!Idle,
            RequestApi!Finish, Lifecycle!Finish, RequestApi!Goto, Lifecycle!Goto,
            RequestApi!GotoFanout, Lifecycle!GotoFanout, RequestApi!Begin,
            Lifecycle!Begin, RequestApi!EventType, Lifecycle!EventType,
            RequestApi!Log, Lifecycle!Log, RequestApi!Audit, Lifecycle!Audit,
            RequestApi!Emit, Lifecycle!Emit
<1>1. ASSUME NEW c, NEW u, NEW r, RequestApi!CreateRequest(c, u, r)
      PROVE  Lifecycle!CreateRequest(c, u, r)
  BY <1>1 DEF RequestApi!CreateRequest, Lifecycle!CreateRequest,
               RequestApi!CreatedKey, Lifecycle!CreatedKey
<1>2. ASSUME NEW c, NEW u, NEW r, RequestApi!ClaimRead(c, u, r)
      PROVE  Lifecycle!ClaimRead(c, u, r)
  BY <1>2 DEF RequestApi!ClaimRead, Lifecycle!ClaimRead
<1>3. ASSUME NEW c, RequestApi!ClaimCas(c) PROVE  Lifecycle!ClaimCas(c)
  BY <1>3 DEF RequestApi!ClaimCas, Lifecycle!ClaimCas, RequestApi!Claimable,
               Lifecycle!Claimable
<1>4. ASSUME NEW c, RequestApi!ClaimAudit(c) PROVE  Lifecycle!ClaimAudit(c)
  BY <1>4 DEF RequestApi!ClaimAudit, Lifecycle!ClaimAudit
<1>5. ASSUME NEW c, RequestApi!ClaimEvent(c) PROVE  Lifecycle!ClaimEvent(c)
  BY <1>5 DEF RequestApi!ClaimEvent, Lifecycle!ClaimEvent, RequestApi!ClaimedKey,
               Lifecycle!ClaimedKey
<1>6. ASSUME NEW c, NEW u, NEW r, NEW to, NEW note, RequestApi!StatusRead(c, u, r, to, note)
      PROVE  Lifecycle!StatusRead(c, u, r, to, note)
  BY <1>6 DEF RequestApi!StatusRead, Lifecycle!StatusRead,
               RequestApi!ValidTransitions, Lifecycle!ValidTransitions,
               RequestApi!Status, Lifecycle!Status, RequestApi!HasResolution,
               Lifecycle!HasResolution
<1>7. ASSUME NEW c, RequestApi!StatusTx(c) PROVE  Lifecycle!StatusTx(c)
  BY <1>7 DEF RequestApi!StatusTx, Lifecycle!StatusTx,
               RequestApi!UnchangedSinceRead, Lifecycle!UnchangedSinceRead,
               RequestApi!StatusKey, Lifecycle!StatusKey
<1>8. ASSUME NEW c, NEW u, NEW r, RequestApi!CancelRead(c, u, r)
      PROVE  Lifecycle!CancelRead(c, u, r)
  BY <1>8 DEF RequestApi!CancelRead, Lifecycle!CancelRead
<1>9. ASSUME NEW c, RequestApi!CancelTx(c) PROVE  Lifecycle!CancelTx(c)
  BY <1>9 DEF RequestApi!CancelTx, Lifecycle!CancelTx, RequestApi!CancelledKey,
               Lifecycle!CancelledKey
<1>10. ASSUME NEW c, RequestApi!Fanout(c) PROVE  Lifecycle!Fanout(c)
  BY <1>10 DEF RequestApi!Fanout, Lifecycle!Fanout, RequestApi!Recipients,
                Lifecycle!Recipients
<1>11. ASSUME NEW c, RequestApi!Abort(c) PROVE  Lifecycle!Abort(c)
  BY <1>11 DEF RequestApi!Abort, Lifecycle!Abort
<1>12. ASSUME NEW r, RequestApi!AttachDocument(r) PROVE  Lifecycle!AttachDocument(r)
  BY <1>12 DEF RequestApi!AttachDocument, Lifecycle!AttachDocument
<1>13. ASSUME NEW r, RequestApi!DetachDocument(r) PROVE  Lifecycle!DetachDocument(r)
  BY <1>13 DEF RequestApi!DetachDocument, Lifecycle!DetachDocument
<1>14. ASSUME NEW u, RequestApi!JoinDepartment(u) PROVE  Lifecycle!JoinDepartment(u)
  BY <1>14 DEF RequestApi!JoinDepartment, Lifecycle!JoinDepartment
<1> HIDE DEF RequestApi!NoRow
<1> QED
  BY <1>1, <1>2, <1>3, <1>4, <1>5, <1>6, <1>7, <1>8, <1>9, <1>10, <1>11, <1>12, <1>13, <1>14
  DEF RequestApi!Next, Lifecycle!Next, RequestApi!Arrive, Lifecycle!Arrive,
      RequestApi!Resume, Lifecycle!Resume, RequestApi!Status, Lifecycle!Status

\* They start alike, too.
LEMMA StartsAgree == RequestApi!Init => Lifecycle!Init
BY DEF RequestApi!Init, Lifecycle!Init, RequestApi!NoRow, Lifecycle!NoRow, RequestApi!NoCall, Lifecycle!NoCall

\* What RequestLifecycle assumes of its constants.
LEMMA AssumptionsHold == /\ Admins \subseteq Users /\ Faults \in BOOLEAN
                         /\ None \notin Users \cup {Ticket}
BY StoreAssumption, DeskAssumption DEF StoreAssumption, DeskAssumption

----------------------------------------------------------------------------
(* Documents of the desk are documents of DocumentStore *)

\* A step of the desk is a step of the document store, or leaves it alone.
LEMMA DocumentsSide == [DeskNext]_deskVars => [Next]_vars
BY DEF DeskNext, RequestStep, DocumentStep, Upload, Stop, Next, deskVars

\* The claimant that an upload finds and the calls that a stop waits for only
\* restrict the document store.
THEOREM DeskStoresDocuments == DeskSpec => Spec
<1>1. DeskInit => Init
  BY DEF DeskInit
<1> QED
  BY <1>1, DocumentsSide, PTL DEF DeskSpec, Spec

StoreInv == Inv /\ Placed

\* What the document store keeps, it keeps at the desk.
LEMMA StoreInvHolds == DeskSpec => []StoreInv
<1>1. StoreInv <=> Inv /\ Placed
  BY DEF StoreInv
<1> QED
  BY <1>1, DeskStoresDocuments, SpecInv, InitPlaced, PlacedStep, PTL DEF Spec

----------------------------------------------------------------------------
(* What the requests know of the documents *)

lifecycleVars == <<request, Attached, members, requestLog, outbox, inbox, apiCalls>>

Claimed == request[Ticket].claimedBy # None

\* The check of an upload is made once and holds to its end, since no code takes
\* the claimant away.
UploadsAreClaimed == \A c \in Calls : Uploads(c) => Claimed

HasDocument == \E d \in Docs : Exists(d)

\* A completion without a note rests on a document that was there.
CompletionsAreBacked ==
    /\ Lifecycle!IsBare(Ticket) => HasDocument
    /\ \A c \in ApiCalls : Lifecycle!CompletesBare(c, Ticket) => HasDocument

TicketInv == Lifecycle!TypeInv /\ UploadsAreClaimed /\ CompletionsAreBacked

\* At the start there is neither a request nor a document.
LEMMA TicketInit == DeskInit => TicketInv
<1> SUFFICES ASSUME DeskInit PROVE TicketInv
  OBVIOUS
<1>1. Lifecycle!Init
  BY StartsAgree DEF DeskInit
<1>2. Lifecycle!TypeInv
  BY <1>1, AssumptionsHold, Lifecycle!TypeInit DEF Lifecycle!TypeInv
<1>3. UploadsAreClaimed
  BY DEF DeskInit, Init, UploadsAreClaimed, Uploads, NoCall
<1>4. CompletionsAreBacked
  BY <1>1 DEF Lifecycle!Init, Lifecycle!NoRow, Lifecycle!NoCall, CompletionsAreBacked,
              Lifecycle!IsBare, Lifecycle!CompletesBare
<1> QED
  BY <1>2, <1>3, <1>4 DEF TicketInv

\* The step that makes a document active where none was is the last of an upload.
LEMMA ActiveStep ==
    ASSUME StoreInv, DocumentStep, NEW d \in Active', d \notin Active
    PROVE  \E c \in Calls : calls[c].pc = "createRow"
<1>0. row \in [Docs -> DocRow] /\ d \in Docs /\ row'[d].state = "active" /\ row[d].state # "active"
  BY DEF StoreInv, Inv, TypeOK, Active
<1>1. CASE Stop \/ \E x \in Docs : Expire(x)
  BY <1>0, <1>1 DEF Stop, Restart, Expire
<1>2. ASSUME NEW c \in Calls, CallStep(c) PROVE calls[c].pc = "createRow"
  <2> DEFINE x == calls[c].doc
  <2>1. \/ UNCHANGED row
        \/ Replaces
        \/ x \in Docs /\ (Stores(x) \/ Discards(x) \/ TakesAway(x) \/ MovesOut(x))
        \/ calls[c].pc = "createRow"
    BY <1>2, CallEffects DEF StoreInv
  <2>2. ~Replaces
    BY <1>0 DEF Replaces, DocRow
  <2>3. ASSUME x \in Docs, Stores(x) \/ Discards(x) \/ TakesAway(x) \/ MovesOut(x) PROVE FALSE
    BY <1>0, <2>3 DEF Stores, Discards, TakesAway, MovesOut, Erased, DocRow
  <2> QED
    BY <1>0, <2>1, <2>2, <2>3
<1> QED
  BY <1>1, <1>2 DEF DocumentStep, Upload, CallStep

\* A request sees documents come and go, and come only to a claimed request.
LEMMA RequestsSide ==
    ASSUME StoreInv, UploadsAreClaimed, [DeskNext]_deskVars
    PROVE  [RequestApi!Next]_lifecycleVars
<1>1. CASE RequestStep
  BY <1>1 DEF RequestStep, RequestApi!Next
<1>2. CASE UNCHANGED deskVars
  BY <1>2 DEF deskVars, requestVars, vars, lifecycleVars, Attached, Active
<1>3. CASE DocumentStep
  <2>1. UNCHANGED <<request, members, requestLog, outbox, inbox, apiCalls>>
    BY <1>3 DEF DocumentStep, requestVars
  <2>2. CASE Attached' = Attached
    BY <2>1, <2>2 DEF lifecycleVars
  <2>3. CASE Attached' # Attached /\ Active # {}
    <3>1. Attached = {Ticket} /\ Attached' = {}
      BY <2>3 DEF Attached
    <3>2. RequestApi!DetachDocument(Ticket)
      BY <2>1, <3>1 DEF RequestApi!DetachDocument
    <3> QED
      BY <3>2 DEF RequestApi!Next
  <2>4. CASE Attached' # Attached /\ Active = {}
    <3>1. Attached = {} /\ Attached' = {Ticket} /\ Active' # {}
      BY <2>4 DEF Attached
    <3>2. Claimed
      BY <1>3, <2>4, <3>1, ActiveStep DEF UploadsAreClaimed, Uploads
    <3>3. RequestApi!AttachDocument(Ticket)
      BY <2>1, <3>1, <3>2 DEF RequestApi!AttachDocument, RequestApi!Exists, RequestApi!NoRow, Claimed
    <3> QED
      BY <3>3 DEF RequestApi!Next
  <2> QED
    BY <2>2, <2>3, <2>4
<1> QED
  BY <1>1, <1>2, <1>3 DEF DeskNext

\* The types of the requests, from those of RequestLifecycle.
LEMMA TypesStay ==
    ASSUME Lifecycle!TypeInv, [RequestApi!Next]_lifecycleVars
    PROVE  Lifecycle!TypeInv' /\ [Lifecycle!Next]_Lifecycle!vars
<1>1. [Lifecycle!Next]_Lifecycle!vars
  BY StepsAgree DEF lifecycleVars, Lifecycle!vars
<1> QED
  BY <1>1, AssumptionsHold, Lifecycle!TypeInvStep

\* A claimant stays, whatever calls and documents do.
LEMMA ClaimStays ==
    ASSUME Lifecycle!TypeInv, [RequestApi!Next]_lifecycleVars, Claimed
    PROVE  Claimed'
<1>1. Lifecycle!ClaimantIsFixedStep
  BY TypesStay, AssumptionsHold, Lifecycle!ClaimantStep
<1> QED
  BY <1>1 DEF Lifecycle!ClaimantIsFixedStep, Lifecycle!Exists, Lifecycle!NoRow, Claimed

\* Who starts an upload has found a claimant, and no claimant goes.
LEMMA UploadsStayClaimed ==
    ASSUME StoreInv, TicketInv, [DeskNext]_deskVars
    PROVE  UploadsAreClaimed'
<1> SUFFICES ASSUME NEW c \in Calls, Uploads(c)' PROVE Claimed'
  BY DEF UploadsAreClaimed
<1>0. Claimed => Claimed'
  BY ClaimStays, RequestsSide DEF TicketInv
<1>1. CASE calls' = calls
  BY <1>0, <1>1 DEF Uploads, TicketInv, UploadsAreClaimed
<1>2. CASE Stop
  BY <1>2 DEF Stop, Restart, Uploads, NoCall
<1>3. ASSUME NEW d \in Calls, CallStep(d), uploads' = uploads \/ Claimed PROVE Claimed'
  <2>1. GoesOn(d) /\ \A x \in Calls \ {d} : calls'[x] = calls[x]
    BY <1>3, CallGoesOn DEF StoreInv
  <2>2. CASE c # d
    BY <1>0, <2>1, <2>2 DEF Uploads, TicketInv, UploadsAreClaimed
  <2>3. CASE c = d /\ Uploads(d)
    BY <1>0, <2>3 DEF TicketInv, UploadsAreClaimed
  <2>4. CASE c = d /\ ~Uploads(d)
    <3>1. uploads' = uploads + 1 /\ uploads \in Nat
      BY <2>1, <2>4, StoreAssumption DEF GoesOn, Uploads, StoreInv, Inv, TypeOK, StoreAssumption
    <3>2. uploads' # uploads
      BY <3>1
    <3> QED
      BY <1>0, <1>3, <3>2
  <2> QED
    BY <2>2, <2>3, <2>4
<1>4. CASE DocumentStep
  <2>1. CASE Stop \/ \E x \in Docs : Expire(x)
    BY <1>1, <1>2, <2>1 DEF Expire
  <2>2. CASE \E d \in Calls : Upload(d)
    BY <1>3, <2>2 DEF Upload, MayUpload, Claimed, CallStep
  <2>3. CASE \E d \in Calls : \/ StartPurge(d) \/ StartBackfill(d)
                              \/ \E x \in Docs : StartRemove(d, x)
                              \/ Step(d) \/ CallFails(d) \/ JobSkips(d)
    <3>1. ASSUME NEW d \in Calls, Step(d) \/ CallFails(d) \/ JobSkips(d) PROVE uploads' = uploads
      BY <3>1 DEF Step, PutObject, SoftDelete, CreateRow, DeleteObject, RemoveTx, PurgeDelete,
         PurgeUpdate, PurgeAudit, BackfillPut, BackfillClear, CallFails, JobSkips, World
    <3>2. ASSUME NEW d \in Calls, NEW x \in Docs, StartRemove(d, x) PROVE uploads' = uploads
      BY <3>2 DEF StartRemove, World
    <3>3. ASSUME NEW d \in Calls, StartPurge(d) \/ StartBackfill(d) PROVE uploads' = uploads
      BY <3>3 DEF StartPurge, StartBackfill, World
    <3> QED
      BY <1>3, <2>3, <3>1, <3>2, <3>3 DEF CallStep
  <2> QED
    BY <1>4, <2>1, <2>2, <2>3 DEF DocumentStep
<1> QED
  BY <1>1, <1>4 DEF DeskNext, RequestStep, deskVars, vars

\* Rows are never deleted.
LEMMA DocumentsStay ==
    ASSUME StoreInv, [DeskNext]_deskVars, HasDocument
    PROVE  HasDocument'
<1>0. row \in [Docs -> DocRow]
  BY DEF StoreInv, Inv, TypeOK
<1> PICK d \in Docs : Exists(d)
  BY DEF HasDocument
<1> SUFFICES row'[d].state # "absent"
  BY DEF HasDocument, Exists
<1>1. CASE UNCHANGED row
  BY <1>1 DEF Exists
<1>2. ASSUME NEW c \in Calls, CallStep(c) PROVE row'[d].state # "absent"
  <2> DEFINE x == calls[c].doc
  <2>1. \/ UNCHANGED row
        \/ Replaces
        \/ x \in Docs /\ (Stores(x) \/ Discards(x) \/ TakesAway(x) \/ MovesOut(x) \/ Creates(x))
    BY <1>2, CallEffects DEF StoreInv
  <2>2. CASE Replaces
    BY <1>0, <2>2 DEF Replaces, DocRow, Exists
  <2>3. ASSUME x \in Docs, Stores(x) \/ Discards(x) PROVE row' = row
    BY <2>3 DEF Stores, Discards
  <2>4. ASSUME x \in Docs, Creates(x) PROVE row'[d].state # "absent"
    BY <1>0, <2>4 DEF Creates, Exists
  <2>5. ASSUME x \in Docs, TakesAway(x) PROVE row'[d].state # "absent"
    BY <1>0, <2>5 DEF TakesAway, Erased, DocRow, Exists
  <2>6. ASSUME x \in Docs, MovesOut(x) PROVE row'[d].state # "absent"
    BY <1>0, <2>6 DEF MovesOut, DocRow, Exists
  <2> QED
    BY <1>1, <2>1, <2>2, <2>3, <2>4, <2>5, <2>6
<1>3. \/ UNCHANGED row
      \/ \E c \in Calls : CallStep(c)
  BY DEF DeskNext, RequestStep, DocumentStep, deskVars, vars, Upload, CallStep, Stop, Restart, Expire
<1> QED
  BY <1>1, <1>2, <1>3

\* Who completes without a note has counted a document, and its row stays.
LEMMA BackingStays ==
    ASSUME StoreInv, TicketInv, [DeskNext]_deskVars
    PROVE  CompletionsAreBacked'
<1>1. Lifecycle!TypeInv /\ Lifecycle!TypeOK /\ [Lifecycle!Next]_Lifecycle!vars
  BY RequestsSide, TypesStay DEF TicketInv, Lifecycle!TypeInv
<1>2. Ticket \in Attached => HasDocument
  BY DEF Attached, Active, HasDocument, Exists
<1>3. ASSUME NEW c \in ApiCalls, Lifecycle!CompletesBare(c, Ticket)' PROVE HasDocument
  <2>1. Lifecycle!CompletesBare(c, Ticket) \/ Ticket \in Attached
    BY <1>1, <1>3, AssumptionsHold, Lifecycle!BareUpdate
  <2> QED
    BY <1>2, <2>1 DEF TicketInv, CompletionsAreBacked
<1>4. ASSUME Lifecycle!IsBare(Ticket)' PROVE HasDocument
  <2>1. Lifecycle!IsBare(Ticket) \/ \E c \in ApiCalls : Lifecycle!CompletesBare(c, Ticket)
    BY <1>1, <1>4, AssumptionsHold, Lifecycle!BareCompletion
  <2> QED
    BY <2>1 DEF TicketInv, CompletionsAreBacked
<1> QED
  BY <1>3, <1>4, DocumentsStay DEF CompletionsAreBacked

\* The three together hold throughout.
LEMMA TicketInvHolds == DeskSpec => []TicketInv
<1>1. StoreInv /\ TicketInv /\ [DeskNext]_deskVars => TicketInv'
  <2> SUFFICES ASSUME StoreInv, TicketInv, [DeskNext]_deskVars PROVE TicketInv'
    OBVIOUS
  <2>1. Lifecycle!TypeInv'
    BY RequestsSide, TypesStay DEF TicketInv
  <2> QED
    BY <2>1, UploadsStayClaimed, BackingStays DEF TicketInv
<1> QED
  BY <1>1, TicketInit, StoreInvHolds, PTL DEF DeskSpec

\* A request whose documents are uploaded, replaced, removed and purged by the
\* real calls and jobs is a request of RequestLifecycle: what is proved there for
\* documents that come and go at will holds of the two together.
THEOREM DeskImplementsRequests == DeskSpec => RequestsSpec
<1>1. DeskInit => RequestApi!Init
  BY DEF DeskInit
<1>2. StoreInv /\ TicketInv /\ [DeskNext]_deskVars => [RequestApi!Next]_lifecycleVars
  BY RequestsSide DEF TicketInv
<1> QED
  BY <1>1, <1>2, StoreInvHolds, TicketInvHolds, PTL
     DEF DeskSpec, RequestsSpec, RequestApi!Spec, RequestApi!vars, lifecycleVars

----------------------------------------------------------------------------
(* Replacements keep something to show *)

Shown == Active # {} \/ Gone # {} \/ \E c \in Calls : calls[c].pc = "createRow"

ShownInv == ~Faults /\ restarts = 0 /\ HasDocument => Shown

\* Until something fails or the process restarts, the documents of a request are
\* never all replaced: an upload that has replaced them is about to create its
\* own.
LEMMA ShownStep ==
    ASSUME StoreInv, ShownInv, [DeskNext]_deskVars
    PROVE  ShownInv'
<1> SUFFICES ASSUME ~Faults, restarts' = 0, HasDocument' PROVE Shown'
  BY DEF ShownInv
<1>0. row \in [Docs -> DocRow] /\ CallsAreTyped
  BY DEF StoreInv, Inv, TypeOK, CallsAreTyped
<1>1. ~Stop
  <2>1. Restart => restarts' = restarts + 1 /\ restarts \in Nat
    BY StoreAssumption DEF Restart, StoreInv, Inv, TypeOK, StoreAssumption
  <2> QED
    BY <2>1 DEF Stop
<1>2. restarts = 0
  <2>1. ASSUME NEW c \in Calls, Step(c) PROVE UNCHANGED restarts
    BY <2>1 DEF Step, PutObject, SoftDelete, CreateRow, DeleteObject, RemoveTx, PurgeDelete,
       PurgeUpdate, PurgeAudit, BackfillPut, BackfillClear, World, Mode
  <2>2. ASSUME NEW c \in Calls, NEW d \in Docs, StartRemove(c, d) PROVE UNCHANGED restarts
    BY <2>2 DEF StartRemove, World, Mode
  <2>3. ASSUME NEW c \in Calls,
               StartUpload(c) \/ StartPurge(c) \/ StartBackfill(c) \/ CallFails(c) \/ JobSkips(c)
        PROVE  UNCHANGED restarts
    BY <2>3 DEF StartUpload, StartPurge, StartBackfill, CallFails, JobSkips, World, Mode
  <2>4. ASSUME NEW d \in Docs, Expire(d) PROVE UNCHANGED restarts
    BY <2>4 DEF Expire, Mode
  <2>5. CASE UNCHANGED vars
    BY <2>5 DEF vars, Mode
  <2> QED
    BY <1>1, <2>1, <2>2, <2>3, <2>4, <2>5 DEF DeskNext, RequestStep, DocumentStep, deskVars, Upload
<1>3. HasDocument => Shown
  BY <1>2 DEF ShownInv
<1>4. CASE UNCHANGED <<row, calls>>
  BY <1>3, <1>4 DEF HasDocument, Exists, Shown, Active, Gone
<1>5. ASSUME NEW c \in Calls, CallStep(c) PROVE Shown'
  <2> DEFINE d == calls[c].doc
  <2>0. \A x \in Calls \ {c} : calls'[x] = calls[x]
    BY <1>5, CallGoesOn DEF StoreInv
  <2>1. CASE CreateRow(c)
    <3>1. d \in Docs
      BY <1>0, <2>1, UnderWay DEF CreateRow, At
    <3>2. d \in Active'
      BY <1>0, <2>1, <3>1 DEF CreateRow, Active
    <3> QED
      BY <3>2 DEF Shown
  <2>2. CASE SoftDelete(c)
    <3>1. calls'[c].pc = "createRow"
      BY <1>0, <2>2, GotoIsTyped DEF SoftDelete, At, Pc
    <3> QED
      BY <3>1 DEF Shown
  <2>3. CASE RemoveTx(c) \/ PurgeUpdate(c)
    <3>1. d \in Docs
      BY <1>0, <2>3, UnderWay DEF RemoveTx, PurgeUpdate, At
    <3>2. row'[d].state \in {"removed", "purged"}
      <4>1. CASE RemoveTx(c)
        BY <1>0, <3>1, <4>1 DEF RemoveTx, Erased, DocRow
      <4>2. CASE PurgeUpdate(c)
        BY <1>0, <3>1, <4>2 DEF PurgeUpdate, Erased, DocRow
      <4> QED
        BY <2>3, <4>1, <4>2
    <3> QED
      BY <3>1, <3>2 DEF Shown, Gone
  <2>4. CASE ~(CreateRow(c) \/ SoftDelete(c) \/ RemoveTx(c) \/ PurgeUpdate(c))
    <3>1. \A x \in Docs : row'[x].state = row[x].state
      <4>1. CASE BackfillClear(c)
        BY <1>0, <4>1 DEF BackfillClear, DocRow
      <4>2. CASE ~BackfillClear(c)
        <5>1. CASE Step(c)
          BY <2>4, <4>2, <5>1 DEF Step, PutObject, DeleteObject, PurgeDelete, PurgeAudit, BackfillPut
        <5>2. CASE \E x \in Docs : StartRemove(c, x)
          BY <5>2 DEF StartRemove
        <5>3. CASE StartUpload(c) \/ StartPurge(c) \/ StartBackfill(c) \/ CallFails(c) \/ JobSkips(c)
          BY <5>3 DEF StartUpload, StartPurge, StartBackfill, CallFails, JobSkips
        <5> QED
          BY <1>5, <5>1, <5>2, <5>3 DEF CallStep
      <4> QED
        BY <4>1, <4>2
    <3>2. calls[c].pc # "createRow"
      <4>1. CASE Step(c)
        <5>1. PutObject(c) \/ DeleteObject(c) \/ PurgeDelete(c) \/ PurgeAudit(c)
              \/ BackfillPut(c) \/ BackfillClear(c)
          BY <2>4, <4>1 DEF Step
        <5> QED
          BY <5>1 DEF PutObject, DeleteObject, PurgeDelete, PurgeAudit, BackfillPut,
             BackfillClear, BackfillReady, At
      <4>2. CASE \E x \in Docs : StartRemove(c, x)
        BY <4>2 DEF StartRemove, At
      <4>3. CASE StartUpload(c) \/ StartPurge(c) \/ StartBackfill(c)
        BY <4>3 DEF StartUpload, StartPurge, StartBackfill, At
      <4>4. CASE CallFails(c) \/ JobSkips(c)
        BY <4>4 DEF CallFails, JobSkips
      <4> QED
        BY <1>5, <4>1, <4>2, <4>3, <4>4 DEF CallStep
    <3>3. ASSUME HasDocument
          PROVE  Active # {} \/ Gone # {} \/ \E x \in Calls : x # c /\ calls[x].pc = "createRow"
      BY <1>3, <3>2, <3>3 DEF Shown
    <3>4. Active' = Active /\ Gone' = Gone /\ (HasDocument <=> HasDocument')
      BY <3>1 DEF Active, Gone, HasDocument, Exists
    <3> QED
      BY <2>0, <3>3, <3>4 DEF Shown
  <2> QED
    BY <2>1, <2>2, <2>3, <2>4
<1>6. UNCHANGED <<row, calls>> \/ \E c \in Calls : CallStep(c)
  BY <1>1 DEF DeskNext, RequestStep, DocumentStep, deskVars, vars, Upload, CallStep, Expire
<1> QED
  BY <1>4, <1>5, <1>6

\* When nothing fails, and until the process restarts, a request completed by its
\* document keeps one to show until someone removes it or it expires, however
\* many uploads replace each other around the completion.
THEOREM ResolutionsStay == DeskSpec => []ResolutionIsKept
<1>1. DeskInit => ShownInv
  BY DEF DeskInit, Init, ShownInv, HasDocument, Exists
<1>2. StoreInv /\ ShownInv /\ [DeskNext]_deskVars => ShownInv'
  BY ShownStep
<1>3. TicketInv /\ ShownInv => ResolutionIsKept
  BY DEF TicketInv, CompletionsAreBacked, Lifecycle!IsBare, ShownInv, Shown, ResolutionIsKept, At
<1> QED
  BY <1>1, <1>2, <1>3, StoreInvHolds, TicketInvHolds, PTL DEF DeskSpec
=============================================================================
