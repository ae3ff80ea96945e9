----------------------- MODULE RequestLifecycleProofs -----------------------
(***************************************************************************)
(* Safety of RequestLifecycle for any requests, users and calls.           *)
(***************************************************************************)
EXTENDS RequestLifecycle, TLAPS

USE LifecycleAssumption

----------------------------------------------------------------------------
(* Facts about the operators *)

\* Only PENDING and IN_PROGRESS have successors, as VALID_TRANSITIONS lists.
LEMMA TransitionTable ==
    /\ ValidTransitions["PENDING"] = {"IN_PROGRESS", "CANCELLED", "REJECTED"}
    /\ ValidTransitions["IN_PROGRESS"] = {"COMPLETED", "REJECTED"}
    /\ \A s \in Terminal : ValidTransitions[s] = {}
    /\ \A s \in Status : ValidTransitions[s] \subseteq Status \ {s, "PENDING"}
  BY DEF ValidTransitions, Status, Terminal

\* Every status has an event type the fan-out knows.
LEMMA EventTypeIsNoticeType == \A to \in Status : EventType(to) \in NoticeType
  BY DEF EventType, Status, NoticeType

\* A call that has a program counter other than idle is a call of the API.
LEMMA BusyCall ==
    ASSUME TypeOK, NEW c \in Calls, calls[c].pc # "idle"
    PROVE  calls[c] \in Call
  BY DEF TypeOK, NoCall

\* A request that exists has all the columns of a row.
LEMMA RowOfRequest ==
    ASSUME TypeOK, NEW r \in Requests, Exists(r)
    PROVE  request[r] \in RequestRow
  BY DEF TypeOK, Exists

----------------------------------------------------------------------------
(* Type correctness *)

\* TypeOK is not inductive by itself: the cancellation and the fan-out rely on
\* the row of their request being there, which is so because no code deletes
\* Request rows.
CallsHaveRows == \A c \in Calls : calls[c] # NoCall => Exists(calls[c].request)

\* The empty tables have their types.
LEMMA TypeInit == Init => TypeOK /\ CallsHaveRows
  BY DEF Init, TypeOK, CallsHaveRows

\* The step that starts a call keeps the types.
LEMMA TypeArrive ==
    ASSUME TypeOK, NEW c \in Calls, Arrive(c)
    PROVE  TypeOK'
  <1> PICK u \in Users, r \in Requests :
          \/ CreateRequest(c, u, r)
          \/ ClaimRead(c, u, r)
          \/ \E to \in Status, note \in BOOLEAN : StatusRead(c, u, r, to, note)
          \/ CancelRead(c, u, r)
    BY DEF Arrive
  <1>1. CASE CreateRequest(c, u, r)
    <2>1. request' \in [Requests -> RequestRow \cup {NoRow}]
      BY <1>1 DEF CreateRequest, TypeOK, RequestRow, Status
    <2>2. auditLog' \subseteq AuditRow
      BY <1>1 DEF CreateRequest, Log, Audit, AuditRow, TypeOK
    <2>3. outbox' \subseteq EventKey
      BY <1>1 DEF CreateRequest, Emit, CreatedKey, EventKey, TypeOK
    <2>4. calls' \in [Calls -> Call \cup {NoCall}]
      BY <1>1 DEF CreateRequest, TypeOK, Call, Pc, Status, NoticeType
    <2> QED
      BY <1>1, <2>1, <2>2, <2>3, <2>4 DEF CreateRequest, TypeOK
  <1>2. ASSUME NEW pc \in Pc, NEW to \in Status, NEW note \in BOOLEAN,
               Exists(r), Begin(c, pc, u, r, to, note),
               UNCHANGED <<request, attached, members, auditLog, outbox, inbox>>
        PROVE  TypeOK'
    <2>1. calls' \in [Calls -> Call \cup {NoCall}]
      BY <1>2, RowOfRequest, EventTypeIsNoticeType DEF Begin, TypeOK, Call, RequestRow
    <2> QED
      BY <1>2, <2>1 DEF TypeOK
  <1>3. CASE ClaimRead(c, u, r)
    BY <1>2, <1>3 DEF ClaimRead, Pc, Status
  <1>4. CASE \E to \in Status, note \in BOOLEAN : StatusRead(c, u, r, to, note)
    BY <1>2, <1>4 DEF StatusRead, Pc
  <1>5. CASE CancelRead(c, u, r)
    BY <1>2, <1>5 DEF CancelRead, Pc, Status
  <1> QED
    BY <1>1, <1>3, <1>4, <1>5

\* The steps that continue or end a call keep the types.
LEMMA TypeResume ==
    ASSUME TypeOK, CallsHaveRows, NEW c \in Calls, Resume(c) \/ Abort(c)
    PROVE  TypeOK'
  <1>1. CASE ClaimCas(c)
    <2>1. calls[c] \in Call
      BY <1>1, BusyCall DEF ClaimCas
    <2>2. request' \in [Requests -> RequestRow \cup {NoRow}]
      <3>1. CASE Claimable(calls[c].request)
        <4>1. request[calls[c].request] \in RequestRow
          BY <3>1, <2>1 DEF Claimable, TypeOK, NoRow, Call
        <4> QED
          BY <1>1, <2>1, <3>1, <4>1 DEF ClaimCas, TypeOK, RequestRow, Status, Call
      <3> QED
        BY <1>1, <3>1 DEF ClaimCas, TypeOK
    <2>3. calls' \in [Calls -> Call \cup {NoCall}]
      BY <1>1, <2>1 DEF ClaimCas, Goto, Finish, TypeOK, Call, Pc
    <2> QED
      BY <1>1, <2>2, <2>3 DEF ClaimCas, TypeOK
  <1>2. CASE ClaimAudit(c)
    <2>1. calls[c] \in Call
      BY <1>2, BusyCall DEF ClaimAudit
    <2>2. auditLog' \subseteq AuditRow
      BY <1>2, <2>1 DEF ClaimAudit, Log, Audit, AuditRow, Call, TypeOK
    <2>3. calls' \in [Calls -> Call \cup {NoCall}]
      BY <1>2, <2>1 DEF ClaimAudit, Goto, TypeOK, Call, Pc
    <2> QED
      BY <1>2, <2>2, <2>3 DEF ClaimAudit, TypeOK
  <1>3. CASE ClaimEvent(c)
    <2>1. calls[c] \in Call
      BY <1>3, BusyCall DEF ClaimEvent
    <2>2. outbox' \subseteq EventKey
      BY <1>3, <2>1 DEF ClaimEvent, ClaimedKey, EventKey, Call, TypeOK
    <2>3. calls' \in [Calls -> Call \cup {NoCall}]
      BY <1>3, <2>1 DEF ClaimEvent, GotoFanout, Finish, TypeOK, Call, Pc, NoticeType
    <2> QED
      BY <1>3, <2>2, <2>3 DEF ClaimEvent, TypeOK
  <1>4. CASE StatusTx(c)
    <2>1. calls[c] \in Call
      BY <1>4, BusyCall DEF StatusTx
    <2>2. CASE UnchangedSinceRead(calls[c])
      <3>1. request[calls[c].request] \in RequestRow
        BY <2>1, <2>2 DEF UnchangedSinceRead, TypeOK, NoRow, Call, Status
      <3>2. request' \in [Requests -> RequestRow \cup {NoRow}]
        BY <1>4, <2>1, <2>2, <3>1 DEF StatusTx, TypeOK, RequestRow, Call
      <3>3. auditLog' \subseteq AuditRow
        BY <1>4, <2>1, <2>2 DEF StatusTx, Log, Audit, AuditRow, Call, TypeOK
      <3>4. outbox' \subseteq EventKey
        BY <1>4, <2>1, <2>2 DEF StatusTx, Emit, StatusKey, EventKey, Call, TypeOK
      <3>5. calls' \in [Calls -> Call \cup {NoCall}]
        <4>1. EventType(calls[c].to) \in NoticeType
          BY <2>1, EventTypeIsNoticeType DEF Call
        <4> QED
          BY <1>4, <2>1, <2>2, <4>1 DEF StatusTx, GotoFanout, TypeOK, Call, Pc
      <3> QED
        BY <1>4, <3>2, <3>3, <3>4, <3>5 DEF StatusTx, TypeOK
    <2>3. CASE ~UnchangedSinceRead(calls[c])
      BY <1>4, <2>3 DEF StatusTx, Finish, TypeOK
    <2> QED
      BY <2>2, <2>3
  <1>5. CASE CancelTx(c)
    <2>1. calls[c] \in Call
      BY <1>5, BusyCall DEF CancelTx
    <2>2. request' \in [Requests -> RequestRow \cup {NoRow}]
      <3>1. request[calls[c].request] \in RequestRow
        BY <1>5, <2>1, RowOfRequest DEF CancelTx, CallsHaveRows, NoCall, Call
      <3> QED
        BY <1>5, <2>1, <3>1 DEF CancelTx, TypeOK, RequestRow, Call, Status
    <2>3. auditLog' \subseteq AuditRow
      BY <1>5, <2>1 DEF CancelTx, Log, Audit, AuditRow, Call, TypeOK, Status
    <2>4. outbox' \subseteq EventKey
      BY <1>5, <2>1 DEF CancelTx, Emit, CancelledKey, EventKey, Call, TypeOK
    <2>5. calls' \in [Calls -> Call \cup {NoCall}]
      BY <1>5, <2>1 DEF CancelTx, GotoFanout, TypeOK, Call, Pc, NoticeType
    <2> QED
      BY <1>5, <2>2, <2>3, <2>4, <2>5 DEF CancelTx, TypeOK
  <1>6. CASE Fanout(c)
    <2>1. calls[c] \in Call
      BY <1>6, BusyCall DEF Fanout
    <2>2. request[calls[c].request] \in RequestRow
      BY <1>6, <2>1, RowOfRequest DEF Fanout, CallsHaveRows, NoCall, Call
    <2>3. Recipients(calls[c].type, calls[c].request, calls[c].user) \subseteq Users
      BY <2>2 DEF Recipients, RequestRow, TypeOK
    <2>4. inbox' \subseteq Notice
      BY <1>6, <2>1, <2>3 DEF Fanout, Notice, Call, TypeOK
    <2> QED
      BY <1>6, <2>4 DEF Fanout, Finish, TypeOK
  <1>7. CASE Abort(c)
    BY <1>7 DEF Abort, Finish, TypeOK
  <1> QED
    BY <1>1, <1>2, <1>3, <1>4, <1>5, <1>6, <1>7 DEF Resume

\* Only four actions write the Request table.
LEMMA RequestWriters ==
    ASSUME [Next]_vars
    PROVE  \/ UNCHANGED request
           \/ \E c \in Calls, u \in Users, r \in Requests : CreateRequest(c, u, r)
           \/ \E c \in Calls : ClaimCas(c) \/ StatusTx(c) \/ CancelTx(c)
  <1>1. ASSUME NEW c \in Calls, Arrive(c)
        PROVE  \/ UNCHANGED request
               \/ \E u \in Users, r \in Requests : CreateRequest(c, u, r)
    BY <1>1 DEF Arrive, ClaimRead, StatusRead, CancelRead
  <1>2. ASSUME NEW c \in Calls, Resume(c) \/ Abort(c)
        PROVE  UNCHANGED request \/ ClaimCas(c) \/ StatusTx(c) \/ CancelTx(c)
    BY <1>2 DEF Resume, Abort, ClaimAudit, ClaimEvent, Fanout
  <1> QED
    BY <1>1, <1>2 DEF Next, AttachDocument, DetachDocument, JoinDepartment, vars

\* A row that exists keeps existing, with the same employee.
LEMMA RowsStay ==
    ASSUME TypeOK, [Next]_vars, NEW r \in Requests, Exists(r)
    PROVE  request'[r] # NoRow /\ request'[r].employee = request[r].employee
  <1> request[r] \in RequestRow
    BY RowOfRequest
  <1>1. CASE \E c \in Calls, u \in Users, q \in Requests : CreateRequest(c, u, q)
    BY <1>1 DEF CreateRequest, Exists, TypeOK
  <1>2. CASE \E c \in Calls : ClaimCas(c)
    BY <1>2 DEF ClaimCas, Exists, NoRow, RequestRow, TypeOK, Status
  <1>3. CASE \E c \in Calls : StatusTx(c)
    <2> PICK c \in Calls : StatusTx(c)
      BY <1>3
    <2> calls[c] \in Call
      BY BusyCall DEF StatusTx
    <2> QED
      BY DEF StatusTx, Exists, NoRow, RequestRow, TypeOK, Status, Call
  <1>4. CASE \E c \in Calls : CancelTx(c)
    BY <1>4 DEF CancelTx, Exists, NoRow, RequestRow, TypeOK, Status
  <1> QED
    BY <1>1, <1>2, <1>3, <1>4, RequestWriters DEF Exists

\* A step of one call leaves the others where they are.
LEMMA OtherCallsStay ==
    ASSUME TypeOK, NEW c \in Calls, NEW d \in Calls, d # c,
           Arrive(d) \/ Resume(d) \/ Abort(d)
    PROVE  calls'[c] = calls[c]
  BY DEF Arrive, CreateRequest, ClaimRead, StatusRead, CancelRead, Begin, Resume,
         ClaimCas, ClaimAudit, ClaimEvent, StatusTx, CancelTx, Fanout, Abort,
         Goto, GotoFanout, Finish, TypeOK

\* Calls start on requests that exist and stay with them.
LEMMA CallsHaveRowsStep ==
    ASSUME TypeOK, CallsHaveRows, [Next]_vars
    PROVE  CallsHaveRows'
  <1> SUFFICES ASSUME NEW c \in Calls, calls'[c] # NoCall
               PROVE  request'[calls'[c].request] # NoRow
    BY DEF CallsHaveRows, Exists
  <1>1. CASE Arrive(c)
    BY <1>1 DEF Arrive, CreateRequest, ClaimRead, StatusRead, CancelRead, Begin, Exists, NoRow, TypeOK
  <1>2. CASE calls[c] # NoCall /\ calls'[c].request = calls[c].request
    <2>1. calls[c].request \in Requests
      BY <1>2 DEF TypeOK, Call
    <2> QED
      BY <1>2, <2>1, RowsStay DEF CallsHaveRows, Exists
  <1>3. CASE calls'[c] = calls[c]
    BY <1>2, <1>3
  <1>4. ASSUME NEW d \in Calls, d # c, Arrive(d) \/ Resume(d) \/ Abort(d)
        PROVE  calls'[c] = calls[c]
    BY <1>4, OtherCallsStay
  <1>5. CASE Resume(c) \/ Abort(c)
    <2>1. calls[c] \in Call /\ calls[c] # NoCall
      BY <1>5, BusyCall DEF Resume, Abort, ClaimCas, ClaimAudit, ClaimEvent, StatusTx, CancelTx,
                            Fanout, Idle, NoCall, TypeOK
    <2>2. calls'[c].request = calls[c].request
      BY <1>5, <2>1 DEF Resume, Abort, ClaimCas, ClaimAudit, ClaimEvent, StatusTx, CancelTx,
                        Fanout, Goto, GotoFanout, Finish, TypeOK, Call
    <2> QED
      BY <1>2, <2>1, <2>2
  <1> QED
    BY <1>1, <1>3, <1>4, <1>5 DEF Next, AttachDocument, DetachDocument, JoinDepartment, vars

TypeInv == TypeOK /\ CallsHaveRows

\* The inductive step of the type invariant.
LEMMA TypeInvStep == TypeInv /\ [Next]_vars => TypeInv'
  <1> SUFFICES ASSUME TypeOK, CallsHaveRows, [Next]_vars
               PROVE  TypeOK'
    BY CallsHaveRowsStep DEF TypeInv
  <1>1. CASE \E c \in Calls : Arrive(c) \/ Resume(c) \/ Abort(c)
    BY <1>1, TypeArrive, TypeResume
  <1>2. CASE \E r \in Requests : AttachDocument(r) \/ DetachDocument(r)
    BY <1>2 DEF AttachDocument, DetachDocument, TypeOK
  <1>3. CASE \E u \in Users : JoinDepartment(u)
    BY <1>3 DEF JoinDepartment, TypeOK
  <1>4. CASE UNCHANGED vars
    BY <1>4 DEF vars, TypeOK
  <1> QED
    BY <1>1, <1>2, <1>3, <1>4 DEF Next

\* Every reachable state of the request API has the declared types, whatever
\* calls run together and wherever they break off.
THEOREM TypeCorrect == Spec => []TypeOK
  <1>1. Init => TypeInv
    BY TypeInit DEF TypeInv
  <1>2. TypeInv => TypeOK
    BY DEF TypeInv
  <1> QED
    BY <1>1, <1>2, TypeInvStep, PTL DEF Spec

----------------------------------------------------------------------------
(* The claimant of a request *)

\* What a step does to one row: nothing, or what one of the four writers does.
Creates(c, r) == /\ \E u \in Users : CreateRequest(c, u, r)
                 /\ ~Exists(r)
Claims(c, r) == /\ ClaimCas(c) /\ calls[c].request = r /\ Claimable(r)
                /\ request'[r] = [request[r] EXCEPT !.claimedBy = calls[c].user,
                                                    !.status = "IN_PROGRESS"]
Moves(c, r) == /\ StatusTx(c) /\ calls[c].request = r /\ request[r].status = calls[c].seen
               /\ request'[r] = [request[r] EXCEPT !.status = calls[c].to,
                                                   !.hasNote = @ \/ calls[c].note]
Cancels(c, r) == /\ CancelTx(c) /\ calls[c].request = r
                 /\ request'[r] = [request[r] EXCEPT !.status = "CANCELLED"]

\* Whatever a step does to a row: leave it, create it, claim it (ClaimCas),
\* move it as the table allows (StatusTx), or cancel it (CancelTx).
LEMMA RowStep ==
    ASSUME TypeInv, [Next]_vars, NEW r \in Requests
    PROVE  \/ request'[r] = request[r]
           \/ \E c \in Calls : \/ Creates(c, r)
                              \/ /\ calls[c] \in Call
                                 /\ Exists(r)
                                 /\ Claims(c, r) \/ Moves(c, r) \/ Cancels(c, r)
  <1>1. ASSUME NEW c \in Calls, NEW u \in Users, NEW q \in Requests, CreateRequest(c, u, q)
        PROVE  request'[r] = request[r] \/ Creates(c, r)
    BY <1>1 DEF CreateRequest, Creates, TypeInv, TypeOK
  <1>2. ASSUME NEW c \in Calls, ClaimCas(c) \/ StatusTx(c) \/ CancelTx(c)
        PROVE  /\ calls[c] \in Call /\ Exists(calls[c].request)
               /\ \/ request'[r] = request[r]
                  \/ Claims(c, r) \/ Moves(c, r) \/ Cancels(c, r)
    <2>1. calls[c].pc # "idle"
      BY <1>2 DEF ClaimCas, StatusTx, CancelTx
    <2>2. calls[c] \in Call /\ Exists(calls[c].request)
      BY <2>1, BusyCall DEF TypeInv, CallsHaveRows, NoCall
    <2>3. calls[c].request \in Requests
      BY <2>2 DEF Call
    <2>4. request[calls[c].request] \in RequestRow
      BY <2>2, <2>3, RowOfRequest DEF TypeInv
    <2>5. request'[r] = request[r] \/ calls[c].request = r
      BY <1>2, <2>3 DEF ClaimCas, StatusTx, CancelTx, TypeInv, TypeOK
    <2>6. CASE calls[c].request = r
      <3>1. CASE ClaimCas(c)
        BY <2>2, <2>3, <2>4, <2>6, <3>1 DEF ClaimCas, Claims, TypeInv, TypeOK, RequestRow
      <3>2. CASE StatusTx(c)
        BY <2>2, <2>3, <2>4, <2>6, <3>2
           DEF StatusTx, UnchangedSinceRead, Moves, TypeInv, TypeOK, RequestRow
      <3>3. CASE CancelTx(c)
        BY <2>2, <2>3, <2>4, <2>6, <3>3 DEF CancelTx, Cancels, TypeInv, TypeOK, RequestRow
      <3> QED
        BY <1>2, <3>1, <3>2, <3>3
    <2> QED
      BY <2>2, <2>5, <2>6
  <1>3. ASSUME NEW c \in Calls, ClaimCas(c) \/ StatusTx(c) \/ CancelTx(c)
        PROVE  \/ request'[r] = request[r]
               \/ /\ calls[c] \in Call
                  /\ Exists(r)
                  /\ Claims(c, r) \/ Moves(c, r) \/ Cancels(c, r)
    BY <1>2, <1>3 DEF Claims, Moves, Cancels
  <1> QED
    BY <1>1, <1>3, RequestWriters

\* The writers of the Request table other than ClaimCas keep claimedBy.
LEMMA ClaimantStep ==
    ASSUME TypeInv, [Next]_vars
    PROVE  ClaimantIsFixedStep
  <1> SUFFICES ASSUME NEW r \in Requests, Exists(r),
                      request'[r].claimedBy # request[r].claimedBy
               PROVE  /\ request[r].claimedBy = None
                      /\ request[r].status = "PENDING"
                      /\ request'[r].status = "IN_PROGRESS"
    BY DEF ClaimantIsFixedStep
  <1> request[r] \in RequestRow
    BY RowOfRequest DEF TypeInv
  <1>1. PICK c \in Calls : Claims(c, r) \/ Moves(c, r) \/ Cancels(c, r)
    BY RowStep DEF Creates
  <1>2. Claims(c, r)
    BY <1>1 DEF Moves, Cancels, RequestRow
  <1> QED
    BY <1>2 DEF Claims, Claimable, RequestRow

\* Claims are exclusive and final: of all the calls that race for a request
\* one sets its claimant, and nothing replaces it.
THEOREM ClaimIsExclusive == Spec => ClaimantIsFixed
  <1>1. Init => TypeInv
    BY TypeInit DEF TypeInv
  <1>2. TypeInv /\ [Next]_vars => [ClaimantIsFixedStep]_vars
    BY ClaimantStep
  <1> QED
    BY <1>1, <1>2, TypeInvStep, PTL DEF Spec, ClaimantIsFixed

----------------------------------------------------------------------------
(* What a call that is about to commit knows *)

\* The checks a call made before its commit, as far as they still hold when
\* it commits: a status update asked for a legal move from the status it
\* read, and a cancellation comes from the employee of the request.
CallsLegal ==
    \A c \in Calls :
        /\ calls[c].pc = "statusTx" => calls[c].to \in ValidTransitions[calls[c].seen]
        /\ calls[c].pc = "cancelTx" =>
               /\ calls[c].seen = "PENDING"
               /\ calls[c].user = request[calls[c].request].employee

CallInv == TypeInv /\ CallsLegal

\* No call is in progress at the start.
LEMMA CallInit == Init => CallInv
  BY TypeInit DEF Init, CallInv, TypeInv, CallsLegal, NoCall

\* Only the step that starts a call brings it to a commit of these two kinds.
LEMMA CallInvStep == CallInv /\ [Next]_vars => CallInv'
  <1> SUFFICES ASSUME TypeInv, CallsLegal, [Next]_vars, NEW c \in Calls,
                      calls'[c].pc \in {"statusTx", "cancelTx"}
               PROVE  /\ calls'[c].pc = "statusTx" =>
                             calls'[c].to \in ValidTransitions[calls'[c].seen]
                      /\ calls'[c].pc = "cancelTx" =>
                             /\ calls'[c].seen = "PENDING"
                             /\ calls'[c].user = request'[calls'[c].request].employee
    BY TypeInvStep DEF CallInv, CallsLegal
  <1>1. CASE Arrive(c)
    <2> PICK u \in Users, r \in Requests :
            \/ CreateRequest(c, u, r)
            \/ ClaimRead(c, u, r)
            \/ \E to \in Status, note \in BOOLEAN : StatusRead(c, u, r, to, note)
            \/ CancelRead(c, u, r)
      BY <1>1 DEF Arrive
    <2>1. CASE CreateRequest(c, u, r) \/ ClaimRead(c, u, r)
      BY <2>1 DEF CreateRequest, ClaimRead, Begin, TypeInv, TypeOK
    <2>2. CASE \E to \in Status, note \in BOOLEAN : StatusRead(c, u, r, to, note)
      BY <2>2 DEF StatusRead, Begin, TypeInv, TypeOK
    <2>3. CASE CancelRead(c, u, r)
      BY <2>3 DEF CancelRead, Begin, TypeInv, TypeOK
    <2> QED
      BY <2>1, <2>2, <2>3
  <1>2. CASE calls'[c] = calls[c]
    <2>1. calls[c] \in Call /\ Exists(calls[c].request)
      BY <1>2, BusyCall DEF TypeInv, CallsHaveRows, NoCall
    <2>2. request'[calls[c].request].employee = request[calls[c].request].employee
      BY <2>1, RowsStay DEF Call, TypeInv
    <2> QED
      BY <1>2, <2>1, <2>2 DEF CallsLegal
  <1>3. CASE Resume(c) \/ Abort(c)
    <2>1. calls'[c].pc \notin {"statusTx", "cancelTx"}
      BY <1>3 DEF Resume, Abort, ClaimCas, ClaimAudit, ClaimEvent, StatusTx, CancelTx, Fanout,
                  Goto, GotoFanout, Finish, NoCall, TypeInv, TypeOK, Call
    <2> QED
      BY <2>1
  <1>4. ASSUME NEW d \in Calls, d # c, Arrive(d) \/ Resume(d) \/ Abort(d)
        PROVE  calls'[c] = calls[c]
    BY <1>4, OtherCallsStay DEF TypeInv
  <1> QED
    BY <1>1, <1>2, <1>3, <1>4 DEF Next, AttachDocument, DetachDocument, JoinDepartment, vars

----------------------------------------------------------------------------
(* Transitions and their records *)

\* Audit rows and outbox rows are only added.
LEMMA RecordsGrow ==
    ASSUME [Next]_vars
    PROVE  auditLog \subseteq auditLog' /\ outbox \subseteq outbox'
  <1>1. ASSUME NEW c \in Calls, Arrive(c) \/ Resume(c) \/ Abort(c)
        PROVE  auditLog \subseteq auditLog' /\ outbox \subseteq outbox'
    BY <1>1 DEF Arrive, CreateRequest, ClaimRead, StatusRead, CancelRead, Resume, ClaimCas,
                ClaimAudit, ClaimEvent, StatusTx, CancelTx, Fanout, Abort, Log, Emit
  <1> QED
    BY <1>1 DEF Next, AttachDocument, DetachDocument, JoinDepartment, vars

\* A request that is on record stays so: the row, the audit row and the event
\* of every transition outside the claim commit together.
LEMMA RecordStep ==
    ASSUME CallInv, StatusIsOnRecord, [Next]_vars
    PROVE  StatusIsOnRecord'
  <1> SUFFICES ASSUME NEW r \in Requests, Exists(r)'
               PROVE  (/\ Created(r)
                       /\ request[r].status \in {"COMPLETED", "REJECTED"} =>
                              MovedTo(r, request[r].status)
                       /\ request[r].status = "CANCELLED" =>
                              MovedTo(r, "CANCELLED") \/ CancelledByEmployee(r))'
    BY DEF StatusIsOnRecord
  <1>1. CASE Exists(r)
    <2>1. request[r] \in RequestRow
      BY <1>1, RowOfRequest DEF CallInv, TypeInv
    <2>2. Created(r)'
      BY <1>1, RecordsGrow DEF StatusIsOnRecord, Created
    <2>3. \A to \in Status : MovedTo(r, to) => MovedTo(r, to)'
      BY RecordsGrow DEF MovedTo
    <2>4. request'[r].employee = request[r].employee
      BY <1>1, RowsStay DEF CallInv, TypeInv
    <2>5. CancelledByEmployee(r) => CancelledByEmployee(r)'
      BY <2>4, RecordsGrow DEF CancelledByEmployee
    <2>6. CASE request'[r].status = request[r].status
      BY <1>1, <2>1, <2>2, <2>3, <2>5, <2>6 DEF StatusIsOnRecord, RequestRow
    <2>7. ASSUME NEW c \in Calls, calls[c] \in Call, Claims(c, r)
          PROVE  request'[r].status = "IN_PROGRESS"
      BY <2>1, <2>7 DEF Claims, RequestRow
    <2>8. ASSUME NEW c \in Calls, calls[c] \in Call, Moves(c, r)
          PROVE  \E to \in Status : request'[r].status = to /\ MovedTo(r, to)'
      <3>1. request'[r].status = calls[c].to
        BY <2>1, <2>8 DEF Moves, RequestRow
      <3>2. calls[c].to \in ValidTransitions[calls[c].seen]
        BY <2>8 DEF Moves, StatusTx, CallInv, CallsLegal
      <3>3. /\ Audit(r, calls[c].user, "STATUS", calls[c].seen, calls[c].to) \in auditLog'
            /\ StatusKey(r, calls[c].seen, calls[c].to) \in outbox'
        BY <2>8 DEF Moves, StatusTx, UnchangedSinceRead, Log, Emit
      <3>4. /\ calls[c].user \in Users
            /\ calls[c].seen \in Status
            /\ calls[c].to \in Status
        BY <2>8 DEF Call
      <3> QED
        BY <3>1, <3>2, <3>3, <3>4 DEF MovedTo
    <2>9. ASSUME NEW c \in Calls, calls[c] \in Call, Cancels(c, r)
          PROVE  /\ request'[r].status = "CANCELLED"
                 /\ CancelledByEmployee(r)'
      <3>1. request'[r].status = "CANCELLED"
        BY <2>1, <2>9 DEF Cancels, RequestRow
      <3>2. calls[c].seen = "PENDING" /\ calls[c].user = request[r].employee
        BY <2>9 DEF Cancels, CancelTx, CallInv, CallsLegal
      <3> QED
        BY <2>4, <2>9, <3>1, <3>2 DEF Cancels, CancelTx, CancelledByEmployee, Log, Emit
    <2> QED
      BY <1>1, <2>2, <2>6, <2>7, <2>8, <2>9, RowStep DEF CallInv, Creates, Status, Call
  <1>2. CASE ~Exists(r)
    <2>1. PICK c \in Calls, u \in Users : CreateRequest(c, u, r)
      BY <1>2, RowStep DEF Exists, CallInv, Creates
    <2>2. request'[r].status = "PENDING"
      BY <2>1 DEF CreateRequest, CallInv, TypeInv, TypeOK
    <2>3. Created(r)'
      BY <2>1 DEF CreateRequest, Created, Log, Emit
    <2> QED
      BY <2>2, <2>3
  <1> QED
    BY <1>1, <1>2

\* Every request that exists has its creation on record, and every request in
\* a terminal status the audit row and the event of a legal move into it,
\* whatever races and wherever calls break off.
THEOREM TransitionsAreOnRecord == Spec => []StatusIsOnRecord
  <1>1. Init => CallInv /\ StatusIsOnRecord
    BY CallInit DEF Init, StatusIsOnRecord, Exists
  <1>2. CallInv /\ StatusIsOnRecord /\ [Next]_vars => (CallInv /\ StatusIsOnRecord)'
    BY CallInvStep, RecordStep
  <1> QED
    BY <1>1, <1>2, PTL DEF Spec

----------------------------------------------------------------------------
(* The rows implement RequestStates *)

\* A step writes at most one row.
LEMMA OneRowPerStep ==
    ASSUME TypeInv, [Next]_vars, ~UNCHANGED request
    PROVE  \E r \in Requests : \A q \in Requests \ {r} : request'[q] = request[q]
  <1>1. ASSUME NEW c \in Calls, NEW u \in Users, NEW r \in Requests, CreateRequest(c, u, r)
        PROVE  \A q \in Requests \ {r} : request'[q] = request[q]
    BY <1>1 DEF CreateRequest, TypeInv, TypeOK
  <1>2. ASSUME NEW c \in Calls, ClaimCas(c) \/ StatusTx(c) \/ CancelTx(c)
        PROVE  /\ calls[c].request \in Requests
               /\ \A q \in Requests \ {calls[c].request} : request'[q] = request[q]
    <2>1. calls[c].pc # "idle"
      BY <1>2 DEF ClaimCas, StatusTx, CancelTx
    <2>2. calls[c].request \in Requests
      BY <2>1, BusyCall DEF TypeInv, Call
    <2> QED
      BY <1>2, <2>2 DEF ClaimCas, StatusTx, CancelTx, TypeInv, TypeOK
  <1> QED
    BY <1>1, <1>2, RequestWriters

\* Each writer of the Request table is an action of RequestStates.
LEMMA RefinementStep ==
    ASSUME CallInv, [Next]_vars
    PROVE  States!Next \/ UNCHANGED <<[r \in Requests |-> request[r].status],
                                     [r \in Requests |-> request[r].claimedBy]>>
  <1> DEFINE st == [r \in Requests |-> request[r].status]
             cl == [r \in Requests |-> request[r].claimedBy]
  <1> SUFFICES ASSUME NEW r \in Requests,
                      \A q \in Requests \ {r} : request'[q] = request[q],
                      request'[r] # request[r]
               PROVE  States!Next
    <2>1. CASE UNCHANGED request
      BY <2>1
    <2>2. CASE ~UNCHANGED request
      <3> PICK r \in Requests : \A q \in Requests \ {r} : request'[q] = request[q]
        BY <2>2, OneRowPerStep DEF CallInv
      <3> CASE request'[r] = request[r]
        <4>1. \A q \in Requests : request'[q] = request[q]
          OBVIOUS
        <4> QED
          BY <4>1
      <3> QED
        OBVIOUS
    <2> QED
      BY <2>1, <2>2
  <1>1. ASSUME NEW to, request'[r].status = to
        PROVE  st' = [st EXCEPT ![r] = to]
    <2>1. \A q \in Requests : request'[q].status = IF q = r THEN to ELSE request[q].status
      BY <1>1
    <2> QED
      BY <2>1
  <1>2. ASSUME NEW u, request'[r].claimedBy = u
        PROVE  cl' = [cl EXCEPT ![r] = u]
    <2>1. \A q \in Requests :
              request'[q].claimedBy = IF q = r THEN u ELSE request[q].claimedBy
      BY <1>2
    <2> QED
      BY <2>1
  <1>3. ASSUME request'[r].claimedBy = request[r].claimedBy
        PROVE  cl' = cl
    BY <1>3
  <1>4. PICK c \in Calls : \/ Creates(c, r)
                          \/ /\ calls[c] \in Call
                             /\ Exists(r)
                             /\ Claims(c, r) \/ Moves(c, r) \/ Cancels(c, r)
    BY RowStep DEF CallInv
  <1>5. CASE Creates(c, r)
    <2>1. request[r] = NoRow
      BY <1>5 DEF Creates, Exists
    <2>2. request'[r].status = "PENDING" /\ request'[r].claimedBy = None
      BY <1>5 DEF Creates, CreateRequest, CallInv, TypeInv, TypeOK
    <2>3. States!Open(r)
      BY <1>1, <1>3, <2>1, <2>2 DEF States!Open, States!Move, NoRow
    <2> QED
      BY <2>3 DEF States!Next
  <1>6. CASE Exists(r)
    <2>1. request[r] \in RequestRow
      BY <1>6, RowOfRequest DEF CallInv, TypeInv
    <2>2. CASE Claims(c, r) /\ calls[c] \in Call
      <3>1. PICK u \in Users : u = calls[c].user
        BY <2>2 DEF Call
      <3>2. /\ request[r].status = "PENDING" /\ request[r].claimedBy = None
            /\ request'[r].status = "IN_PROGRESS"
            /\ request'[r].claimedBy = u
        BY <2>1, <2>2, <3>1 DEF Claims, Claimable, RequestRow
      <3>3. States!Claim(r, u)
        BY <1>1, <1>2, <3>2 DEF States!Claim, States!Move
      <3> QED
        BY <3>3 DEF States!Next
    <2>3. CASE Moves(c, r) /\ calls[c] \in Call
      <3>1. calls[c].to \in ValidTransitions[request[r].status]
        BY <2>3 DEF Moves, StatusTx, CallInv, CallsLegal
      <3>2. /\ request'[r].status = calls[c].to
            /\ request'[r].claimedBy = request[r].claimedBy
        BY <2>1, <2>3 DEF Moves, RequestRow
      <3>3. \/ request[r].status = "PENDING" /\ calls[c].to \in {"IN_PROGRESS", "CANCELLED", "REJECTED"}
            \/ request[r].status = "IN_PROGRESS" /\ calls[c].to \in {"COMPLETED", "REJECTED"}
        BY <2>1, <3>1, TransitionTable DEF RequestRow, Status, Terminal
      <3>4. States!Start(r) \/ States!Complete(r) \/ States!Reject(r) \/ States!Withdraw(r)
        BY <1>1, <1>3, <3>2, <3>3
           DEF States!Start, States!Complete, States!Reject, States!Withdraw, States!Move
      <3> QED
        BY <3>4 DEF States!Next
    <2>4. CASE Cancels(c, r)
      <3>1. /\ request[r].status # "absent"
            /\ request'[r].status = "CANCELLED"
            /\ request'[r].claimedBy = request[r].claimedBy
        BY <2>1, <2>4 DEF Cancels, RequestRow, Status
      <3>2. States!Withdraw(r)
        BY <1>1, <1>3, <3>1 DEF States!Withdraw
      <3> QED
        BY <3>2 DEF States!Next
    <2> QED
      BY <1>4, <1>6, <2>2, <2>3, <2>4 DEF Creates
  <1> QED
    BY <1>4, <1>5, <1>6

\* The API implements the promise of RequestStates.
THEOREM ImplementsRequestStates == Spec => StatesSpec
  <1>1. Init => CallInv
    BY CallInit
  <1>2. Init => States!Init
    BY DEF Init, States!Init, NoRow
  <1>3. CallInv /\ [Next]_vars =>
            [States!Next]_<<[r \in Requests |-> request[r].status],
                            [r \in Requests |-> request[r].claimedBy]>>
    BY RefinementStep
  <1> QED
    BY <1>1, <1>2, <1>3, CallInvStep, PTL DEF Spec, StatesSpec, States!Spec

----------------------------------------------------------------------------
(* Histories do not fork *)

\* A status is left for good once its STATUS row is written, and a request
\* with a claimant was neither left PENDING nor moved out of it by an update.
LeftForGood ==
    \A a \in auditLog : a.action = "STATUS" =>
        /\ a.old \in {"PENDING", "IN_PROGRESS"}
        /\ request[a.request].status \notin {a.old, "PENDING", "absent"}

OneMovePerStatus ==
    \A a, b \in auditLog :
        a.request = b.request /\ a.action = "STATUS" /\ b.action = "STATUS" /\ a.old = b.old
            => a = b

StartedByClaim ==
    \A r \in Requests : Exists(r) /\ request[r].claimedBy # None =>
        /\ request[r].status # "PENDING"
        /\ \A a \in auditLog :
               ~(a.request = r /\ a.action = "STATUS" /\ a.old = "PENDING")

HistoryInv == CallInv /\ LeftForGood /\ OneMovePerStatus /\ StartedByClaim

\* What a step does to the audit log.
LEMMA LogStep ==
    ASSUME TypeInv, [Next]_vars
    PROVE  \/ UNCHANGED auditLog
           \/ \E c \in Calls, u \in Users, r \in Requests :
                  /\ CreateRequest(c, u, r)
                  /\ auditLog' = auditLog \cup {Audit(r, u, "REQUEST_CREATED", None, None)}
           \/ \E c \in Calls :
                  LET k == calls[c] IN
                  /\ k \in Call
                  /\ \/ /\ ClaimAudit(c)
                        /\ auditLog' = auditLog \cup
                               {Audit(k.request, k.user, "REQUEST_CLAIMED", None, None)}
                     \/ /\ StatusTx(c) /\ UnchangedSinceRead(k)
                        /\ auditLog' = auditLog \cup
                               {Audit(k.request, k.user, "STATUS", k.seen, k.to)}
                     \/ /\ CancelTx(c)
                        /\ auditLog' = auditLog \cup
                               {Audit(k.request, k.user, "REQUEST_CANCELLED", k.seen, "CANCELLED")}
  <1>1. ASSUME NEW c \in Calls, Arrive(c)
        PROVE  \/ UNCHANGED auditLog
               \/ \E u \in Users, r \in Requests :
                      /\ CreateRequest(c, u, r)
                      /\ auditLog' = auditLog \cup {Audit(r, u, "REQUEST_CREATED", None, None)}
    BY <1>1 DEF Arrive, CreateRequest, ClaimRead, StatusRead, CancelRead, Log
  <1>2. ASSUME NEW c \in Calls, ClaimAudit(c) \/ StatusTx(c) \/ CancelTx(c)
        PROVE  calls[c] \in Call
    BY <1>2, BusyCall DEF ClaimAudit, StatusTx, CancelTx, TypeInv
  <1>3. ASSUME NEW c \in Calls, Resume(c) \/ Abort(c)
        PROVE  \/ UNCHANGED auditLog
               \/ ClaimAudit(c) \/ (StatusTx(c) /\ UnchangedSinceRead(calls[c])) \/ CancelTx(c)
    BY <1>3 DEF Resume, Abort, ClaimCas, ClaimEvent, StatusTx, Fanout
  <1> QED
    BY <1>1, <1>2, <1>3
       DEF Next, AttachDocument, DetachDocument, JoinDepartment, vars, ClaimAudit, StatusTx,
           CancelTx, Log

\* No step brings a request back to a status it has left.
LEMMA NoWayBack ==
    ASSUME CallInv, [Next]_vars, NEW r \in Requests, NEW s \in {"PENDING", "IN_PROGRESS"},
           request[r].status \notin {s, "PENDING", "absent"}
    PROVE  request'[r].status \notin {s, "PENDING", "absent"}
  <1>1. Exists(r) /\ request[r] \in RequestRow
    BY RowOfRequest DEF Exists, NoRow, CallInv, TypeInv
  <1>2. ASSUME NEW c \in Calls, calls[c] \in Call, Moves(c, r)
        PROVE  request'[r].status \notin {s, "PENDING", "absent"}
    <2>1. calls[c].to \in ValidTransitions[request[r].status]
      BY <1>2 DEF Moves, StatusTx, CallInv, CallsLegal
    <2>2. request'[r].status = calls[c].to
      BY <1>1, <1>2 DEF Moves, RequestRow
    <2> QED
      BY <1>1, <2>1, <2>2, TransitionTable DEF RequestRow, Status, Terminal
  <1>3. ASSUME NEW c \in Calls, Claims(c, r)
        PROVE  FALSE
    BY <1>3 DEF Claims, Claimable
  <1>4. ASSUME NEW c \in Calls, Cancels(c, r)
        PROVE  request'[r].status = "CANCELLED"
    BY <1>1, <1>4 DEF Cancels, RequestRow
  <1> QED
    BY <1>1, <1>2, <1>3, <1>4, RowStep DEF CallInv, Creates

\* A status update that commits has left the status its row names.
LEMMA MovedOn ==
    ASSUME CallInv, [Next]_vars, NEW c \in Calls, calls[c] \in Call,
           StatusTx(c), UnchangedSinceRead(calls[c])
    PROVE  /\ calls[c].seen \in {"PENDING", "IN_PROGRESS"}
           /\ request[calls[c].request].status = calls[c].seen
           /\ request'[calls[c].request].status \notin {calls[c].seen, "PENDING", "absent"}
           /\ request'[calls[c].request].claimedBy = request[calls[c].request].claimedBy
  <1>1. calls[c].request \in Requests /\ calls[c].seen \in Status
    BY DEF Call
  <1>2. calls[c].to \in ValidTransitions[calls[c].seen]
    BY DEF StatusTx, CallInv, CallsLegal
  <1>3. request[calls[c].request] \in RequestRow
    BY <1>1, RowOfRequest DEF StatusTx, CallInv, TypeInv, CallsHaveRows, NoCall
  <1>4. /\ request'[calls[c].request].status = calls[c].to
        /\ request'[calls[c].request].claimedBy = request[calls[c].request].claimedBy
    BY <1>1, <1>3 DEF StatusTx, CallInv, TypeInv, TypeOK, RequestRow
  <1> QED
    BY <1>1, <1>2, <1>4, TransitionTable DEF UnchangedSinceRead, Status, Terminal

\* The STATUS rows after a step: those there were and the one of the update
\* that committed.
LEMMA StatusRows ==
    ASSUME TypeInv, [Next]_vars, NEW a \in auditLog', a.action = "STATUS", a \notin auditLog
    PROVE  \E c \in Calls :
               LET k == calls[c] IN
               /\ k \in Call /\ StatusTx(c) /\ UnchangedSinceRead(k)
               /\ a = Audit(k.request, k.user, "STATUS", k.seen, k.to)
               /\ auditLog' = auditLog \cup {a}
  BY LogStep DEF Audit

\* No step forks a history: the guard of StatusTx and the conditional update
\* of ClaimCas let one call leave a status.
LEMMA HistoryStep == HistoryInv /\ [Next]_vars => HistoryInv'
  <1> SUFFICES ASSUME HistoryInv, [Next]_vars
               PROVE  LeftForGood' /\ OneMovePerStatus' /\ StartedByClaim'
    BY CallInvStep DEF HistoryInv
  <1> USE DEF HistoryInv
  <1>0. CallInv /\ TypeInv /\ TypeOK /\ TypeOK'
    BY TypeInvStep DEF CallInv, TypeInv
  <1>1. ASSUME NEW a \in auditLog', a.action = "STATUS"
        PROVE  /\ a.old \in {"PENDING", "IN_PROGRESS"}
               /\ request'[a.request].status \notin {a.old, "PENDING", "absent"}
    <2>1. CASE a \in auditLog
      <3>1. a.request \in Requests
        BY <1>0, <2>1 DEF TypeOK, AuditRow
      <3> QED
        BY <1>0, <1>1, <2>1, <3>1, NoWayBack DEF LeftForGood
    <2>2. CASE a \notin auditLog
      BY <1>0, <1>1, <2>2, StatusRows, MovedOn DEF Audit
    <2> QED
      BY <2>1, <2>2
  <1>2. ASSUME NEW a \in auditLog', NEW b \in auditLog',
               a.request = b.request, a.action = "STATUS", b.action = "STATUS", a.old = b.old
        PROVE  a = b
    <2>1. ASSUME NEW x \in auditLog', NEW y \in auditLog, x \notin auditLog,
                 x.request = y.request, x.action = "STATUS", y.action = "STATUS", x.old = y.old
          PROVE  FALSE
      <3> PICK c \in Calls :
              /\ calls[c] \in Call /\ StatusTx(c) /\ UnchangedSinceRead(calls[c])
              /\ x = Audit(calls[c].request, calls[c].user, "STATUS", calls[c].seen, calls[c].to)
        BY <1>0, <2>1, StatusRows
      <3> QED
        BY <1>0, <2>1, MovedOn DEF LeftForGood, Audit
    <2>2. CASE a \in auditLog /\ b \in auditLog
      BY <1>2, <2>2 DEF OneMovePerStatus
    <2>3. CASE a \notin auditLog /\ b \notin auditLog
      BY <1>0, <1>2, <2>3, StatusRows
    <2> QED
      BY <1>2, <2>1, <2>2, <2>3
  <1>3. ASSUME NEW r \in Requests, Exists(r)', request'[r].claimedBy # None
        PROVE  /\ request'[r].status # "PENDING"
               /\ \A a \in auditLog' :
                      ~(a.request = r /\ a.action = "STATUS" /\ a.old = "PENDING")
    <2>1. Exists(r) /\ request[r] \in RequestRow
      <3>1. ASSUME NEW c \in Calls, Creates(c, r)
            PROVE  FALSE
        BY <1>0, <1>3, <3>1 DEF Creates, CreateRequest, TypeOK
      <3> QED
        BY <1>0, <1>3, <3>1, RowStep, RowOfRequest DEF Exists
    <2>2. CASE request[r].claimedBy = None
      <3>1. request[r].status = "PENDING" /\ request'[r].status = "IN_PROGRESS"
        BY <1>0, <1>3, <2>1, <2>2, ClaimantStep DEF ClaimantIsFixedStep
      <3>2. \A a \in auditLog : ~(a.request = r /\ a.action = "STATUS")
        BY <3>1 DEF LeftForGood
      <3>3. PICK c \in Calls : ClaimCas(c)
        <4>1. request'[r] # request[r]
          BY <3>1
        <4>2. ASSUME NEW c \in Calls, Moves(c, r) \/ Cancels(c, r) \/ Creates(c, r)
              PROVE  FALSE
          BY <1>3, <2>1, <2>2, <4>2 DEF Moves, Cancels, Creates, RequestRow
        <4> QED
          BY <1>0, <4>1, <4>2, RowStep DEF Claims
      <3>4. auditLog' = auditLog
        BY <3>3 DEF ClaimCas
      <3> QED
        BY <3>1, <3>2, <3>4
    <2>3. CASE request[r].claimedBy # None
      <3>1. /\ request[r].status # "PENDING"
            /\ \A a \in auditLog :
                   ~(a.request = r /\ a.action = "STATUS" /\ a.old = "PENDING")
        BY <2>1, <2>3 DEF StartedByClaim
      <3>2. request'[r].status # "PENDING"
        BY <1>0, <2>1, <3>1, NoWayBack DEF RequestRow, Status
      <3>3. ASSUME NEW a \in auditLog', a.request = r, a.action = "STATUS", a.old = "PENDING"
            PROVE  FALSE
        BY <1>0, <3>1, <3>3, StatusRows, MovedOn DEF Audit
      <3> QED
        BY <3>2, <3>3
    <2> QED
      BY <2>2, <2>3
  <1> QED
    BY <1>1, <1>2, <1>3 DEF LeftForGood, OneMovePerStatus, StartedByClaim

----------------------------------------------------------------------------
(* The trail of a claim *)

\* The call that won a request and still has to write its audit row or its
\* event is the only one of that request, and the row names its user.
Winner(c) == calls[c].pc \in {"claimAudit", "claimEvent"}

WinnerHoldsRequest ==
    /\ \A c \in Calls : Winner(c) =>
           /\ request[calls[c].request].claimedBy = calls[c].user
           /\ ClaimedKey(calls[c].request, calls[c].user) \notin outbox
           /\ calls[c].pc = "claimEvent" =>
                  Audit(calls[c].request, calls[c].user, "REQUEST_CLAIMED", None, None) \in auditLog
    /\ \A c, d \in Calls :
           Winner(c) /\ Winner(d) /\ calls[c].request = calls[d].request => c = d

ClaimInv == TypeInv /\ ClaimTrailNamesClaimant /\ WinnerHoldsRequest

\* Who is a winner after a step: a call that was one, or the call whose
\* conditional update took an unclaimed request.
LEMMA WinnerStep ==
    ASSUME TypeInv, [Next]_vars, NEW c \in Calls, Winner(c)'
    PROVE  /\ calls[c] \in Call
           /\ calls'[c].user = calls[c].user /\ calls'[c].request = calls[c].request
           /\ \/ Winner(c) /\ calls'[c].pc = calls[c].pc
              \/ calls[c].pc = "claimAudit" /\ calls'[c].pc = "claimEvent" /\ ClaimAudit(c)
              \/ /\ ~Winner(c) /\ calls'[c].pc = "claimAudit"
                 /\ ClaimCas(c) /\ Claims(c, calls[c].request)
  <1>1. CASE calls'[c] = calls[c]
    BY <1>1, BusyCall DEF Winner, TypeInv
  <1>2. CASE Arrive(c)
    BY <1>2 DEF Arrive, CreateRequest, ClaimRead, StatusRead, CancelRead, Begin, Winner,
                TypeInv, TypeOK
  <1>3. CASE ClaimCas(c)
    <2>1. calls[c] \in Call /\ Exists(calls[c].request)
      BY <1>3, BusyCall DEF ClaimCas, TypeInv, CallsHaveRows, NoCall
    <2>2. request[calls[c].request] \in RequestRow
      BY <2>1, RowOfRequest DEF TypeInv, Call
    <2>3. Claimable(calls[c].request)
      BY <1>3, <2>1 DEF ClaimCas, Finish, Winner, NoCall, TypeInv, TypeOK
    <2>4. calls' = [calls EXCEPT ![c].pc = "claimAudit"]
      BY <1>3, <2>3 DEF ClaimCas, Goto
    <2>5. Claims(c, calls[c].request)
      BY <1>3, <2>1, <2>2, <2>3 DEF ClaimCas, Claims, TypeInv, TypeOK, RequestRow, Call
    <2> QED
      BY <1>3, <2>1, <2>4, <2>5 DEF ClaimCas, Winner, TypeInv, TypeOK, Call
  <1>4. CASE ClaimAudit(c)
    <2>1. calls[c] \in Call
      BY <1>4, BusyCall DEF ClaimAudit, TypeInv
    <2> QED
      BY <1>4, <2>1 DEF ClaimAudit, Goto, Winner, TypeInv, TypeOK, Call
  <1>5. CASE ClaimEvent(c) \/ StatusTx(c) \/ CancelTx(c) \/ Fanout(c) \/ Abort(c)
    <2>1. calls[c] \in Call \cup {NoCall}
      BY DEF TypeInv, TypeOK
    <2> QED
      BY <1>5, <2>1 DEF ClaimEvent, StatusTx, CancelTx, Fanout, Abort, GotoFanout, Finish,
                        Winner, NoCall, TypeInv, TypeOK, Call
  <1>6. ASSUME NEW d \in Calls, d # c, Arrive(d) \/ Resume(d) \/ Abort(d)
        PROVE  calls'[c] = calls[c]
    BY <1>6, OtherCallsStay DEF TypeInv
  <1> QED
    BY <1>1, <1>2, <1>3, <1>4, <1>5, <1>6
       DEF Next, Resume, AttachDocument, DetachDocument, JoinDepartment, vars

\* The events of a claim that a step adds come from the call that won.
LEMMA ClaimedKeyStep ==
    ASSUME TypeInv, [Next]_vars, NEW k \in outbox', k.event = "claimed", k \notin outbox
    PROVE  \E c \in Calls : /\ calls[c] \in Call /\ ClaimEvent(c)
                             /\ k = ClaimedKey(calls[c].request, calls[c].user)
                             /\ ~Winner(c)'
  <1>1. ASSUME NEW c \in Calls, Arrive(c)
        PROVE  FALSE
    <2>1. PICK u \in Users, r \in Requests : CreateRequest(c, u, r)
      BY <1>1 DEF Arrive, ClaimRead, StatusRead, CancelRead
    <2>2. k = CreatedKey(r)
      BY <2>1 DEF CreateRequest, Emit
    <2> QED
      BY <2>2 DEF CreatedKey
  <1>2. ASSUME NEW c \in Calls, Resume(c) \/ Abort(c)
        PROVE  ClaimEvent(c)
    BY <1>2 DEF Resume, Abort, ClaimCas, ClaimAudit, StatusTx, CancelTx, Fanout, Emit,
                StatusKey, CancelledKey
  <1>3. PICK c \in Calls : ClaimEvent(c)
    BY <1>1, <1>2 DEF Next, AttachDocument, DetachDocument, JoinDepartment, vars
  <1>4. calls[c] \in Call
    BY <1>3, BusyCall DEF ClaimEvent, TypeInv
  <1>5. k = ClaimedKey(calls[c].request, calls[c].user)
    BY <1>3 DEF ClaimEvent
  <1>6. ~Winner(c)'
    BY <1>3, <1>4 DEF ClaimEvent, Winner, GotoFanout, Finish, NoCall, TypeInv, TypeOK, Call
  <1> QED
    BY <1>3, <1>4, <1>5, <1>6

\* No step lets a second call believe it won a claim, or write a claim's audit
\* row or event for anyone but the claimant.
LEMMA ClaimInvStep == ClaimInv /\ [Next]_vars => ClaimInv'
  <1> SUFFICES ASSUME ClaimInv, [Next]_vars
               PROVE  ClaimTrailNamesClaimant' /\ WinnerHoldsRequest'
    BY TypeInvStep DEF ClaimInv
  <1>0. TypeInv /\ TypeOK /\ TypeOK'
    BY TypeInvStep DEF ClaimInv, TypeInv
  <1>1. ASSUME NEW r \in Requests, Exists(r), request[r].claimedBy # None
        PROVE  request'[r].claimedBy = request[r].claimedBy
    BY <1>0, <1>1, ClaimantStep DEF ClaimantIsFixedStep
  <1>2. ASSUME NEW a \in auditLog', a.action = "REQUEST_CLAIMED"
        PROVE  request'[a.request].claimedBy = a.actor
    <2>1. CASE a \in auditLog
      <3>1. /\ a.request \in Requests /\ a.actor \in Users
            /\ request[a.request].claimedBy = a.actor
        BY <1>0, <1>2, <2>1 DEF ClaimInv, ClaimTrailNamesClaimant, TypeOK, AuditRow
      <3>2. Exists(a.request) /\ a.actor # None
        BY <3>1 DEF Exists, NoRow, LifecycleAssumption
      <3> QED
        BY <1>1, <3>1, <3>2
    <2>2. CASE a \notin auditLog
      <3>1. PICK c \in Calls :
                /\ calls[c] \in Call /\ ClaimAudit(c)
                /\ a = Audit(calls[c].request, calls[c].user, "REQUEST_CLAIMED", None, None)
        BY <1>0, <1>2, <2>2, LogStep DEF Audit
      <3>2. request[calls[c].request].claimedBy = calls[c].user
        BY <3>1 DEF ClaimAudit, Winner, ClaimInv, WinnerHoldsRequest
      <3>3. request' = request
        BY <3>1 DEF ClaimAudit
      <3> QED
        BY <3>1, <3>2, <3>3 DEF Audit
    <2> QED
      BY <2>1, <2>2
  <1>3. ASSUME NEW k \in outbox', k.event = "claimed"
        PROVE  Audit(k.request, k.by, "REQUEST_CLAIMED", None, None) \in auditLog'
    <2>1. CASE k \in outbox
      BY <1>3, <2>1, RecordsGrow DEF ClaimInv, ClaimTrailNamesClaimant
    <2>2. CASE k \notin outbox
      <3>1. PICK c \in Calls : /\ calls[c] \in Call /\ ClaimEvent(c)
                              /\ k = ClaimedKey(calls[c].request, calls[c].user)
        BY <1>0, <1>3, <2>2, ClaimedKeyStep
      <3>2. Audit(calls[c].request, calls[c].user, "REQUEST_CLAIMED", None, None) \in auditLog
        BY <3>1 DEF ClaimEvent, Winner, ClaimInv, WinnerHoldsRequest
      <3> QED
        BY <3>1, <3>2, RecordsGrow DEF ClaimedKey
    <2> QED
      BY <2>1, <2>2
  <1>4. ASSUME NEW c \in Calls, Winner(c)'
        PROVE  /\ request'[calls'[c].request].claimedBy = calls'[c].user
               /\ ClaimedKey(calls'[c].request, calls'[c].user) \notin outbox'
               /\ calls'[c].pc = "claimEvent" =>
                      Audit(calls'[c].request, calls'[c].user, "REQUEST_CLAIMED", None, None)
                          \in auditLog'
    <2> DEFINE r == calls[c].request
               u == calls[c].user
    <2>1. /\ calls[c] \in Call /\ r \in Requests /\ u \in Users /\ u # None
          /\ calls'[c].user = u /\ calls'[c].request = r
      BY <1>0, <1>4, WinnerStep DEF Call, LifecycleAssumption
    <2>2. ClaimedKey(r, u) \notin outbox
      <3>1. CASE Winner(c)
        BY <3>1 DEF ClaimInv, WinnerHoldsRequest
      <3>2. CASE Claims(c, r)
        <4>1. request[r].claimedBy = None
          BY <3>2 DEF Claims, Claimable
        <4>2. Audit(r, u, "REQUEST_CLAIMED", None, None) \notin auditLog
          BY <2>1, <4>1 DEF ClaimInv, ClaimTrailNamesClaimant, Audit
        <4> QED
          BY <4>2 DEF ClaimInv, ClaimTrailNamesClaimant, ClaimedKey
      <3> QED
        BY <1>0, <1>4, <3>1, <3>2, WinnerStep DEF Winner
    <2>3. request'[r].claimedBy = u
      <3>1. CASE Winner(c)
        <4>1. request[r].claimedBy = u
          BY <3>1 DEF ClaimInv, WinnerHoldsRequest
        <4>2. Exists(r)
          BY <2>1, <4>1 DEF Exists, NoRow
        <4> QED
          BY <1>1, <2>1, <4>1, <4>2
      <3>2. CASE Claims(c, r)
        <4>1. request[r] \in RequestRow
          BY <1>0, <2>1, <3>2 DEF Claims, Claimable, TypeOK, NoRow
        <4> QED
          BY <2>1, <3>2, <4>1 DEF Claims, RequestRow
      <3> QED
        BY <1>0, <1>4, <3>1, <3>2, WinnerStep DEF Winner
    <2>4. ClaimedKey(r, u) \notin outbox'
      <3> SUFFICES ASSUME ClaimedKey(r, u) \in outbox'
                   PROVE  FALSE
        OBVIOUS
      <3>1. PICK d \in Calls : /\ calls[d] \in Call /\ ClaimEvent(d)
                              /\ ClaimedKey(r, u) = ClaimedKey(calls[d].request, calls[d].user)
                              /\ ~Winner(d)'
        BY <1>0, <2>2, ClaimedKeyStep DEF ClaimedKey
      <3>2. calls[d].request = r /\ Winner(d)
        BY <3>1 DEF ClaimedKey, ClaimEvent, Winner
      <3>3. d # c
        BY <1>4, <3>1
      <3>4. ~Winner(c)
        BY <3>2, <3>3 DEF ClaimInv, WinnerHoldsRequest
      <3>5. request[r].claimedBy = None
        BY <1>0, <1>4, <3>4, WinnerStep DEF Winner, Claims, Claimable
      <3> QED
        BY <2>1, <3>1, <3>2, <3>5 DEF ClaimInv, WinnerHoldsRequest, Call, LifecycleAssumption
    <2>5. ASSUME calls'[c].pc = "claimEvent"
          PROVE  Audit(r, u, "REQUEST_CLAIMED", None, None) \in auditLog'
      <3>1. CASE ClaimAudit(c)
        BY <3>1 DEF ClaimAudit, Log
      <3>2. CASE Winner(c) /\ calls[c].pc = "claimEvent"
        BY <3>2, RecordsGrow DEF ClaimInv, WinnerHoldsRequest
      <3> QED
        BY <1>0, <1>4, <2>5, <3>1, <3>2, WinnerStep
    <2> QED
      BY <2>1, <2>3, <2>4, <2>5
  <1>5. ASSUME NEW c \in Calls, NEW d \in Calls, Winner(c)', Winner(d)', c # d,
               calls'[c].request = calls'[d].request
        PROVE  FALSE
    <2> DEFINE r == calls[c].request
    <2>1. /\ calls[c] \in Call /\ calls[d] \in Call /\ calls[d].request = r /\ r \in Requests
      BY <1>0, <1>5, WinnerStep DEF Call
    <2>2. ASSUME NEW x \in Calls, NEW y \in Calls, x # y, Winner(x)', Winner(y)', ~Winner(x),
                 calls[x].request = r, calls[y].request = r
          PROVE  FALSE
      <3>1. ClaimCas(x) /\ Claims(x, r)
        BY <1>0, <2>2, WinnerStep DEF Winner
      <3>2. request[r].claimedBy = None
        BY <3>1 DEF Claims, Claimable
      <3>3. ~Winner(y)
        BY <1>0, <2>2, <3>2, WinnerStep
           DEF ClaimInv, WinnerHoldsRequest, Call, LifecycleAssumption
      <3>4. calls'[y] = calls[y]
        BY <1>0, <2>2, <3>1, OtherCallsStay DEF Resume
      <3> QED
        BY <2>2, <3>3, <3>4 DEF Winner
    <2> QED
      BY <1>5, <2>1, <2>2 DEF ClaimInv, WinnerHoldsRequest
  <1> QED
    BY <1>2, <1>3, <1>4, <1>5 DEF ClaimTrailNamesClaimant, WinnerHoldsRequest, Winner

\* There is no audit row and no event at the start.
LEMMA ClaimInit == Init => ClaimInv /\ HistoryInv
  BY CallInit DEF Init, ClaimInv, CallInv, ClaimTrailNamesClaimant, WinnerHoldsRequest, Winner,
                  NoCall, HistoryInv, LeftForGood, OneMovePerStatus, StartedByClaim, Exists

\* Only the agent whose claim won has a claim on record, and its event never
\* precedes its audit row.
THEOREM ClaimTrailIsTheClaimants == Spec => []ClaimTrailNamesClaimant
  <1>1. ClaimInv => ClaimTrailNamesClaimant
    BY DEF ClaimInv
  <1> QED
    BY <1>1, ClaimInit, ClaimInvStep, PTL DEF Spec

\* The plain create of a claim's event never meets an existing key.
THEOREM ClaimEventNeverCollides == Spec => []ClaimEventIsNew
  <1>1. ClaimInv => ClaimEventIsNew
    BY DEF ClaimInv, WinnerHoldsRequest, Winner, ClaimEventIsNew
  <1> QED
    BY <1>1, ClaimInit, ClaimInvStep, PTL DEF Spec

\* Of the updates and claims that read the same status of a request at most
\* one commits.
THEOREM HistoriesDoNotFork == Spec => []NoForkedHistory
  <1>1. HistoryInv /\ ClaimInv => NoForkedHistory
    <2> SUFFICES ASSUME HistoryInv, ClaimInv, NEW a \in auditLog, NEW b \in auditLog,
                        a.request = b.request, a.action = "REQUEST_CLAIMED",
                        b.action = "STATUS", b.old = "PENDING"
                 PROVE  FALSE
      BY DEF NoForkedHistory, HistoryInv, OneMovePerStatus
    <2>1. a.request \in Requests /\ a.actor \in Users
      BY DEF ClaimInv, TypeInv, TypeOK, AuditRow
    <2>2. request[a.request].claimedBy = a.actor /\ a.actor # None
      BY <2>1 DEF ClaimInv, ClaimTrailNamesClaimant, LifecycleAssumption
    <2>3. Exists(a.request)
      BY <2>2 DEF Exists, NoRow
    <2> QED
      BY <2>1, <2>2, <2>3 DEF HistoryInv, StartedByClaim
  <1> QED
    BY <1>1, ClaimInit, ClaimInvStep, HistoryStep, PTL DEF Spec

----------------------------------------------------------------------------
(* The inbox *)

\* What a notice, or the call that is about to send it, relies on; a claim that
\* is told of has a claimant, who stays.
Told(n) == NoticeHasEvent(n) /\ (n.type = "request.claimed" => request[n.request].claimedBy # None)

\* The move to IN_PROGRESS by a status update tells nobody.
Tells(c) == calls[c].pc = "fanout" /\ calls[c].type # "request.in_progress"

InboxInv == /\ \A n \in inbox : Told(n)
            /\ \A c \in Calls : Tells(c) => Told(calls[c])

\* Keys stay in the outbox and claimants with their requests.
LEMMA ToldStays ==
    ASSUME TypeInv, [Next]_vars, NEW n, n.request \in Requests, Told(n)
    PROVE  Told(n)'
  <1>1. outbox \subseteq outbox'
    BY RecordsGrow
  <1>2. CASE n.type = "request.claimed"
    <2>1. ClaimedKey(n.request, request[n.request].claimedBy) \in outbox
          /\ request[n.request].claimedBy # None
      BY <1>2 DEF Told, NoticeHasEvent
    <2>2. request'[n.request].claimedBy = request[n.request].claimedBy
      BY <2>1, ClaimantStep DEF ClaimantIsFixedStep, Exists, NoRow
    <2> QED
      BY <1>1, <1>2, <2>1, <2>2 DEF Told, NoticeHasEvent, ClaimedKey
  <1>3. CASE n.type # "request.claimed"
    BY <1>1, <1>3 DEF Told, NoticeHasEvent, CreatedKey, StatusKey, CancelledKey
  <1> QED
    BY <1>2, <1>3

\* The step before a fan-out writes the event it tells of.
LEMMA TellerStep ==
    ASSUME CallInv, ClaimInv, [Next]_vars, NEW c \in Calls, calls'[c] # calls[c], Tells(c)'
    PROVE  Told(calls[c])'
  <1>1. PICK u \in Users, r \in Requests :
            CreateRequest(c, u, r) \/ ClaimEvent(c) \/ StatusTx(c) \/ CancelTx(c)
    <2>1. \A d \in Calls \ {c} : ~(Arrive(d) \/ Resume(d) \/ Abort(d))
      BY OtherCallsStay DEF ClaimInv, TypeInv
    <2>2. Arrive(c) \/ Resume(c) \/ Abort(c)
      BY <2>1 DEF Next, AttachDocument, DetachDocument, JoinDepartment, vars
    <2>3. ~Abort(c) /\ ~Fanout(c) /\ ~ClaimCas(c) /\ ~ClaimAudit(c)
      BY DEF Tells, Abort, Fanout, ClaimCas, ClaimAudit, Finish, Goto, NoCall, ClaimInv, TypeInv, TypeOK, Call
    <2>4. Arrive(c) => \E u \in Users, r \in Requests : CreateRequest(c, u, r)
      BY DEF Arrive, ClaimRead, StatusRead, CancelRead, Begin, Tells, ClaimInv, TypeInv, TypeOK
    <2>5. Resume(c) => calls[c] \in Call
      BY BusyCall DEF Resume, ClaimCas, ClaimAudit, ClaimEvent, StatusTx, CancelTx, Fanout, ClaimInv, TypeInv
    <2> QED
      BY <2>2, <2>3, <2>4, <2>5 DEF Resume, Call
  <1>2. CASE CreateRequest(c, u, r)
    <2>1. calls'[c].type = "request.created" /\ calls'[c].request = r /\ CreatedKey(r) \in outbox'
      BY <1>2 DEF CreateRequest, Emit, ClaimInv, TypeInv, TypeOK
    <2> QED
      BY <2>1 DEF Told, NoticeHasEvent, CreatedKey
  <1>3. CASE ClaimEvent(c)
    <2>1. calls[c] \in Call
      BY <1>3, BusyCall DEF ClaimEvent, ClaimInv, TypeInv
    <2>2. /\ calls'[c].type = "request.claimed" /\ calls'[c].request = calls[c].request
          /\ ClaimedKey(calls[c].request, calls[c].user) \in outbox' /\ request' = request
      BY <1>3, <2>1 DEF ClaimEvent, GotoFanout, Finish, NoCall, Tells, ClaimInv, TypeInv, TypeOK, Call
    <2>3. request[calls[c].request].claimedBy = calls[c].user /\ calls[c].user # None
      BY <1>3, <2>1 DEF ClaimEvent, ClaimInv, WinnerHoldsRequest, Winner, Call
    <2> QED
      BY <2>2, <2>3 DEF Told, NoticeHasEvent, ClaimedKey
  <1>4. CASE StatusTx(c)
    <2> DEFINE k == calls[c]
    <2>1. k \in Call /\ k.to \in ValidTransitions[k.seen]
      BY <1>4, BusyCall DEF StatusTx, CallInv, CallsLegal, ClaimInv, TypeInv
    <2>2. /\ calls'[c].type = EventType(k.to) /\ calls'[c].request = k.request
          /\ StatusKey(k.request, k.seen, k.to) \in outbox'
      BY <1>4, <2>1 DEF StatusTx, GotoFanout, Finish, Emit, NoCall, Tells, ClaimInv, TypeInv, TypeOK, Call
    <2>3. \/ k.to = "COMPLETED" /\ k.seen = "IN_PROGRESS" /\ calls'[c].type = "request.completed"
          \/ k.to = "REJECTED" /\ k.seen \in Status /\ calls'[c].type = "request.rejected"
          \/ k.to = "CANCELLED" /\ k.seen = "PENDING" /\ calls'[c].type = "request.cancelled"
      BY <2>1, <2>2, TransitionTable DEF Tells, EventType, Call, Status, Terminal
    <2> QED
      BY <2>2, <2>3 DEF Told, NoticeHasEvent, StatusKey
  <1>5. CASE CancelTx(c)
    <2>1. calls[c] \in Call
      BY <1>5, BusyCall DEF CancelTx, ClaimInv, TypeInv
    <2>2. /\ calls'[c].type = "request.cancelled" /\ calls'[c].request = calls[c].request
          /\ CancelledKey(calls[c].request) \in outbox'
      BY <1>5, <2>1 DEF CancelTx, GotoFanout, Emit, ClaimInv, TypeInv, TypeOK, Call
    <2> QED
      BY <2>2 DEF Told, NoticeHasEvent, CancelledKey
  <1> QED
    BY <1>1, <1>2, <1>3, <1>4, <1>5

\* Only a fan-out writes notices, of its own type and request.
LEMMA InboxStep ==
    ASSUME CallInv, ClaimInv, InboxInv, [Next]_vars
    PROVE  InboxInv'
  <1>1. ASSUME NEW c \in Calls, Tells(c)' PROVE Told(calls[c])'
    <2>1. CASE calls'[c] # calls[c]
      BY <1>1, <2>1, TellerStep
    <2>2. CASE calls'[c] = calls[c]
      <3>1. Tells(c) /\ Told(calls[c]) /\ calls[c].request \in Requests
        BY <1>1, <2>2, BusyCall DEF Tells, InboxInv, ClaimInv, TypeInv, Call
      <3>2. PICK n : n = calls[c]
        OBVIOUS
      <3>3. Told(n)'
        <4>1. Told(n) /\ n.request \in Requests
          BY <3>1, <3>2 DEF Told, NoticeHasEvent
        <4> QED
          BY <4>1, ToldStays DEF ClaimInv
      <3> QED
        BY <2>2, <3>2, <3>3 DEF Told, NoticeHasEvent
    <2> QED
      BY <2>1, <2>2
  <1>2. ASSUME NEW n \in inbox' PROVE Told(n)'
    <2>1. CASE n \in inbox
      BY <2>1, ToldStays DEF InboxInv, ClaimInv, TypeInv, TypeOK, Notice
    <2>2. CASE n \notin inbox
      <3>1. PICK c \in Calls : Fanout(c)
        <4>1. ASSUME NEW c \in Calls, Arrive(c) \/ Abort(c) PROVE inbox' = inbox
          <5>1. ASSUME NEW u \in Users, NEW r \in Requests, CreateRequest(c, u, r) PROVE inbox' = inbox
            BY <5>1 DEF CreateRequest
          <5>2. ASSUME NEW u \in Users, NEW r \in Requests, ClaimRead(c, u, r) \/ CancelRead(c, u, r)
                PROVE  inbox' = inbox
            BY <5>2 DEF ClaimRead, CancelRead
          <5>3. ASSUME NEW u \in Users, NEW r \in Requests, NEW to \in Status, NEW note \in BOOLEAN,
                       StatusRead(c, u, r, to, note)
                PROVE  inbox' = inbox
            BY <5>3 DEF StatusRead
          <5>4. ASSUME Abort(c) PROVE inbox' = inbox
            BY <5>4 DEF Abort
          <5> QED
            BY <4>1, <5>1, <5>2, <5>3, <5>4 DEF Arrive
        <4>2. \A c \in Calls : Resume(c) => inbox' = inbox \/ Fanout(c)
          BY DEF Resume, ClaimCas, ClaimAudit, ClaimEvent, StatusTx, CancelTx
        <4> QED
          BY <1>2, <2>2, <4>1, <4>2 DEF Next, AttachDocument, DetachDocument, JoinDepartment, vars
      <3>2. calls[c] \in Call
        BY <3>1, BusyCall DEF Fanout, ClaimInv, TypeInv
      <3>3. n.type = calls[c].type /\ n.request = calls[c].request /\ Tells(c)
        BY <3>1, <3>2, <1>2, <2>2 DEF Fanout, Recipients, Tells
      <3>4. Told(n) /\ n.request \in Requests
        BY <3>2, <3>3 DEF InboxInv, Told, NoticeHasEvent, Call
      <3> QED
        BY <3>4, ToldStays DEF ClaimInv
    <2> QED
      BY <2>1, <2>2
  <1> QED
    BY <1>1, <1>2 DEF InboxInv

\* Whoever finds a notice in the inbox finds its event in the outbox, wherever
\* calls break off: every fan-out comes after the step that wrote the event.
THEOREM NoticesHaveEvents == Spec => []InboxFollowsOutbox
  <1>1. Init => InboxInv
    BY DEF Init, InboxInv, Tells, NoCall
  <1>2. InboxInv => InboxFollowsOutbox
    BY DEF InboxInv, Told, InboxFollowsOutbox
  <1>3. CallInv /\ ClaimInv /\ InboxInv /\ [Next]_vars => InboxInv'
    BY InboxStep
  <1> QED
    BY <1>1, <1>2, <1>3, CallInit, CallInvStep, ClaimInit, ClaimInvStep, PTL DEF Spec
----------------------------------------------------------------------------
(* What is still to be written when no call breaks off *)

\* The call that moved is the one that took the step.
LEMMA CallMoves ==
    ASSUME TypeOK, [Next]_vars, NEW c \in Calls, calls'[c] # calls[c]
    PROVE  Arrive(c) \/ Resume(c) \/ Abort(c)
  <1>1. \A d \in Calls \ {c} : ~(Arrive(d) \/ Resume(d) \/ Abort(d))
    BY OtherCallsStay
  <1> QED
    BY <1>1 DEF Next, AttachDocument, DetachDocument, JoinDepartment, vars

\* A slot is free before a call arrives in it.
LEMMA OnlyIdleCallsArrive == ASSUME NEW c \in Calls, Arrive(c) PROVE Idle(c)
  BY DEF Arrive, CreateRequest, ClaimRead, StatusRead, CancelRead

\* A call under way does not begin again, and it only breaks off with faults.
LEMMA BusyCallResumes ==
    ASSUME TypeOK, ~Faults, [Next]_vars, NEW c \in Calls,
           calls[c].pc # "idle", calls'[c] # calls[c]
    PROVE  Resume(c) /\ calls[c] \in Call
  <1>1. ~Arrive(c)
    BY OnlyIdleCallsArrive DEF Idle, NoCall
  <1>2. ~Abort(c)
    BY DEF Abort
  <1> QED
    BY <1>1, <1>2, CallMoves, BusyCall

\* A step that gives a request its claimant leaves the winner before its audit
\* row; the winner's own steps write the row and then the event.
LEMMA ClaimRecordStep ==
    ASSUME ~Faults, ClaimInv, ClaimRecordIsPending, [Next]_vars
    PROVE  ClaimRecordIsPending'
  <1> SUFFICES ASSUME NEW r \in Requests, Exists(r)', request'[r].claimedBy # None
               PROVE  LET u       == request'[r].claimedBy
                          audited == Audit(r, u, "REQUEST_CLAIMED", None, None) \in auditLog'
                      IN  \/ audited /\ ClaimedKey(r, u) \in outbox'
                          \/ \E c \in Calls :
                                 /\ \/ calls'[c].pc = "claimAudit"
                                    \/ calls'[c].pc = "claimEvent" /\ audited
                                 /\ calls'[c].request = r
                                 /\ calls'[c].user = u
    BY DEF ClaimRecordIsPending, Audit, ClaimedKey
  <1> DEFINE u == request'[r].claimedBy
             row == Audit(r, u, "REQUEST_CLAIMED", None, None)
             key == ClaimedKey(r, u)
  <1>0. TypeInv /\ TypeOK
    BY DEF ClaimInv, TypeInv
  <1>1. CASE ~(Exists(r) /\ request[r].claimedBy # None)
    <2>1. PICK c \in Calls : calls[c] \in Call /\ Claims(c, r)
      <3>1. ASSUME NEW c \in Calls, Creates(c, r)
            PROVE  FALSE
        BY <1>0, <3>1 DEF Creates, CreateRequest, TypeOK
      <3>2. ASSUME NEW c \in Calls, Exists(r), Moves(c, r) \/ Cancels(c, r)
            PROVE  FALSE
        BY <1>0, <1>1, <3>2, RowOfRequest DEF Moves, Cancels, RequestRow
      <3>3. request'[r] # request[r]
        BY <1>1 DEF Exists
      <3> QED
        BY <1>0, <3>1, <3>2, <3>3, RowStep
    <2>2. request[r] \in RequestRow
      BY <1>0, <2>1 DEF Claims, Claimable, TypeOK, NoRow
    <2>3. u = calls[c].user
      BY <2>1, <2>2 DEF Claims, RequestRow
    <2>4. /\ calls'[c].pc = "claimAudit"
          /\ calls'[c].request = r /\ calls'[c].user = calls[c].user
      BY <1>0, <2>1 DEF Claims, ClaimCas, Goto, TypeOK, Call
    <2> QED
      BY <2>3, <2>4
  <1>2. CASE Exists(r) /\ request[r].claimedBy # None
    <2>1. u = request[r].claimedBy
      BY <1>0, <1>2, ClaimantStep DEF ClaimantIsFixedStep
    <2>2. CASE row \in auditLog /\ key \in outbox
      BY <2>2, RecordsGrow
    <2>3. ASSUME NEW c \in Calls, Winner(c), calls[c].request = r, calls[c].user = u,
                 calls[c].pc = "claimEvent" => row \in auditLog
          PROVE  \/ row \in auditLog' /\ key \in outbox'
                 \/ /\ \/ calls'[c].pc = "claimAudit"
                       \/ calls'[c].pc = "claimEvent" /\ row \in auditLog'
                    /\ calls'[c].request = r
                    /\ calls'[c].user = u
      <3>1. CASE calls'[c] = calls[c]
        BY <2>3, <3>1, RecordsGrow DEF Winner
      <3>2. CASE calls'[c] # calls[c]
        <4>1. Resume(c) /\ calls[c] \in Call
          BY <1>0, <2>3, <3>2, BusyCallResumes DEF Winner
        <4>2. CASE ClaimAudit(c)
          BY <1>0, <2>3, <4>1, <4>2 DEF ClaimAudit, Log, Goto, TypeOK, Call
        <4>3. CASE ClaimEvent(c)
          <5>1. key \notin outbox
            BY <2>3 DEF ClaimInv, WinnerHoldsRequest
          <5>2. key \in outbox'
            BY <2>3, <4>3, <5>1 DEF ClaimEvent
          <5> QED
            BY <2>3, <4>3, <5>2, RecordsGrow DEF ClaimEvent
        <4> QED
          BY <2>3, <4>1, <4>2, <4>3
             DEF Winner, Resume, ClaimCas, StatusTx, CancelTx, Fanout
      <3> QED
        BY <3>1, <3>2
    <2> QED
      BY <1>2, <2>1, <2>2, <2>3 DEF ClaimRecordIsPending, Winner
  <1> QED
    BY <1>1, <1>2

\* No request is there at the start.
LEMMA ClaimRecordInit == Init => ClaimRecordIsPending
  BY DEF Init, ClaimRecordIsPending, Exists

\* Without faults, what a claim still has to write is ahead of the claimant's
\* own call: that this call is resumed is all ClaimIsRecorded needs.
THEOREM ClaimRecordIsAhead == ASSUME ~Faults PROVE Spec => []ClaimRecordIsPending
  <1>1. ClaimInv /\ ClaimRecordIsPending /\ [Next]_vars => ClaimRecordIsPending'
    BY ClaimRecordStep
  <1> QED
    BY <1>1, ClaimRecordInit, ClaimInit, ClaimInvStep, PTL DEF Spec

\* The document's demand on claims, which the run ClaimCrash refutes, holds as
\* long as no call breaks off.
THEOREM ClaimIsAuditedWithoutFaults == ASSUME ~Faults PROVE Spec => []ClaimIsAudited
  <1>1. ClaimRecordIsPending => ClaimIsAudited
    BY DEF ClaimRecordIsPending, ClaimIsAudited
  <1> QED
    BY <1>1, ClaimRecordIsAhead, PTL

\* Notices stay in the inbox.
LEMMA InboxGrows == [Next]_vars => inbox \subseteq inbox'
  <1>1. ASSUME NEW c \in Calls, Arrive(c) \/ Resume(c) \/ Abort(c)
        PROVE  inbox \subseteq inbox'
    BY <1>1 DEF Arrive, CreateRequest, ClaimRead, StatusRead, CancelRead, Resume, ClaimCas,
                ClaimAudit, ClaimEvent, StatusTx, CancelTx, Fanout, Abort
  <1> QED
    BY <1>1 DEF Next, AttachDocument, DetachDocument, JoinDepartment, vars

\* The update that writes the outcome goes on to the fan-out, and the fan-out
\* of an outcome reaches the employee, whose name no step changes.
LEMMA OutcomeNoticeStep ==
    ASSUME ~Faults, HistoryInv, OutcomeNoticeIsPending, [Next]_vars
    PROVE  OutcomeNoticeIsPending'
  <1> DEFINE Hears(a) ==
                 [to |-> request[a.request].employee, type |-> EventType(a.new),
                  request |-> a.request]
             Telling(c, a) == /\ calls[c].pc = "fanout"
                              /\ calls[c].type = EventType(a.new)
                              /\ calls[c].request = a.request
                              /\ calls[c].user = a.actor
  <1> SUFFICES ASSUME NEW a \in auditLog', a.action = "STATUS",
                      a.new \in {"COMPLETED", "REJECTED"},
                      a.actor # request'[a.request].employee
               PROVE  \/ Hears(a)' \in inbox'
                      \/ \E c \in Calls : Telling(c, a)'
    BY DEF OutcomeNoticeIsPending, EventType
  <1>0. CallInv /\ TypeInv /\ TypeOK
    BY DEF HistoryInv, CallInv, TypeInv
  <1>1. CASE a \notin auditLog
    <2>1. PICK c \in Calls :
              /\ calls[c] \in Call /\ StatusTx(c) /\ UnchangedSinceRead(calls[c])
              /\ a = Audit(calls[c].request, calls[c].user, "STATUS", calls[c].seen, calls[c].to)
      BY <1>0, <1>1, StatusRows
    <2>2. Telling(c, a)'
      BY <1>0, <2>1 DEF StatusTx, GotoFanout, Audit, TypeOK, Call, EventType
    <2> QED
      BY <2>2
  <1>2. CASE a \in auditLog
    <2>1. a.request \in Requests /\ Exists(a.request)
      BY <1>0, <1>2 DEF HistoryInv, LeftForGood, TypeOK, AuditRow, Exists, NoRow
    <2>2. request'[a.request].employee = request[a.request].employee
      BY <1>0, <2>1, RowsStay
    <2>3. Hears(a)' = Hears(a)
      BY <2>2 DEF EventType
    <2>4. CASE Hears(a) \in inbox
      BY <2>3, <2>4, InboxGrows
    <2>5. ASSUME NEW c \in Calls, Telling(c, a)
          PROVE  Hears(a)' \in inbox' \/ Telling(c, a)'
      <3>1. CASE calls'[c] = calls[c]
        BY <2>5, <3>1 DEF EventType
      <3>2. CASE calls'[c] # calls[c]
        <4>1. Resume(c) /\ calls[c] \in Call
          BY <1>0, <2>5, <3>2, BusyCallResumes
        <4>2. Fanout(c)
          BY <2>5, <4>1 DEF Resume, ClaimCas, ClaimAudit, ClaimEvent, StatusTx, CancelTx
        <4>3. request[a.request].employee
                  \in Recipients(calls[c].type, calls[c].request, calls[c].user)
          BY <2>2, <2>5 DEF Recipients, EventType
        <4>4. Hears(a) \in inbox'
          BY <2>5, <4>2, <4>3 DEF Fanout
        <4> QED
          BY <2>3, <4>4
      <3> QED
        BY <3>1, <3>2
    <2> QED
      BY <1>2, <2>2, <2>4, <2>5 DEF OutcomeNoticeIsPending
  <1> QED
    BY <1>1, <1>2

\* Without faults, whoever decided a request still has the fan-out ahead or the
\* employee has the notice: EmployeeHearsOutcome needs only that the call is
\* resumed.
THEOREM OutcomeNoticeIsAhead == ASSUME ~Faults PROVE Spec => []OutcomeNoticeIsPending
  <1>1. Init => OutcomeNoticeIsPending
    BY DEF Init, OutcomeNoticeIsPending
  <1>2. HistoryInv /\ OutcomeNoticeIsPending /\ [Next]_vars => OutcomeNoticeIsPending'
    BY OutcomeNoticeStep
  <1> QED
    BY <1>1, <1>2, ClaimInit, HistoryStep, PTL DEF Spec

\* When no call breaks off, nothing that is owed is ever in nobody's hands.
THEOREM OwedStaysUnderWay == ASSUME ~Faults PROVE Spec => []OwedIsUnderWay
  BY ClaimRecordIsAhead, OutcomeNoticeIsAhead, PTL DEF OwedIsUnderWay

----------------------------------------------------------------------------
(* One call at a time *)

\* What CancelTx does not check again.
CancelsPending == \A c \in Calls : calls[c].pc = "cancelTx" =>
                      request[calls[c].request].status = "PENDING"

\* The document's demand on cancellations, which the run CancelRace refutes,
\* holds when calls do not overlap: the race between the check and the write
\* of cancelRequest is the only way round it.
THEOREM CancelOnlyPendingOneAtATime ==
    ASSUME \A c, d \in Calls : c = d
    PROVE  Spec => CancelOnlyPending
  <1>1. Init => CancelsPending
    BY DEF Init, CancelsPending, NoCall
  <1>2. CallInv /\ CancelsPending /\ [Next]_vars => CancelsPending'
    <2> SUFFICES ASSUME CallInv, CancelsPending, [Next]_vars,
                        NEW c \in Calls, calls'[c].pc = "cancelTx"
                 PROVE  request'[calls'[c].request].status = "PENDING"
      BY DEF CancelsPending
    <2>0. TypeInv /\ TypeOK
      BY DEF CallInv, TypeInv
    <2>1. CASE calls'[c] = calls[c]
      <3>1. ASSUME NEW d \in Calls PROVE ~Arrive(d) /\ ~ClaimCas(d) /\ ~StatusTx(d) /\ ~CancelTx(d)
        <4>1. d = c /\ calls[d].pc = "cancelTx"
          BY <2>1
        <4>2. ~Arrive(d)
          BY <4>1, OnlyIdleCallsArrive DEF Idle, NoCall
        <4>3. calls[d] \in Call
          BY <2>0, <4>1, BusyCall
        <4>4. ~CancelTx(d)
          BY <2>0, <2>1, <4>1, <4>3 DEF CancelTx, GotoFanout, TypeOK, Call
        <4> QED
          BY <4>1, <4>2, <4>4 DEF ClaimCas, StatusTx
      <3>2. UNCHANGED request
        BY <3>1, RequestWriters DEF Arrive
      <3> QED
        BY <2>1, <3>2 DEF CancelsPending
    <2>2. CASE calls'[c] # calls[c]
      <3>1. Arrive(c) \/ Resume(c) \/ Abort(c)
        BY <2>0, <2>2, CallMoves
      <3>2. ~Resume(c) /\ ~Abort(c)
        <4>1. calls[c] \in Call \cup {NoCall}
          BY <2>0 DEF TypeOK
        <4> QED
          BY <2>0, <4>1 DEF Resume, Abort, ClaimCas, ClaimAudit, ClaimEvent, StatusTx, CancelTx,
                            Fanout, Goto, GotoFanout, Finish, NoCall, TypeOK, Call
      <3>3. PICK u \in Users, r \in Requests : CancelRead(c, u, r)
        <4>1. ASSUME NEW u \in Users, NEW r \in Requests, CreateRequest(c, u, r) \/ ClaimRead(c, u, r)
              PROVE  FALSE
          BY <2>0, <4>1 DEF CreateRequest, ClaimRead, Begin, TypeOK
        <4>2. ASSUME NEW u \in Users, NEW r \in Requests, NEW to \in Status, NEW note \in BOOLEAN,
                     StatusRead(c, u, r, to, note)
              PROVE  FALSE
          BY <2>0, <4>2 DEF StatusRead, Begin, TypeOK
        <4> QED
          BY <3>1, <3>2, <4>1, <4>2 DEF Arrive
      <3> QED
        BY <2>0, <3>3 DEF CancelRead, Begin, TypeOK
    <2> QED
      BY <2>1, <2>2
  <1>3. CancelsPending /\ [Next]_vars =>
            [\A c \in Calls : CancelTx(c) =>
                request[calls[c].request].status \notin {"IN_PROGRESS", "COMPLETED", "REJECTED"}]_vars
    BY DEF CancelsPending, CancelTx
  <1> QED
    BY <1>1, <1>2, <1>3, CallInit, CallInvStep, PTL DEF Spec, CancelOnlyPending
----------------------------------------------------------------------------
(* What a completion without a note rests on *)

IsBare(r) == request[r].status = "COMPLETED" /\ ~request[r].hasNote
CompletesBare(c, r) == /\ calls[c].pc = "statusTx" /\ calls[c].request = r
                       /\ calls[c].to = "COMPLETED" /\ ~calls[c].note

\* Only a status update with no note completes a request without one.
LEMMA BareCompletion ==
    ASSUME TypeInv, [Next]_vars, NEW r \in Requests, IsBare(r)'
    PROVE  IsBare(r) \/ \E c \in Calls : CompletesBare(c, r)
  <1>1. CASE request'[r] = request[r]
    BY <1>1 DEF IsBare
  <1>2. ASSUME NEW c \in Calls, Creates(c, r)
        PROVE  FALSE
    BY <1>2 DEF Creates, CreateRequest, IsBare, TypeInv, TypeOK
  <1>3. ASSUME NEW c \in Calls, calls[c] \in Call, Exists(r), Claims(c, r) \/ Moves(c, r) \/ Cancels(c, r)
        PROVE  IsBare(r) \/ CompletesBare(c, r)
    <2>1. request[r] \in RequestRow
      BY <1>3, RowOfRequest DEF TypeInv
    <2>2. ~Claims(c, r) /\ ~Cancels(c, r)
      BY <2>1 DEF Claims, Cancels, IsBare, RequestRow
    <2>3. CASE Moves(c, r)
      BY <1>3, <2>1, <2>3 DEF Moves, StatusTx, IsBare, CompletesBare, RequestRow, Call
    <2> QED
      BY <1>3, <2>2, <2>3
  <1> QED
    BY <1>1, <1>2, <1>3, RowStep

\* Such an update found a document when it began.
LEMMA BareUpdate ==
    ASSUME TypeOK, [Next]_vars, NEW c \in Calls, NEW r \in Requests, CompletesBare(c, r)'
    PROVE  CompletesBare(c, r) \/ r \in attached
  <1>1. CASE calls'[c] = calls[c]
    BY <1>1 DEF CompletesBare
  <1>2. CASE Resume(c) \/ Abort(c)
    <2>1. calls'[c].pc # "statusTx"
      BY <1>2 DEF Resume, Abort, ClaimCas, ClaimAudit, ClaimEvent, StatusTx, CancelTx, Fanout,
                  Goto, GotoFanout, Finish, NoCall, TypeOK, Call
    <2> QED
      BY <2>1 DEF CompletesBare
  <1>3. CASE Arrive(c)
    <2>1. PICK u \in Users, q \in Requests :
              \/ CreateRequest(c, u, q)
              \/ ClaimRead(c, u, q)
              \/ \E to \in Status, note \in BOOLEAN : StatusRead(c, u, q, to, note)
              \/ CancelRead(c, u, q)
      BY <1>3 DEF Arrive
    <2>2. CASE CreateRequest(c, u, q) \/ ClaimRead(c, u, q) \/ CancelRead(c, u, q)
      BY <2>2 DEF CreateRequest, ClaimRead, CancelRead, Begin, CompletesBare, TypeOK
    <2>3. ASSUME NEW to \in Status, NEW note \in BOOLEAN, StatusRead(c, u, q, to, note)
          PROVE  r \in attached
      <3>1. calls'[c].request = q /\ calls'[c].to = to /\ calls'[c].note = note
        BY <2>3 DEF StatusRead, Begin, TypeOK
      <3> QED
        BY <2>3, <3>1 DEF StatusRead, HasResolution, CompletesBare
    <2> QED
      BY <2>1, <2>2, <2>3
  <1> QED
    BY <1>1, <1>2, <1>3, CallMoves
=============================================================================
