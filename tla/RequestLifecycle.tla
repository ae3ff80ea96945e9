-------------------------- MODULE RequestLifecycle --------------------------
(***************************************************************************)
(* The request API (src/src/requests/requests.service.ts) over the tables  *)
(* it writes: Request, AuditLog, NotificationEvent (the outbox),           *)
(* Notification (the inbox) and the membership of the owning department.   *)
(*                                                                         *)
(* An API call is a record with a program counter.  Node.js runs one call  *)
(* at a time between two awaits, so each action is the code between two    *)
(* points where another call can get in: the reads and checks that end in  *)
(* the write (Read), each write statement outside a transaction, and each  *)
(* transaction as a whole.  Consecutive reads of one call are merged: what *)
(* they return is only used for checks, and a status, once left, never     *)
(* comes back, so a commit that passes its guard sees what it would have   *)
(* seen with the reads apart.  A refused call writes nothing and is not a  *)
(* step.  Abort is a database error or the end of the process between two  *)
(* awaits: the call is gone, what it wrote stays.                          *)
(***************************************************************************)
EXTENDS Naturals, FiniteSets

CONSTANTS Requests,     \* ids of the Request rows that can be created
          Users,        \* users of one company
          Admins,       \* the users with platformRole SYSTEM_ADMIN
          Calls,        \* slots for concurrent API calls
          Faults,       \* whether calls can be aborted
          None          \* null

ASSUME LifecycleAssumption ==
    /\ Admins \subseteq Users
    /\ Faults \in BOOLEAN
    /\ None \notin Users \cup Requests

VARIABLES request,      \* the Request table
          attached,     \* requests with a document whose deletedAt is null
          members,      \* active DepartmentMember rows of the department
          auditLog,     \* the AuditLog rows of requests
          outbox,       \* idempotency keys of the NotificationEvent rows
          inbox,        \* the Notification rows, as [to, type, request]
          calls         \* the API calls in progress

vars == <<request, attached, members, auditLog, outbox, inbox, calls>>

----------------------------------------------------------------------------
(* Rows and keys *)

Status == {"PENDING", "IN_PROGRESS", "COMPLETED", "REJECTED", "CANCELLED"}
Terminal == {"COMPLETED", "REJECTED", "CANCELLED"}

\* Mutant: a rejected request can be taken up again.
ValidTransitionsReopen == [s \in Status |->
    CASE s = "PENDING"     -> {"IN_PROGRESS", "CANCELLED", "REJECTED"}
      [] s = "IN_PROGRESS" -> {"COMPLETED", "REJECTED"}
      [] s = "REJECTED"    -> {"IN_PROGRESS"}
      [] OTHER             -> {}]

ValidTransitions == [s \in Status |->
    CASE s = "PENDING"     -> {"IN_PROGRESS", "CANCELLED", "REJECTED"}
      [] s = "IN_PROGRESS" -> {"COMPLETED", "REJECTED"}
      [] OTHER             -> {}]

RequestRow == [status : Status, employee : Users,
               claimedBy : Users \cup {None}, hasNote : BOOLEAN]
NoRow == [status |-> "absent", employee |-> None,
          claimedBy |-> None, hasNote |-> FALSE]

AuditRow == [request : Requests, actor : Users,
             action : {"REQUEST_CREATED", "REQUEST_CLAIMED", "STATUS", "REQUEST_CANCELLED"},
             old : Status \cup {None}, new : Status \cup {None}]
Audit(r, u, action, old, new) ==
    [request |-> r, actor |-> u, action |-> action, old |-> old, new |-> new]

EventKey == [request : Requests, event : {"created", "claimed", "status", "cancelled"},
             by : Users \cup {None}, from : Status \cup {None}, to : Status \cup {None}]
CreatedKey(r) ==
    [request |-> r, event |-> "created", by |-> None, from |-> None, to |-> None]
ClaimedKey(r, u) ==
    [request |-> r, event |-> "claimed", by |-> u, from |-> None, to |-> None]
StatusKey(r, from, to) ==
    [request |-> r, event |-> "status", by |-> None, from |-> from, to |-> to]
CancelledKey(r) ==
    [request |-> r, event |-> "cancelled", by |-> None, from |-> None, to |-> None]

NoticeType == {"request.created", "request.claimed", "request.in_progress",
               "request.completed", "request.rejected", "request.cancelled"}
Notice == [to : Users, type : NoticeType, request : Requests]

EventType(to) == CASE to = "IN_PROGRESS" -> "request.in_progress"
                   [] to = "COMPLETED"   -> "request.completed"
                   [] to = "REJECTED"    -> "request.rejected"
                   [] OTHER              -> "request.cancelled"

Pc == {"claimCas", "claimAudit", "claimEvent", "statusTx", "cancelTx", "fanout"}
Call == [pc : Pc, user : Users, request : Requests, seen : Status, to : Status,
         note : BOOLEAN, type : NoticeType]
NoCall == [pc |-> "idle"]

TypeOK == /\ request \in [Requests -> RequestRow \cup {NoRow}]
          /\ attached \subseteq Requests
          /\ members \subseteq Users
          /\ auditLog \subseteq AuditRow
          /\ outbox \subseteq EventKey
          /\ inbox \subseteq Notice
          /\ calls \in [Calls -> Call \cup {NoCall}]

Exists(r) == request[r] # NoRow

\* departments.isMemberOf: an admin passes without a membership row.
IsMemberOf(u) == u \in members \cup Admins

Init == /\ request = [r \in Requests |-> NoRow]
        /\ attached = {}
        /\ members \in SUBSET Users
        /\ auditLog = {}
        /\ outbox = {}
        /\ inbox = {}
        /\ calls = [c \in Calls |-> NoCall]

----------------------------------------------------------------------------
(* Calls *)

Idle(c) == calls[c] = NoCall

Log(row) == auditLog' = auditLog \cup {row}

\* Mutant: the event is written best effort, its failure swallowed.
EmitBestEffort(key) == outbox' \in {outbox, outbox \cup {key}}

\* notifications.emit: an upsert that leaves an existing key alone.
Emit(key) == outbox' = outbox \cup {key}

Begin(c, pc, u, r, to, note) ==
    calls' = [calls EXCEPT ![c] =
        [pc |-> pc, user |-> u, request |-> r, seen |-> request[r].status,
         to |-> to, note |-> note, type |-> EventType(to)]]

Goto(c, pc) == calls' = [calls EXCEPT ![c].pc = pc]

GotoFanout(c, type) == calls' = [calls EXCEPT ![c].pc = "fanout", ![c].type = type]

Finish(c) == calls' = [calls EXCEPT ![c] = NoCall]

----------------------------------------------------------------------------
(* POST /requests *)

\* createRequest: row, audit row and event in one transaction, then fanout.
CreateRequest(c, u, r) ==
    /\ Idle(c)
    /\ ~Exists(r)
    /\ request' = [request EXCEPT ![r] =
           [status |-> "PENDING", employee |-> u, claimedBy |-> None, hasNote |-> FALSE]]
    /\ Log(Audit(r, u, "REQUEST_CREATED", None, None))
    /\ Emit(CreatedKey(r))
    /\ calls' = [calls EXCEPT ![c] =
           [pc |-> "fanout", user |-> u, request |-> r, seen |-> "PENDING",
            to |-> "PENDING", note |-> FALSE, type |-> "request.created"]]
    /\ UNCHANGED <<attached, members, inbox>>

----------------------------------------------------------------------------
(* POST /requests/:id/claim: four statements, no transaction *)

ClaimRead(c, u, r) ==
    /\ Idle(c)
    /\ Exists(r)
    /\ IsMemberOf(u)
    /\ request[r].claimedBy = None
    /\ request[r].status = "PENDING"
    /\ Begin(c, "claimCas", u, r, "IN_PROGRESS", FALSE)
    /\ UNCHANGED <<request, attached, members, auditLog, outbox, inbox>>

\* Mutant: the conditional update selects by id only.
ClaimableById(r) == TRUE

\* The where clause of the conditional update.
Claimable(r) == /\ request[r].claimedBy = None
                /\ request[r].status = "PENDING"

ClaimCas(c) ==
    LET r == calls[c].request IN
    /\ calls[c].pc = "claimCas"
    /\ \/ /\ Claimable(r)
          /\ request' = [request EXCEPT ![r].claimedBy = calls[c].user,
                                        ![r].status = "IN_PROGRESS"]
          /\ Goto(c, "claimAudit")
       \/ /\ ~Claimable(r)                  \* 409
          /\ Finish(c)
          /\ UNCHANGED request
    /\ UNCHANGED <<attached, members, auditLog, outbox, inbox>>

\* Mutant: the event is forgotten.
ClaimAuditThenFanout(c) ==
    /\ calls[c].pc = "claimAudit"
    /\ Log(Audit(calls[c].request, calls[c].user, "REQUEST_CLAIMED", None, None))
    /\ GotoFanout(c, "request.claimed")
    /\ UNCHANGED <<request, attached, members, outbox, inbox>>

ClaimAudit(c) ==
    /\ calls[c].pc = "claimAudit"
    /\ Log(Audit(calls[c].request, calls[c].user, "REQUEST_CLAIMED", None, None))
    /\ Goto(c, "claimEvent")
    /\ UNCHANGED <<request, attached, members, outbox, inbox>>

\* A plain create: an existing key is a unique violation and ends the call.
ClaimEvent(c) ==
    LET key == ClaimedKey(calls[c].request, calls[c].user) IN
    /\ calls[c].pc = "claimEvent"
    /\ \/ /\ key \notin outbox
          /\ outbox' = outbox \cup {key}
          /\ GotoFanout(c, "request.claimed")
       \/ /\ key \in outbox
          /\ Finish(c)
          /\ UNCHANGED outbox
    /\ UNCHANGED <<request, attached, members, auditLog, inbox>>

----------------------------------------------------------------------------
(* PATCH /requests/:id/status *)

\* Mutant: a completion needs nothing.
HasResolutionAlways(r, note) == TRUE

\* The documents are counted only when there is no note.
HasResolution(r, note) == note \/ r \in attached

\* note: the dto carries a resolution note.  A rejection without a reason is
\* refused and has no step.
StatusRead(c, u, r, to, note) ==
    /\ Idle(c)
    /\ Exists(r)
    /\ IsMemberOf(u)
    /\ to \in ValidTransitions[request[r].status]
    /\ to = "COMPLETED" => HasResolution(r, note)
    /\ Begin(c, "statusTx", u, r, to, note)
    /\ UNCHANGED <<request, attached, members, auditLog, outbox, inbox>>

\* Mutant: the update selects by id only.
UnchangedSinceReadById(call) == TRUE

\* The where clause of the guarded update.
UnchangedSinceRead(call) == request[call.request].status = call.seen

\* The guarded update, the audit row and the event commit together, or the
\* guard misses and the call ends in a 409.
StatusTx(c) ==
    LET call == calls[c]
        r    == call.request
    IN
    /\ call.pc = "statusTx"
    /\ \/ /\ UnchangedSinceRead(call)
          /\ request' = [request EXCEPT ![r].status = call.to,
                                        ![r].hasNote = @ \/ call.note]
          /\ Log(Audit(r, call.user, "STATUS", call.seen, call.to))
          /\ Emit(StatusKey(r, call.seen, call.to))
          /\ GotoFanout(c, EventType(call.to))
       \/ /\ ~UnchangedSinceRead(call)
          /\ Finish(c)
          /\ UNCHANGED <<request, auditLog, outbox>>
    /\ UNCHANGED <<attached, members, inbox>>

----------------------------------------------------------------------------
(* POST /requests/:id/cancel *)

CancelRead(c, u, r) ==
    /\ Idle(c)
    /\ Exists(r)
    /\ request[r].employee = u
    /\ request[r].status = "PENDING"
    /\ Begin(c, "cancelTx", u, r, "CANCELLED", FALSE)
    /\ UNCHANGED <<request, attached, members, auditLog, outbox, inbox>>

\* The update selects the row by id only.
CancelTx(c) ==
    LET r == calls[c].request IN
    /\ calls[c].pc = "cancelTx"
    /\ request' = [request EXCEPT ![r].status = "CANCELLED"]
    /\ Log(Audit(r, calls[c].user, "REQUEST_CANCELLED", calls[c].seen, "CANCELLED"))
    /\ Emit(CancelledKey(r))
    /\ GotoFanout(c, "request.cancelled")
    /\ UNCHANGED <<attached, members, inbox>>

----------------------------------------------------------------------------
(* notifications.fanout, after the commit and best effort *)

\* Mutant: the outcome goes to the agent who handled the request.
RecipientsAgent(type, r, actor) ==
    CASE type \in {"request.created", "request.cancelled"} -> members \ {actor}
      [] type \in {"request.claimed", "request.completed", "request.rejected"} ->
             {request[r].claimedBy} \ {actor}
      [] OTHER -> {}

Recipients(type, r, actor) ==
    CASE type \in {"request.created", "request.cancelled"} -> members \ {actor}
      [] type \in {"request.claimed", "request.completed", "request.rejected"} ->
             {request[r].employee} \ {actor}
      [] OTHER -> {}

Fanout(c) ==
    /\ calls[c].pc = "fanout"
    /\ inbox' = inbox \cup
           {[to |-> u, type |-> calls[c].type, request |-> calls[c].request] :
               u \in Recipients(calls[c].type, calls[c].request, calls[c].user)}
    /\ Finish(c)
    /\ UNCHANGED <<request, attached, members, auditLog, outbox>>

Abort(c) ==
    /\ Faults
    /\ ~Idle(c)
    /\ Finish(c)
    /\ UNCHANGED <<request, attached, members, auditLog, outbox, inbox>>

----------------------------------------------------------------------------
(* What other parts of the system do to the rows these calls read *)

\* documents.upload commits a row; it refuses a request without a claimant.
AttachDocument(r) ==
    /\ Exists(r)
    /\ request[r].claimedBy # None
    /\ r \notin attached
    /\ attached' = attached \cup {r}
    /\ UNCHANGED <<request, members, auditLog, outbox, inbox, calls>>

\* The last active document goes: documents.remove, the soft delete at the
\* start of a replacement, or the retention purge.
DetachDocument(r) ==
    /\ r \in attached
    /\ attached' = attached \ {r}
    /\ UNCHANGED <<request, members, auditLog, outbox, inbox, calls>>

\* admin.updateUser adds members; no reachable code takes one away.
JoinDepartment(u) ==
    /\ u \notin members
    /\ members' = members \cup {u}
    /\ UNCHANGED <<request, attached, auditLog, outbox, inbox, calls>>

----------------------------------------------------------------------------

Arrive(c) ==
    \E u \in Users, r \in Requests :
        \/ CreateRequest(c, u, r)
        \/ ClaimRead(c, u, r)
        \/ \E to \in Status, note \in BOOLEAN : StatusRead(c, u, r, to, note)
        \/ CancelRead(c, u, r)

Resume(c) ==
    \/ ClaimCas(c)
    \/ ClaimAudit(c)
    \/ ClaimEvent(c)
    \/ StatusTx(c)
    \/ CancelTx(c)
    \/ Fanout(c)

Next == \/ \E c \in Calls : Arrive(c) \/ Resume(c) \/ Abort(c)
        \/ \E r \in Requests : AttachDocument(r) \/ DetachDocument(r)
        \/ \E u \in Users : JoinDepartment(u)

Spec == Init /\ [][Next]_vars

\* The event loop resumes every call whose await has settled.
FairSpec == Spec /\ \A c \in Calls : WF_vars(Resume(c))

----------------------------------------------------------------------------
(* Properties that hold *)

\* Two updates that raced from the same status never both commit: a request
\* has at most one STATUS row per status it left, and a claimed request was
\* not also moved out of PENDING by a status update.
NoForkedHistory ==
    \A a, b \in auditLog :
        a.request = b.request =>
            /\ (a.action = "STATUS" /\ b.action = "STATUS" /\ a.old = b.old) => a = b
            /\ a.action = "REQUEST_CLAIMED" =>
                   ~(b.action = "STATUS" /\ b.old = "PENDING")

\* Of the agents whose claims raced, only the one the row names has a
\* REQUEST_CLAIMED row or a request.claimed event, and no event precedes its
\* audit row.
ClaimTrailNamesClaimant ==
    /\ \A a \in auditLog :
           a.action = "REQUEST_CLAIMED" => request[a.request].claimedBy = a.actor
    /\ \A k \in outbox :
           k.event = "claimed" =>
               Audit(k.request, k.by, "REQUEST_CLAIMED", None, None) \in auditLog

\* The audit rows and events that let a request be in its present status.
Created(r) == /\ \E u \in Users : Audit(r, u, "REQUEST_CREATED", None, None) \in auditLog
              /\ CreatedKey(r) \in outbox
MovedTo(r, to) ==
    \E u \in Users, from \in Status :
        /\ to \in ValidTransitions[from]
        /\ Audit(r, u, "STATUS", from, to) \in auditLog
        /\ StatusKey(r, from, to) \in outbox
CancelledByEmployee(r) ==
    /\ Audit(r, request[r].employee, "REQUEST_CANCELLED", "PENDING", "CANCELLED") \in auditLog
    /\ CancelledKey(r) \in outbox

\* Whatever the interleaving and wherever calls break off, a request that
\* exists has its creation on record, and one in a terminal status has the
\* audit row and the event of a legal move into that status.
StatusIsOnRecord ==
    \A r \in Requests : Exists(r) =>
        /\ Created(r)
        /\ request[r].status \in {"COMPLETED", "REJECTED"} => MovedTo(r, request[r].status)
        /\ request[r].status = "CANCELLED" => MovedTo(r, "CANCELLED") \/ CancelledByEmployee(r)

\* A claim that won its conditional update never meets an existing key at
\* its plain notificationEvent.create, so the call does not fail after the
\* claim is visible.
ClaimEventIsNew ==
    \A c \in Calls : calls[c].pc = "claimEvent" =>
        ClaimedKey(calls[c].request, calls[c].user) \notin outbox

NoticeHasEvent(n) ==
    LET r == n.request IN
    CASE n.type = "request.created"   -> CreatedKey(r) \in outbox
      [] n.type = "request.claimed"   -> ClaimedKey(r, request[r].claimedBy) \in outbox
      [] n.type = "request.completed" -> StatusKey(r, "IN_PROGRESS", "COMPLETED") \in outbox
      [] n.type = "request.rejected"  ->
             \E from \in Status : StatusKey(r, from, "REJECTED") \in outbox
      [] n.type = "request.cancelled" ->
             CancelledKey(r) \in outbox \/ StatusKey(r, "PENDING", "CANCELLED") \in outbox
      [] OTHER -> FALSE

\* The inbox never tells anyone of a change that has no row in the outbox,
\* the declared source of truth.
InboxFollowsOutbox == \A n \in inbox : NoticeHasEvent(n)

\* Once a request has a claimant no claim, retry, update or cancellation
\* replaces or clears it, and a claimant is only set by the step that takes
\* the request from PENDING to IN_PROGRESS.
ClaimantIsFixedStep ==
    \A r \in Requests : Exists(r) /\ request'[r].claimedBy # request[r].claimedBy =>
        /\ request[r].claimedBy = None
        /\ request[r].status = "PENDING"
        /\ request'[r].status = "IN_PROGRESS"
ClaimantIsFixed == [][ClaimantIsFixedStep]_vars

\* The rows behave as RequestStates allows.
States == INSTANCE RequestStates WITH
              state    <- [r \in Requests |-> request[r].status],
              claimant <- [r \in Requests |-> request[r].claimedBy]
StatesSpec == States!Spec

\* When no call breaks off, a claimed request has the audit row and the event
\* of its claim, or the call of its claimant is about to write what is
\* missing: nobody else's call is needed, and no check can stop this one.
ClaimRecordIsPending ==
    \A r \in Requests : Exists(r) /\ request[r].claimedBy # None =>
        LET u       == request[r].claimedBy
            audited == Audit(r, u, "REQUEST_CLAIMED", None, None) \in auditLog
        IN  \/ audited /\ ClaimedKey(r, u) \in outbox
            \/ \E c \in Calls :
                   /\ \/ calls[c].pc = "claimAudit"
                      \/ calls[c].pc = "claimEvent" /\ audited
                   /\ calls[c].request = r
                   /\ calls[c].user = u

\* When no call breaks off, a completion or rejection on record has reached
\* the employee's inbox, or the call that made it has its fan-out ahead, with
\* the type of this outcome whatever happened to the request since.
OutcomeNoticeIsPending ==
    \A a \in auditLog :
        LET employee == request[a.request].employee IN
        /\ a.action = "STATUS"
        /\ a.new \in {"COMPLETED", "REJECTED"}
        /\ a.actor # employee
        => \/ [to |-> employee, type |-> EventType(a.new), request |-> a.request] \in inbox
           \/ \E c \in Calls : /\ calls[c].pc = "fanout"
                               /\ calls[c].type = EventType(a.new)
                               /\ calls[c].request = a.request
                               /\ calls[c].user = a.actor

\* What a committed claim or outcome still owes to the log, the outbox and the
\* inbox is in the hands of a call that is under way.
OwedIsUnderWay == ClaimRecordIsPending /\ OutcomeNoticeIsPending

\* When no call breaks off, a claim ends with both its audit row and event.
ClaimIsRecorded ==
    \A r \in Requests, u \in Users :
        request[r].claimedBy = u ~>
            /\ Audit(r, u, "REQUEST_CLAIMED", None, None) \in auditLog
            /\ ClaimedKey(r, u) \in outbox

\* When no call breaks off, an employee whose request someone else completed
\* or rejected finds a notice of it in the inbox.
EmployeeHearsOutcome ==
    \A r \in Requests, to \in {"COMPLETED", "REJECTED"} :
        (\E a \in auditLog : /\ a.request = r
                             /\ a.action = "STATUS"
                             /\ a.new = to
                             /\ a.actor # request[r].employee)
        ~> [to |-> request[r].employee, type |-> EventType(to), request |-> r] \in inbox

----------------------------------------------------------------------------
(* Statements of the documents and comments that the code does not keep *)

\* product-spec.md, acceptance criterion 6: an employee cannot cancel an
\* in-progress or terminal request. Cancelling what is cancelled already takes
\* nothing away and is not counted: what counts is a claim, a completion or a
\* rejection written over by a cancellation whose check came before it.
CancelOnlyPending ==
    [][\A c \in Calls : CancelTx(c) =>
          request[calls[c].request].status \notin {"IN_PROGRESS", "COMPLETED", "REJECTED"}]_vars

\* product-spec.md, acceptance criterion 12, of the claim: its audit row
\* exists, or the call that will write it is still running.
ClaimIsAudited ==
    \A r \in Requests : Exists(r) /\ request[r].claimedBy # None =>
        \/ Audit(r, request[r].claimedBy, "REQUEST_CLAIMED", None, None) \in auditLog
        \/ \E c \in Calls : calls[c].pc = "claimAudit" /\ calls[c].request = r

\* data-model.md: a request is completed only with a note or a document.
CompletionHasResolution ==
    [][\A r \in Requests :
          request[r].status # "COMPLETED" /\ request'[r].status = "COMPLETED" =>
              request'[r].hasNote \/ r \in attached]_vars

=============================================================================
