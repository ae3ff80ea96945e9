----------------------------- MODULE ServiceDesk -----------------------------
(***************************************************************************)
(* The documents of a request next to the request: DocumentStore and       *)
(* RequestLifecycle for one request, tied by the two things that they read *)
(* of each other.  documents.upload reads the claimant once, before its    *)
(* writes, and updateStatus counts the documents once, before its          *)
(* transaction.                                                            *)
(***************************************************************************)
EXTENDS DocumentStore

CONSTANTS Ticket,                 \* the request
          Users, Admins, None,    \* as in RequestLifecycle
          ApiCalls                \* slots for calls of the request API

ASSUME DeskAssumption == /\ Admins \subseteq Users
                         /\ None \notin Users \cup {Ticket}

VARIABLES request, members, requestLog, outbox, inbox, apiCalls

requestVars == <<request, members, requestLog, outbox, inbox, apiCalls>>
deskVars == <<requestVars, vars>>

\* document.count of the documents whose deletedAt is null.
Attached == {r \in {Ticket} : Active # {}}

RequestApi == INSTANCE RequestLifecycle WITH
                Requests <- {Ticket}, attached <- Attached,
                Calls <- ApiCalls, calls <- apiCalls, auditLog <- requestLog

DeskInit == Init /\ RequestApi!Init

----------------------------------------------------------------------------

RequestStep == /\ UNCHANGED vars
               /\ \/ \E c \in ApiCalls : \/ RequestApi!Arrive(c)
                                         \/ RequestApi!Resume(c)
                                         \/ RequestApi!Abort(c)
                  \/ \E u \in Users : RequestApi!JoinDepartment(u)

\* Mutant: the claimant is not asked for.
MayUploadUnclaimed == RequestApi!Exists(Ticket)

\* The claimant himself, the managers of the department and the admins pass
\* the check of access that follows.
MayUpload == /\ RequestApi!Exists(Ticket)
             /\ request[Ticket].claimedBy # None

\* The claimant is read here, and not again before the row is created.
Upload(c) == MayUpload /\ StartUpload(c)

\* One process serves both: it is gone when its request calls have ended or
\* broken off.
Stop == /\ \A c \in ApiCalls : RequestApi!Idle(c)
        /\ Restart

DocumentStep == /\ \/ \E c \in Calls : \/ Upload(c) \/ StartPurge(c) \/ StartBackfill(c)
                                       \/ \E d \in Docs : StartRemove(c, d)
                                       \/ Step(c) \/ CallFails(c) \/ JobSkips(c)
                   \/ Stop
                   \/ \E d \in Docs : Expire(d)
                /\ UNCHANGED requestVars

DeskNext == RequestStep \/ DocumentStep

DeskSpec == DeskInit /\ [][DeskNext]_deskVars

\* Nothing is assumed of the calls on requests.
DeskFairSpec == DeskSpec /\ Fairness

----------------------------------------------------------------------------
(* Properties *)

\* Requests behave as RequestLifecycle says, where documents come and go as
\* they like: with real uploads, removals and purges none comes to a request
\* that nobody has claimed, long though the claimant was read before the row
\* is created.
RequestsSpec == RequestApi!Spec

Gone == {d \in Docs : row[d].state \in {"removed", "purged"}}

\* Until something fails or the process restarts, a request completed without
\* a note has a document to show, or an upload about to create one, unless one
\* was removed or purged: replacements that overlap each other and the
\* completion lose none.
ResolutionIsKept ==
    /\ ~Faults /\ restarts = 0
    /\ request[Ticket].status = "COMPLETED" /\ ~request[Ticket].hasNote
    => \/ Active # {} \/ Gone # {}
       \/ \E c \in Calls : At(c, "createRow")

=============================================================================
