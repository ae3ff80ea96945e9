--------------------------- MODULE DocumentStore ---------------------------
(***************************************************************************)
(* The documents of one request: their rows, the bytes in the rows and the *)
(* objects in the bucket, as src/src/documents/documents.service.ts and    *)
(* src/src/retention/retention.service.ts write them.                      *)
(*                                                                         *)
(* Uploads, removals, purge runs and backfill runs are calls with a        *)
(* program counter; each S3 operation, each statement outside a            *)
(* transaction and each transaction is a step.  Who may upload and what a  *)
(* file may be is checked before any of this and left out, and so is the   *)
(* outbox event that commits with an audit row.  An upload is numbered     *)
(* when it starts; the number stands for its row, for its storage key      *)
(* (distinct unless two uploads of a request fall into one millisecond)    *)
(* and for its content.                                                    *)
(***************************************************************************)
EXTENDS Naturals, FiniteSets

CONSTANTS MaxDocs,          \* bound on the uploads
          Calls,            \* slots for concurrent calls and jobs
          MaxRestarts,      \* bound on the process restarts
          Faults            \* whether S3 and database operations can fail

ASSUME StoreAssumption == /\ MaxDocs \in Nat
                          /\ MaxRestarts \in Nat
                          /\ Faults \in BOOLEAN
                          /\ IsFiniteSet(Calls)

VARIABLES row,          \* the Document rows
          objects,      \* documents whose object is in the bucket
          expired,      \* rows whose purgeAt has passed
          auditLog,     \* [doc, action] of the audit rows
          s3,           \* MINIO_ENDPOINT is set
          backfillDue,  \* onModuleInit still has to start the backfill
          uploads,      \* number of uploads started
          restarts,
          condemned,    \* rows whose object a removal or purge set out to delete
          calls

vars == <<row, objects, expired, auditLog, s3, backfillDue, uploads, restarts, condemned,
          calls>>

Docs == 1..MaxDocs
NoDoc == 0

(* deletedAt and the prefix of storageKey: an active row has neither, a
   replaced one only deletedAt, a removed one "deleted/", a purged one
   "purged/".  bytes: the column data is not null. *)
DocRow == [state : {"absent", "active", "replaced", "removed", "purged"}, bytes : BOOLEAN]

Pc == {"put", "softDelete", "createRow", "deleteObject", "removeTx",
       "purgeDelete", "purgeUpdate", "purgeAudit", "backfillPut", "backfillClear"}

\* batch: the rows a job still has to do; bytesRead: those of them that the
\* query returned with data.
Call == [pc : Pc, doc : Docs, batch : SUBSET Docs, bytesRead : SUBSET Docs]
NoCall == [pc |-> "idle", doc |-> NoDoc, batch |-> {}, bytesRead |-> {}]

TypeOK == /\ row \in [Docs -> DocRow]
          /\ objects \subseteq Docs
          /\ expired \subseteq Docs
          /\ auditLog \subseteq [doc : Docs, action : {"UPLOADED", "DELETED", "PURGED"}]
          /\ s3 \in BOOLEAN /\ backfillDue \in {FALSE, s3}
          /\ uploads \in 0..MaxDocs
          /\ restarts \in 0..MaxRestarts
          /\ condemned \subseteq Docs
          /\ calls \in [Calls -> Call \cup {NoCall}]

Init == /\ row = [d \in Docs |-> [state |-> "absent", bytes |-> FALSE]]
        /\ objects = {}
        /\ expired = {} /\ auditLog = {} /\ condemned = {}
        /\ s3 \in BOOLEAN /\ backfillDue = FALSE
        /\ uploads = 0 /\ restarts = 0
        /\ calls = [c \in Calls |-> NoCall]

----------------------------------------------------------------------------

Active == {d \in Docs : row[d].state = "active"}
WithBytes == {d \in Docs : row[d].bytes}

At(c, pc) == calls[c].pc = pc
Goto(c, pc) == calls' = [calls EXCEPT ![c].pc = pc]
End(c) == calls' = [calls EXCEPT ![c] = NoCall]
Record(d, action) == auditLog' = auditLog \cup {[doc |-> d, action |-> action]}

Mode == <<s3, backfillDue, restarts>>
World == <<expired, Mode, uploads>>

----------------------------------------------------------------------------
(* POST /documents/:requestId *)

StartUpload(c) ==
    /\ At(c, "idle")
    /\ uploads < MaxDocs
    /\ uploads' = uploads + 1
    /\ calls' = [calls EXCEPT ![c] =
           [NoCall EXCEPT !.pc = IF s3 THEN "put" ELSE "softDelete", !.doc = uploads + 1]]
    /\ UNCHANGED <<row, objects, expired, auditLog, condemned, Mode>>

PutObject(c) ==
    /\ At(c, "put")
    /\ objects' = objects \cup {calls[c].doc}
    /\ Goto(c, "softDelete")
    /\ UNCHANGED <<row, auditLog, condemned, World>>

\* Mutant: the document that is replaced stays as it is.
ReplacedKeep(d) == FALSE

Replaced(d) == row[d].state = "active"

\* An updateMany of its own, before the transaction.
SoftDelete(c) ==
    /\ At(c, "softDelete")
    /\ row' = [d \in Docs |-> IF Replaced(d) THEN [row[d] EXCEPT !.state = "replaced"]
                                             ELSE row[d]]
    /\ Goto(c, "createRow")
    /\ UNCHANGED <<objects, auditLog, condemned, World>>

CreateRow(c) ==
    /\ At(c, "createRow")
    /\ row' = [row EXCEPT ![calls[c].doc] = [state |-> "active", bytes |-> ~s3]]
    /\ Record(calls[c].doc, "UPLOADED")
    /\ End(c)
    /\ UNCHANGED <<objects, condemned, World>>

----------------------------------------------------------------------------
(* DELETE /documents/:requestId *)

\* Mutant: the object is left where it is.
RemoveStepRowOnly(d) == "removeTx"

RemoveStep(d) == IF row[d].bytes THEN "removeTx" ELSE "deleteObject"

StartRemove(c, d) ==
    /\ At(c, "idle")
    /\ d \in Active
    /\ calls' = [calls EXCEPT ![c] =
           [NoCall EXCEPT !.pc = RemoveStep(d), !.doc = d]]
    /\ UNCHANGED <<row, objects, auditLog, condemned, World>>

\* Mutant: the row of an erased document keeps its bytes.
ErasedKeepBytes(d, state) == [row[d] EXCEPT !.state = state]

Erased(d, state) == [row[d] EXCEPT !.state = state, !.bytes = FALSE]

\* A failed delete is logged and the removal goes on.
DeleteObject(c) ==
    /\ At(c, "deleteObject")
    /\ \/ objects' = objects \ {calls[c].doc}
       \/ Faults /\ UNCHANGED objects
    /\ condemned' = condemned \cup {calls[c].doc}
    /\ Goto(c, "removeTx")
    /\ UNCHANGED <<row, auditLog, World>>

RemoveTx(c) ==
    /\ At(c, "removeTx")
    /\ row' = [row EXCEPT ![calls[c].doc] = Erased(calls[c].doc, "removed")]
    /\ Record(calls[c].doc, "DELETED")
    /\ End(c)
    /\ UNCHANGED <<objects, condemned, World>>

----------------------------------------------------------------------------
(* Jobs: a query, then a loop over its result *)

\* The state of a job that is about to treat the first row of S.
Loop(S, bytesRead, pcBytes, pcObject) ==
    IF S = {} THEN NoCall
    ELSE LET d == CHOOSE x \in S : \A y \in S : x <= y IN
         [pc |-> IF d \in bytesRead THEN pcBytes ELSE pcObject,
          doc |-> d, batch |-> S, bytesRead |-> bytesRead]

NextDoc(c, pcBytes, pcObject) ==
    calls' = [calls EXCEPT ![c] =
        Loop(calls[c].batch \ {calls[c].doc}, calls[c].bytesRead, pcBytes, pcObject)]

\* Mutants: the retention query only looks at rows that hold bytes, or at all
\* active rows.
PurgeableActive == Active
PurgeableBytes == expired \cap Active \cap WithBytes

Purgeable == expired \cap Active

(* RetentionService.purgeExpiredDocuments *)
StartPurge(c) ==
    /\ At(c, "idle")
    /\ Purgeable # {}
    /\ calls' = [calls EXCEPT ![c] = Loop(Purgeable, WithBytes, "purgeUpdate", "purgeDelete")]
    /\ UNCHANGED <<row, objects, auditLog, condemned, World>>

\* A failed delete leaves the document to the next run.
PurgeDelete(c) ==
    /\ At(c, "purgeDelete")
    /\ condemned' = condemned \cup {calls[c].doc}
    /\ \/ /\ objects' = objects \ {calls[c].doc}
          /\ Goto(c, "purgeUpdate")
       \/ /\ Faults
          /\ NextDoc(c, "purgeUpdate", "purgeDelete")
          /\ UNCHANGED objects
    /\ UNCHANGED <<row, auditLog, World>>

PurgeUpdate(c) ==
    /\ At(c, "purgeUpdate")
    /\ row' = [row EXCEPT ![calls[c].doc] = Erased(calls[c].doc, "purged")]
    /\ Goto(c, "purgeAudit")
    /\ UNCHANGED <<objects, auditLog, condemned, World>>

PurgeAudit(c) ==
    /\ At(c, "purgeAudit")
    /\ Record(calls[c].doc, "PURGED")
    /\ NextDoc(c, "purgeUpdate", "purgeDelete")
    /\ UNCHANGED <<row, objects, condemned, World>>

(* DocumentsService.backfillDbDocumentsToS3, started by onModuleInit *)
StartBackfill(c) ==
    /\ backfillDue
    /\ At(c, "idle")
    /\ backfillDue' = FALSE
    /\ calls' = [calls EXCEPT ![c] =
           Loop(Active \cap WithBytes, Docs, "backfillPut", "backfillPut")]
    /\ UNCHANGED <<row, objects, expired, auditLog, s3, restarts, condemned, uploads>>

\* Mutant: the bytes are cleared before they are in the bucket.
BackfillFirstClear(c) == At(c, "backfillClear") \/ At(c, "backfillPut")

BackfillReady(c) == At(c, "backfillClear")

BackfillPut(c) ==
    /\ At(c, "backfillPut")
    /\ \/ /\ objects' = objects \cup {calls[c].doc}
          /\ Goto(c, "backfillClear")
       \/ /\ Faults
          /\ NextDoc(c, "backfillPut", "backfillPut")
          /\ UNCHANGED objects
    /\ UNCHANGED <<row, auditLog, condemned, World>>

BackfillClear(c) ==
    /\ BackfillReady(c)
    /\ row' = [row EXCEPT ![calls[c].doc].bytes = FALSE]
    /\ NextDoc(c, "backfillPut", "backfillPut")
    /\ UNCHANGED <<objects, auditLog, condemned, World>>

----------------------------------------------------------------------------

\* S3 or the database fails an upload, or the database a removal.
CallFails(c) ==
    /\ Faults
    /\ calls[c].pc \in {"put", "softDelete", "createRow", "removeTx"}
    /\ End(c)
    /\ UNCHANGED <<row, objects, auditLog, condemned, World>>

\* A job logs the failure and goes on with the next row.
JobSkips(c) ==
    /\ Faults
    /\ \/ calls[c].pc \in {"purgeUpdate", "purgeAudit"} /\ NextDoc(c, "purgeUpdate", "purgeDelete")
       \/ At(c, "backfillClear") /\ NextDoc(c, "backfillPut", "backfillPut")
    /\ UNCHANGED <<row, objects, auditLog, condemned, World>>

\* The process ends; object storage may be configured before it starts again.
\* Mutant: the configuration is not looked at.
BackfillAtBootAlways(configured) == TRUE

BackfillAtBoot(configured) == configured

Restart ==
    /\ restarts < MaxRestarts
    /\ restarts' = restarts + 1
    /\ s3' \in {s3, TRUE}
    /\ backfillDue' = BackfillAtBoot(s3')
    /\ calls' = [c \in Calls |-> NoCall]
    /\ UNCHANGED <<row, objects, expired, auditLog, condemned, uploads>>

\* Thirty days pass.
Expire(d) ==
    /\ row[d].state # "absent"
    /\ d \notin expired
    /\ expired' = expired \cup {d}
    /\ UNCHANGED <<row, objects, auditLog, condemned, calls, Mode, uploads>>

Step(c) == \/ PutObject(c) \/ SoftDelete(c) \/ CreateRow(c)
           \/ DeleteObject(c) \/ RemoveTx(c)
           \/ PurgeDelete(c) \/ PurgeUpdate(c) \/ PurgeAudit(c)
           \/ BackfillPut(c) \/ BackfillClear(c)

Next == \/ \E c \in Calls : \/ StartUpload(c) \/ StartPurge(c) \/ StartBackfill(c)
                            \/ \E d \in Docs : StartRemove(c, d)
                            \/ Step(c) \/ CallFails(c) \/ JobSkips(c)
        \/ Restart
        \/ \E d \in Docs : Expire(d)

Spec == Init /\ [][Next]_vars

\* The event loop resumes every call, and the daily cron keeps firing.
Fairness == \A c \in Calls : WF_vars(Step(c)) /\ WF_vars(StartPurge(c))

----------------------------------------------------------------------------
(* Properties *)

HasPayload(d) == row[d].bytes \/ d \in objects

\* While the backfill moves payloads, uploads replace documents and calls
\* break off, an active document keeps its own content, in the row or in the
\* bucket, until a removal or a purge sets out to delete it.
ActiveHasPayload == \A d \in Active : HasPayload(d) \/ d \in condemned

\* No interleaving of removal, purge and backfill leaves bytes in the row of
\* an erased document, and a removed one has its audit row.
ErasedRowsAreEmpty ==
    \A d \in Docs :
        /\ row[d].state \in {"removed", "purged"} => ~row[d].bytes
        /\ row[d].state = "removed" => [doc |-> d, action |-> "DELETED"] \in auditLog

\* However many uploads overlap, each replaces what was active before it: the
\* active documents never outnumber the calls that can run at once.
ActiveIsBounded == Cardinality(Active) <= Cardinality(Calls)

\* While no delete fails and no backfill has run, the object of an erased
\* document is gone, whatever removals, purges and uploads overlap.
ErasedHasNoObject ==
    restarts = 0 =>
        \A d \in Docs : row[d].state \in {"removed", "purged"} => d \notin objects

\* The documents behave as DocumentStates allows, with all the calls, jobs,
\* failures and restarts of the service and the retention.
Documents == INSTANCE DocumentStates WITH
                 state  <- [d \in Docs |-> row[d].state],
                 held   <- {d \in Docs : row[d].bytes},
                 stored <- objects,
                 due    <- expired
DocumentsSpec == Documents!Spec

\* The payload of an expired document goes, bytes and object, with its removal or
\* with a daily purge, whatever removals and the backfill do meanwhile; that of one
\* an upload replaced first stays for ever, as the purge only looks at rows whose
\* deletedAt is null.  Once the process has restarted, and a backfill may have run,
\* only the bytes are sure to go.
PayloadErased(d) == /\ row[d].state \in {"removed", "purged"}
                    /\ ~row[d].bytes
                    /\ d \in objects => restarts > 0
ExpiredIsErasedOrReplaced ==
    \A d \in Docs : (d \in expired /\ HasPayload(d)) ~> (PayloadErased(d) \/ row[d].state = "replaced")

----------------------------------------------------------------------------
(* Statements of the documents that the code does not keep *)

\* data-model.md: the purge must not restore a deleted object.  Nothing that
\* runs may put the object of an erased document back.
NoObjectComesBack ==
    [][\A d \in Docs : row[d].state \in {"removed", "purged"} /\ d \notin objects
          => d \notin objects']_vars

=============================================================================
