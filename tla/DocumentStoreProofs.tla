------------------------ MODULE DocumentStoreProofs ------------------------
(***************************************************************************)
(* Theorems about DocumentStore, for any number of uploads, of calls and   *)
(* jobs under way at the same time and of restarts, with or without        *)
(* failures of S3 and the database.                                        *)
(***************************************************************************)
EXTENDS DocumentStore, FiniteSetTheorems, WellFoundedInduction, TLAPS

(* Calls *)

LEMMA Least ==
    ASSUME NEW S \in SUBSET Docs, S # {}
    PROVE  \E x \in S : \A y \in S : x <= y
<1> DEFINE Less == OpToRel(<, Nat)
<1>1. \A x, y \in Nat : <<y, x>> \in Less <=> y < x
  BY DEF OpToRel
<1>2. IsWellFoundedOn(Less, Nat)
  BY NatLessThanWellFounded
<1> HIDE DEF Less
<1>3. S \subseteq Nat
  BY StoreAssumption DEF StoreAssumption, Docs
<1>4. PICK x \in S : \A y \in S : ~(<<y, x>> \in Less)
  BY <1>2, <1>3, WFMin
<1>5. ASSUME NEW y \in S PROVE x <= y
  <2>1. x \in Nat /\ y \in Nat
    BY <1>3
  <2>2. ~(y < x)
    BY <1>1, <1>4, <2>1
  <2> QED
    BY <2>1, <2>2
<1> QED
  BY <1>5

\* A job goes on with one of the rows it has left, or ends.
LEMMA LoopIsTyped ==
    ASSUME NEW S \in SUBSET Docs, NEW B \in SUBSET Docs, NEW p \in Pc, NEW q \in Pc
    PROVE  LET next == Loop(S, B, p, q) IN
           \/ next = NoCall
           \/ /\ next \in Call
              /\ next.doc \in S /\ next.batch = S /\ next.bytesRead = B
              /\ next.doc \in B => next.pc = p
              /\ next.doc \notin B => next.pc = q
<1>1. CASE S = {}
  BY <1>1 DEF Loop
<1>2. CASE S # {}
  <2> DEFINE d == CHOOSE x \in S : \A y \in S : x <= y
  <2>1. d \in S
    BY <1>2, Least
  <2>2. Loop(S, B, p, q) = [pc |-> IF d \in B THEN p ELSE q, doc |-> d, batch |-> S, bytesRead |-> B]
    BY <1>2 DEF Loop
  <2> HIDE DEF d
  <2> QED
    BY <2>1, <2>2 DEF Call
<1> QED
  BY <1>1, <1>2

CallsAreTyped == calls \in [Calls -> Call \cup {NoCall}]

\* What the steps of call c make of it: v.
Becomes(c, v) == calls' = [calls EXCEPT ![c] = v]

LEMMA BecomesIsTyped ==
    ASSUME CallsAreTyped, NEW c \in Calls, NEW v \in Call \cup {NoCall}, Becomes(c, v)
    PROVE  CallsAreTyped' /\ calls'[c] = v /\ \A x \in Calls \ {c} : calls'[x] = calls[x]
BY DEF CallsAreTyped, Becomes

LEMMA UnderWay ==
    ASSUME CallsAreTyped, NEW c \in Calls, calls[c].pc # "idle"
    PROVE  calls[c] \in Call /\ calls[c].doc \in Docs
BY DEF CallsAreTyped, NoCall, Call

LEMMA Waiting ==
    ASSUME CallsAreTyped, NEW c \in Calls, calls[c].pc = "idle"
    PROVE  calls[c] = NoCall
BY DEF CallsAreTyped, Call, Pc

LEMMA GotoIsTyped ==
    ASSUME CallsAreTyped, NEW c \in Calls, calls[c].pc # "idle", NEW pc \in Pc, Goto(c, pc)
    PROVE  /\ CallsAreTyped' /\ \A x \in Calls \ {c} : calls'[x] = calls[x]
           /\ calls'[c] = [calls[c] EXCEPT !.pc = pc]
           /\ calls'[c].pc = pc /\ calls'[c].doc = calls[c].doc /\ calls'[c].batch = calls[c].batch
           /\ calls'[c].bytesRead = calls[c].bytesRead
<1>1. calls[c] \in Call
  BY UnderWay
<1>2. [calls[c] EXCEPT !.pc = pc] \in Call
  BY <1>1 DEF Call
<1>3. Becomes(c, [calls[c] EXCEPT !.pc = pc])
  BY DEF Goto, Becomes, CallsAreTyped
<1> QED
  BY <1>1, <1>2, <1>3, BecomesIsTyped DEF Call

LEMMA EndIsTyped ==
    ASSUME CallsAreTyped, NEW c \in Calls, End(c)
    PROVE  /\ CallsAreTyped' /\ \A x \in Calls \ {c} : calls'[x] = calls[x]
           /\ calls'[c] = NoCall /\ calls'[c].pc = "idle"
BY DEF CallsAreTyped, End, NoCall

LEMMA NextDocIsTyped ==
    ASSUME CallsAreTyped, NEW c \in Calls, calls[c].pc # "idle", NEW p \in Pc, NEW q \in Pc, NextDoc(c, p, q)
    PROVE  /\ CallsAreTyped' /\ \A x \in Calls \ {c} : calls'[x] = calls[x]
           /\ \/ calls'[c] = NoCall /\ calls'[c].pc = "idle"
              \/ /\ calls'[c] \in Call
                 /\ calls'[c].doc \in calls[c].batch /\ calls'[c].batch \subseteq calls[c].batch
                 /\ calls'[c].bytesRead = calls[c].bytesRead
                 /\ calls'[c].doc \in calls[c].bytesRead => calls'[c].pc = p
                 /\ calls'[c].doc \notin calls[c].bytesRead => calls'[c].pc = q
<1> DEFINE S == calls[c].batch \ {calls[c].doc}
           B == calls[c].bytesRead
           next == Loop(S, B, p, q)
<1>1. S \in SUBSET Docs /\ B \in SUBSET Docs
  BY UnderWay DEF Call
<1>2. Becomes(c, next)
  BY DEF NextDoc, Becomes
<1> HIDE DEF S, B
<1>3. \/ next = NoCall
      \/ /\ next \in Call
         /\ next.doc \in S /\ next.batch = S /\ next.bytesRead = B
         /\ next.doc \in B => next.pc = p
         /\ next.doc \notin B => next.pc = q
  BY <1>1, LoopIsTyped
<1> HIDE DEF next
<1>4. CallsAreTyped' /\ calls'[c] = next /\ \A x \in Calls \ {c} : calls'[x] = calls[x]
  BY <1>2, <1>3, BecomesIsTyped
<1>5. NoCall.pc = "idle"
  BY DEF NoCall
<1> QED
  BY <1>3, <1>4, <1>5 DEF S, B

LEMMA StartIsTyped ==
    ASSUME CallsAreTyped, NEW c \in Calls, NEW S \in SUBSET Docs, NEW B \in SUBSET Docs,
           NEW p \in Pc, NEW q \in Pc, Becomes(c, Loop(S, B, p, q))
    PROVE  /\ CallsAreTyped' /\ \A x \in Calls \ {c} : calls'[x] = calls[x]
           /\ \/ calls'[c] = NoCall /\ calls'[c].pc = "idle"
              \/ /\ calls'[c] \in Call
                 /\ calls'[c].doc \in S /\ calls'[c].batch = S /\ calls'[c].bytesRead = B
                 /\ calls'[c].doc \in B => calls'[c].pc = p
                 /\ calls'[c].doc \notin B => calls'[c].pc = q
<1> DEFINE next == Loop(S, B, p, q)
<1>1. \/ next = NoCall
      \/ /\ next \in Call
         /\ next.doc \in S /\ next.batch = S /\ next.bytesRead = B
         /\ next.doc \in B => next.pc = p
         /\ next.doc \notin B => next.pc = q
  BY LoopIsTyped
<1>2. Becomes(c, next)
  OBVIOUS
<1> HIDE DEF next
<1>3. CallsAreTyped' /\ calls'[c] = next /\ \A x \in Calls \ {c} : calls'[x] = calls[x]
  BY <1>1, <1>2, BecomesIsTyped
<1>4. NoCall.pc = "idle"
  BY DEF NoCall
<1> QED
  BY <1>1, <1>3, <1>4

----------------------------------------------------------------------------
(* The inductive invariant *)

Kept(d) == d \in objects \/ d \in condemned

\* An upload that goes on to its row has its object stored, if there is a
\* bucket; the backfill clears only what it stored.  Unless it was deleted.
UploadIsStored(c) == calls[c].pc \in {"softDelete", "createRow"} => ~s3 \/ Kept(calls[c].doc)
MoveIsStored(c) == calls[c].pc = "backfillClear" => Kept(calls[c].doc)

\* The uploads about to create a row count as its active document.
Creating == {c \in Calls : calls[c].pc = "createRow"}
HasRoom == Cardinality(Active) + Cardinality(Creating) <= Cardinality(Calls)

Inv == /\ TypeOK
       /\ \A c \in Calls : UploadIsStored(c) /\ MoveIsStored(c)
       /\ ActiveHasPayload
       /\ ErasedRowsAreEmpty
       /\ HasRoom

LEMMA Finite ==
    /\ IsFiniteSet(Docs) /\ IsFiniteSet(Calls) /\ Cardinality(Calls) \in Nat
    /\ \A S \in SUBSET Docs : IsFiniteSet(S) /\ Cardinality(S) \in Nat
    /\ \A S \in SUBSET Calls : IsFiniteSet(S) /\ Cardinality(S) \in Nat
<1>1. IsFiniteSet(Docs)
  BY StoreAssumption, FS_Interval DEF StoreAssumption, Docs
<1>2. IsFiniteSet(Calls)
  BY StoreAssumption DEF StoreAssumption
<1> QED
  BY <1>1, <1>2, FS_Subset, FS_CardinalityType

LEMMA RoomStays ==
    ASSUME HasRoom, Active' \subseteq Active, Creating' \subseteq Creating
    PROVE  HasRoom'
<1>1. Active \in SUBSET Docs /\ Active' \in SUBSET Docs /\ Creating \in SUBSET Calls /\ Creating' \in SUBSET Calls
  BY DEF Active, Creating
<1>2. Cardinality(Active') <= Cardinality(Active) /\ Cardinality(Creating') <= Cardinality(Creating)
  BY <1>1, Finite, FS_Subset
<1>3. /\ Cardinality(Active)' = Cardinality(Active') /\ Cardinality(Creating)' = Cardinality(Creating')
      /\ Cardinality(Calls)' = Cardinality(Calls)
  OBVIOUS
<1> QED
  BY <1>1, <1>2, <1>3, Finite DEF HasRoom

LEMMA InitInv == Init => Inv
<1> SUFFICES ASSUME Init PROVE Inv
  OBVIOUS
<1>1. TypeOK
  <2>1. 0 \in 0..MaxDocs /\ 0 \in 0..MaxRestarts
    BY StoreAssumption DEF StoreAssumption
  <2>2. row \in [Docs -> DocRow] /\ calls \in [Calls -> Call \cup {NoCall}]
    BY DEF Init, DocRow
  <2> QED
    BY <2>1, <2>2 DEF Init, TypeOK
<1>2. Active = {} /\ Creating = {}
  BY DEF Init, Active, Creating, NoCall
<1>3. HasRoom
  <2>1. Cardinality({}) = 0
    BY FS_EmptySet
  <2> QED
    BY <2>1, <1>2, Finite DEF HasRoom
<1>4. \A c \in Calls : UploadIsStored(c) /\ MoveIsStored(c)
  BY DEF Init, UploadIsStored, MoveIsStored, NoCall
<1>5. ActiveHasPayload /\ ErasedRowsAreEmpty
  BY <1>2 DEF ActiveHasPayload, ErasedRowsAreEmpty, Init
<1> QED
  BY <1>1, <1>3, <1>4, <1>5 DEF Inv

\* A step of call c that keeps what the others rely on.
LEMMA StepKeepsInv ==
    ASSUME Inv, TypeOK', NEW c \in Calls,
           \A x \in Calls \ {c} : calls'[x] = calls[x],
           objects \cup condemned \subseteq objects' \cup condemned', s3' = s3,
           UploadIsStored(c)', MoveIsStored(c)',
           ActiveHasPayload', ErasedRowsAreEmpty', HasRoom'
    PROVE  Inv'
BY DEF Inv, UploadIsStored, MoveIsStored, Kept

\* A step of call c that changes no row.
LEMMA NoRowChanges ==
    ASSUME Inv, TypeOK', NEW c \in Calls,
           \A x \in Calls \ {c} : calls'[x] = calls[x],
           objects \cup condemned \subseteq objects' \cup condemned', s3' = s3,
           row' = row, auditLog \subseteq auditLog',
           calls'[c].pc # "createRow", UploadIsStored(c)', MoveIsStored(c)'
    PROVE  Inv'
<1>1. ActiveHasPayload'
  BY DEF Inv, ActiveHasPayload, HasPayload, Active
<1>2. ErasedRowsAreEmpty'
  BY DEF Inv, ErasedRowsAreEmpty
<1>3. HasRoom'
  <2>1. Active' \subseteq Active /\ Creating' \subseteq Creating
    BY DEF Active, Creating
  <2> QED
    BY <2>1, RoomStays DEF Inv
<1> QED
  BY <1>1, <1>2, <1>3, StepKeepsInv

----------------------------------------------------------------------------
(* The steps that change no row *)

LEMMA UploadSteps ==
    ASSUME Inv, NEW c \in Calls, StartUpload(c) \/ PutObject(c)
    PROVE  Inv'
<1>0. CallsAreTyped
  BY DEF Inv, TypeOK, CallsAreTyped
<1>1. CASE StartUpload(c)
  <2> DEFINE v == [NoCall EXCEPT !.pc = IF s3 THEN "put" ELSE "softDelete", !.doc = uploads + 1]
  <2>1. uploads + 1 \in Docs /\ uploads' = uploads + 1
    BY <1>1, StoreAssumption DEF StartUpload, Docs, StoreAssumption, Inv, TypeOK
  <2>2. v \in Call /\ v.pc = (IF s3 THEN "put" ELSE "softDelete")
    BY <2>1 DEF NoCall, Call, Pc
  <2>3. Becomes(c, v)
    BY <1>1 DEF StartUpload, Becomes
  <2> HIDE DEF v
  <2>4. CallsAreTyped' /\ calls'[c] = v /\ \A x \in Calls \ {c} : calls'[x] = calls[x]
    BY <2>2, <2>3, <1>0, BecomesIsTyped
  <2>5. TypeOK'
    <3>1. uploads' \in 0..MaxDocs
      BY <2>1, StoreAssumption DEF Docs, StoreAssumption
    <3> QED
      BY <3>1, <2>4, <1>1 DEF StartUpload, Mode, Inv, TypeOK, CallsAreTyped
  <2>6. calls'[c].pc # "createRow" /\ UploadIsStored(c)' /\ MoveIsStored(c)'
    BY <2>2, <2>4, <1>1 DEF StartUpload, Mode, UploadIsStored, MoveIsStored
  <2> QED
    BY <2>4, <2>5, <2>6, <1>1, NoRowChanges DEF StartUpload, Mode
<1>2. CASE PutObject(c)
  <2>1. /\ calls[c].doc \in Docs
        /\ CallsAreTyped' /\ \A x \in Calls \ {c} : calls'[x] = calls[x]
        /\ calls'[c].pc = "softDelete" /\ calls'[c].doc = calls[c].doc
    BY <1>0, <1>2, UnderWay, GotoIsTyped DEF PutObject, At, Pc
  <2>2. TypeOK'
    BY <2>1, <1>2 DEF PutObject, World, Mode, Inv, TypeOK, CallsAreTyped
  <2>3. UploadIsStored(c)' /\ MoveIsStored(c)'
    BY <2>1, <1>2 DEF PutObject, UploadIsStored, MoveIsStored, Kept
  <2> QED
    BY <2>1, <2>2, <2>3, <1>2, NoRowChanges DEF PutObject, World, Mode
<1> QED
  BY <1>1, <1>2

LEMMA RemoveSteps ==
    ASSUME Inv, NEW c \in Calls, (\E d \in Docs : StartRemove(c, d)) \/ DeleteObject(c)
    PROVE  Inv'
<1>0. CallsAreTyped
  BY DEF Inv, TypeOK, CallsAreTyped
<1>1. CASE \E d \in Docs : StartRemove(c, d)
  <2>1. PICK d \in Docs : StartRemove(c, d)
    BY <1>1
  <2> DEFINE v == [NoCall EXCEPT !.pc = RemoveStep(d), !.doc = d]
  <2>2. v \in Call /\ v.pc \in {"removeTx", "deleteObject"}
    BY DEF NoCall, Call, Pc, RemoveStep
  <2>3. Becomes(c, v)
    BY <2>1 DEF StartRemove, Becomes
  <2> HIDE DEF v
  <2>4. CallsAreTyped' /\ calls'[c] = v /\ \A x \in Calls \ {c} : calls'[x] = calls[x]
    BY <2>2, <2>3, <1>0, BecomesIsTyped
  <2>5. TypeOK'
    BY <2>1, <2>4 DEF StartRemove, World, Mode, Inv, TypeOK, CallsAreTyped
  <2>6. calls'[c].pc # "createRow" /\ UploadIsStored(c)' /\ MoveIsStored(c)'
    BY <2>2, <2>4 DEF UploadIsStored, MoveIsStored
  <2> QED
    BY <2>1, <2>4, <2>5, <2>6, NoRowChanges DEF StartRemove, World, Mode
<1>2. CASE DeleteObject(c)
  <2>1. /\ calls[c].doc \in Docs
        /\ CallsAreTyped' /\ \A x \in Calls \ {c} : calls'[x] = calls[x]
        /\ calls'[c].pc = "removeTx"
    BY <1>0, <1>2, UnderWay, GotoIsTyped DEF DeleteObject, At, Pc
  <2>2. TypeOK'
    BY <2>1, <1>2 DEF DeleteObject, World, Mode, Inv, TypeOK, CallsAreTyped
  <2>3. UploadIsStored(c)' /\ MoveIsStored(c)' /\ calls'[c].pc # "createRow"
    BY <2>1 DEF UploadIsStored, MoveIsStored
  <2>4. objects \cup condemned \subseteq objects' \cup condemned'
    BY <1>2 DEF DeleteObject
  <2> QED
    BY <2>1, <2>2, <2>3, <2>4, <1>2, NoRowChanges DEF DeleteObject, World, Mode
<1> QED
  BY <1>1, <1>2

LEMMA JobStarts ==
    ASSUME Inv, NEW c \in Calls, StartPurge(c) \/ StartBackfill(c)
    PROVE  Inv'
<1>0. CallsAreTyped
  BY DEF Inv, TypeOK, CallsAreTyped
<1>1. PICK S \in SUBSET Docs, B \in SUBSET Docs, p \in Pc, q \in Pc :
         /\ Becomes(c, Loop(S, B, p, q))
         /\ p \in {"purgeUpdate", "backfillPut"} /\ q \in {"purgeDelete", "backfillPut"}
  <2>1. CASE StartPurge(c)
    BY <2>1 DEF StartPurge, Becomes, Purgeable, Active, WithBytes, Pc
  <2>2. CASE StartBackfill(c)
    BY <2>2 DEF StartBackfill, Becomes, Active, WithBytes, Pc
  <2> QED
    BY <2>1, <2>2
<1>2. /\ CallsAreTyped' /\ \A x \in Calls \ {c} : calls'[x] = calls[x]
      /\ calls'[c].pc \in {"idle", "purgeUpdate", "purgeDelete", "backfillPut"}
  <2>1. Becomes(c, Loop(S, B, p, q))
    BY <1>1
  <2>2. /\ CallsAreTyped' /\ \A x \in Calls \ {c} : calls'[x] = calls[x]
        /\ \/ calls'[c].pc = "idle"
           \/ /\ calls'[c].doc \in B => calls'[c].pc = p
              /\ calls'[c].doc \notin B => calls'[c].pc = q
    BY <2>1, <1>0, StartIsTyped
  <2> QED
    BY <2>2, <1>1
<1>3. TypeOK' /\ UNCHANGED <<row, objects, auditLog, condemned, s3>>
  BY <1>2 DEF StartPurge, StartBackfill, World, Mode, Inv, TypeOK, CallsAreTyped
<1>4. UploadIsStored(c)' /\ MoveIsStored(c)' /\ calls'[c].pc # "createRow"
  BY <1>2 DEF UploadIsStored, MoveIsStored
<1> QED
  BY <1>2, <1>3, <1>4, NoRowChanges

\* A job goes on with its next row.
LEMMA NextDocKeepsInv ==
    ASSUME Inv, NEW c \in Calls, calls[c].pc # "idle",
           NextDoc(c, "purgeUpdate", "purgeDelete") \/ NextDoc(c, "backfillPut", "backfillPut"),
           UNCHANGED <<row, objects, World>>, condemned \subseteq condemned', condemned' \subseteq Docs,
           auditLog \subseteq auditLog',
           auditLog' \subseteq [doc : Docs, action : {"UPLOADED", "DELETED", "PURGED"}]
    PROVE  Inv'
<1>0. CallsAreTyped
  BY DEF Inv, TypeOK, CallsAreTyped
<1>1. /\ CallsAreTyped' /\ \A x \in Calls \ {c} : calls'[x] = calls[x]
      /\ calls'[c].pc \in {"idle", "purgeUpdate", "purgeDelete", "backfillPut"}
  <2>1. {"purgeUpdate", "purgeDelete", "backfillPut"} \subseteq Pc
    BY DEF Pc
  <2> QED
    BY <2>1, <1>0, NextDocIsTyped
<1>2. TypeOK' /\ s3' = s3
  BY <1>1 DEF World, Mode, Inv, TypeOK, CallsAreTyped
<1>3. UploadIsStored(c)' /\ MoveIsStored(c)' /\ calls'[c].pc # "createRow"
  BY <1>1 DEF UploadIsStored, MoveIsStored
<1>4. objects \cup condemned \subseteq objects' \cup condemned'
  OBVIOUS
<1> QED
  BY <1>1, <1>2, <1>3, <1>4, NoRowChanges

LEMMA JobSteps ==
    ASSUME Inv, NEW c \in Calls,
           PurgeDelete(c) \/ PurgeAudit(c) \/ BackfillPut(c) \/ JobSkips(c)
    PROVE  Inv'
<1>0. CallsAreTyped /\ calls[c].pc # "idle" /\ calls[c].doc \in Docs
  <2>1. CallsAreTyped /\ calls[c].pc # "idle"
    BY DEF Inv, TypeOK, CallsAreTyped, PurgeDelete, PurgeAudit, BackfillPut, JobSkips, At
  <2> QED
    BY <2>1, UnderWay
<1>1. CASE PurgeDelete(c)
  <2>1. CASE Goto(c, "purgeUpdate") /\ objects' = objects \ {calls[c].doc}
    <3>1. /\ CallsAreTyped' /\ \A x \in Calls \ {c} : calls'[x] = calls[x]
          /\ calls'[c].pc = "purgeUpdate"
      BY <2>1, <1>0, GotoIsTyped DEF Pc
    <3>2. TypeOK'
      BY <3>1, <2>1, <1>0, <1>1 DEF PurgeDelete, World, Mode, Inv, TypeOK, CallsAreTyped
    <3>3. UploadIsStored(c)' /\ MoveIsStored(c)' /\ calls'[c].pc # "createRow"
      BY <3>1 DEF UploadIsStored, MoveIsStored
    <3>4. objects \cup condemned \subseteq objects' \cup condemned'
      BY <2>1, <1>1 DEF PurgeDelete
    <3> QED
      BY <3>1, <3>2, <3>3, <3>4, <1>1, NoRowChanges DEF PurgeDelete, World, Mode
  <2>2. CASE NextDoc(c, "purgeUpdate", "purgeDelete") /\ UNCHANGED objects
    <3>1. condemned' \subseteq Docs /\ condemned \subseteq condemned'
      BY <1>0, <1>1 DEF PurgeDelete, Inv, TypeOK
    <3>2. auditLog' = auditLog /\ auditLog \subseteq [doc : Docs, action : {"UPLOADED", "DELETED", "PURGED"}]
      BY <1>1 DEF PurgeDelete, Inv, TypeOK
    <3> QED
      BY <3>1, <3>2, <2>2, <1>0, <1>1, NextDocKeepsInv DEF PurgeDelete
  <2> QED
    BY <2>1, <2>2, <1>1 DEF PurgeDelete
<1>2. CASE PurgeAudit(c)
  <2>1. /\ auditLog \subseteq auditLog'
        /\ auditLog' \subseteq [doc : Docs, action : {"UPLOADED", "DELETED", "PURGED"}]
    BY <1>0, <1>2 DEF PurgeAudit, Record, Inv, TypeOK
  <2>2. condemned' = condemned /\ condemned \subseteq Docs
    BY <1>2 DEF PurgeAudit, Inv, TypeOK
  <2> QED
    BY <2>1, <2>2, <1>0, <1>2, NextDocKeepsInv DEF PurgeAudit
<1>3. CASE BackfillPut(c)
  <2>1. CASE Goto(c, "backfillClear") /\ objects' = objects \cup {calls[c].doc}
    <3>1. /\ CallsAreTyped' /\ \A x \in Calls \ {c} : calls'[x] = calls[x]
          /\ calls'[c].pc = "backfillClear" /\ calls'[c].doc = calls[c].doc
      BY <2>1, <1>0, GotoIsTyped DEF Pc
    <3>2. TypeOK'
      BY <3>1, <2>1, <1>0, <1>3 DEF BackfillPut, World, Mode, Inv, TypeOK, CallsAreTyped
    <3>3. UploadIsStored(c)' /\ MoveIsStored(c)' /\ calls'[c].pc # "createRow"
      BY <3>1, <2>1 DEF UploadIsStored, MoveIsStored, Kept
    <3> QED
      BY <3>1, <3>2, <3>3, <2>1, <1>3, NoRowChanges DEF BackfillPut, World, Mode
  <2>2. CASE NextDoc(c, "backfillPut", "backfillPut") /\ UNCHANGED objects
    <3>1. /\ condemned' = condemned /\ condemned \subseteq Docs /\ auditLog' = auditLog
          /\ auditLog \subseteq [doc : Docs, action : {"UPLOADED", "DELETED", "PURGED"}]
      BY <1>3 DEF BackfillPut, Inv, TypeOK
    <3> QED
      BY <3>1, <2>2, <1>0, <1>3, NextDocKeepsInv DEF BackfillPut
  <2> QED
    BY <2>1, <2>2, <1>3 DEF BackfillPut
<1>4. CASE JobSkips(c)
  <2>1. /\ condemned' = condemned /\ condemned \subseteq Docs /\ auditLog' = auditLog
        /\ auditLog \subseteq [doc : Docs, action : {"UPLOADED", "DELETED", "PURGED"}]
    BY <1>4 DEF JobSkips, Inv, TypeOK
  <2> QED
    BY <2>1, <1>0, <1>4, NextDocKeepsInv DEF JobSkips
<1> QED
  BY <1>1, <1>2, <1>3, <1>4

LEMMA FailStep ==
    ASSUME Inv, NEW c \in Calls, CallFails(c)
    PROVE  Inv'
<1>0. CallsAreTyped
  BY DEF Inv, TypeOK, CallsAreTyped
<1>1. CallsAreTyped' /\ (\A x \in Calls \ {c} : calls'[x] = calls[x]) /\ calls'[c].pc = "idle"
  BY <1>0, EndIsTyped DEF CallFails
<1>2. TypeOK'
  BY <1>1 DEF CallFails, World, Mode, Inv, TypeOK, CallsAreTyped
<1>3. UploadIsStored(c)' /\ MoveIsStored(c)' /\ calls'[c].pc # "createRow"
  BY <1>1 DEF UploadIsStored, MoveIsStored
<1> QED
  BY <1>1, <1>2, <1>3, NoRowChanges DEF CallFails, World, Mode

----------------------------------------------------------------------------
(* The steps that change rows *)

LEMMA SoftDeleteStep ==
    ASSUME Inv, NEW c \in Calls, SoftDelete(c)
    PROVE  Inv'
<1>0. CallsAreTyped /\ calls[c].pc = "softDelete"
  BY DEF Inv, TypeOK, CallsAreTyped, SoftDelete, At
<1>1. /\ CallsAreTyped' /\ \A x \in Calls \ {c} : calls'[x] = calls[x]
      /\ calls'[c].pc = "createRow" /\ calls'[c].doc = calls[c].doc
  BY <1>0, GotoIsTyped DEF SoftDelete, Pc
<1>2. /\ row' \in [Docs -> DocRow]
      /\ \A d \in Docs : /\ row'[d].state # "active"
                         /\ row'[d].state \in {"removed", "purged"} => row'[d] = row[d]
  BY DEF SoftDelete, Replaced, Inv, TypeOK, DocRow
<1>3. TypeOK'
  BY <1>1, <1>2 DEF SoftDelete, World, Mode, Inv, TypeOK, CallsAreTyped
<1>4. Active' = {}
  BY <1>2 DEF Active
<1>5. ActiveHasPayload' /\ ErasedRowsAreEmpty'
  BY <1>2, <1>4 DEF SoftDelete, Inv, ActiveHasPayload, ErasedRowsAreEmpty
<1>6. HasRoom'
  <2>1. Cardinality(Active') = 0
    BY <1>4, FS_EmptySet
  <2>2. Creating' \in SUBSET Calls
    BY DEF Creating
  <2>3. Cardinality(Creating') <= Cardinality(Calls) /\ Cardinality(Creating') \in Nat
    BY <2>2, Finite, FS_Subset
  <2>4. Cardinality(Active)' = Cardinality(Active') /\ Cardinality(Creating)' = Cardinality(Creating')
    OBVIOUS
  <2> QED
    BY <2>1, <2>3, <2>4, Finite DEF HasRoom
<1>7. UploadIsStored(c)' /\ MoveIsStored(c)'
  BY <1>0, <1>1 DEF SoftDelete, World, Mode, Inv, UploadIsStored, MoveIsStored, Kept
<1> QED
  BY <1>1, <1>3, <1>5, <1>6, <1>7, StepKeepsInv DEF SoftDelete, World, Mode

LEMMA CreateRowStep ==
    ASSUME Inv, NEW c \in Calls, CreateRow(c)
    PROVE  Inv'
<1> DEFINE d == calls[c].doc
<1>0. CallsAreTyped /\ calls[c].pc = "createRow" /\ d \in Docs
  <2>1. CallsAreTyped /\ calls[c].pc = "createRow"
    BY DEF Inv, TypeOK, CallsAreTyped, CreateRow, At
  <2> QED
    BY <2>1, UnderWay
<1>1. CallsAreTyped' /\ (\A x \in Calls \ {c} : calls'[x] = calls[x]) /\ calls'[c].pc = "idle"
  BY <1>0, EndIsTyped DEF CreateRow
<1>2. /\ row' \in [Docs -> DocRow] /\ s3 \in BOOLEAN
      /\ row'[d].state = "active" /\ row'[d].bytes = ~s3
      /\ \A x \in Docs \ {d} : row'[x] = row[x]
      /\ UNCHANGED <<objects, condemned, s3>> /\ auditLog \subseteq auditLog'
  BY <1>0 DEF CreateRow, Record, World, Mode, Inv, TypeOK, DocRow
<1>3. TypeOK'
  <2>1. auditLog' \subseteq [doc : Docs, action : {"UPLOADED", "DELETED", "PURGED"}]
    BY <1>0 DEF CreateRow, Record, Inv, TypeOK
  <2> QED
    BY <2>1, <1>1, <1>2 DEF CreateRow, World, Mode, Inv, TypeOK, CallsAreTyped
<1>4. ActiveHasPayload'
  <2> SUFFICES ASSUME NEW x \in Docs, row'[x].state = "active"
               PROVE  row'[x].bytes \/ x \in objects \/ x \in condemned
    BY <1>2 DEF ActiveHasPayload, Active, HasPayload
  <2>1. CASE x = d
    BY <2>1, <1>0, <1>2 DEF Inv, UploadIsStored, Kept
  <2>2. CASE x # d
    BY <2>2, <1>2 DEF Inv, ActiveHasPayload, Active, HasPayload
  <2> QED
    BY <2>1, <2>2
<1>5. ErasedRowsAreEmpty'
  BY <1>2 DEF Inv, ErasedRowsAreEmpty
<1>6. HasRoom'
  <2>1. Active' = Active \cup {d} /\ Active \in SUBSET Docs /\ Active' \in SUBSET Docs
    BY <1>0, <1>2 DEF Active
  <2>2. Creating' = Creating \ {c} /\ c \in Creating /\ Creating \in SUBSET Calls
    BY <1>0, <1>1 DEF Creating
  <2>3. Cardinality(Active') <= Cardinality(Active) + 1
    <3>1. IsFiniteSet(Active) /\ Cardinality(Active) \in Nat
      BY <2>1, Finite
    <3>2. Cardinality(Active \cup {d}) = IF d \in Active THEN Cardinality(Active) ELSE Cardinality(Active) + 1
      BY <3>1, FS_AddElement
    <3> QED
      BY <2>1, <3>1, <3>2
  <2>4. Cardinality(Creating') = Cardinality(Creating) - 1
    BY <2>2, Finite, FS_RemoveElement
  <2>5. Cardinality(Active)' = Cardinality(Active') /\ Cardinality(Creating)' = Cardinality(Creating')
    OBVIOUS
  <2> QED
    BY <2>1, <2>2, <2>3, <2>4, <2>5, Finite DEF Inv, HasRoom
<1>7. UploadIsStored(c)' /\ MoveIsStored(c)'
  BY <1>1 DEF UploadIsStored, MoveIsStored
<1> QED
  BY <1>1, <1>2, <1>3, <1>4, <1>5, <1>6, <1>7, StepKeepsInv

\* A row is erased, or loses its bytes to the bucket: nothing becomes active.
LEMMA RowShrinks ==
    ASSUME Inv, TypeOK', NEW c \in Calls, NEW d \in Docs,
           \A x \in Calls \ {c} : calls'[x] = calls[x],
           UNCHANGED <<objects, condemned, s3>>,
           calls'[c].pc \notin {"softDelete", "createRow", "backfillClear"},
           ~row'[d].bytes, \A x \in Docs \ {d} : row'[x] = row[x],
           auditLog \subseteq auditLog',
           \/ row'[d].state = "purged"
           \/ row'[d].state = "removed" /\ [doc |-> d, action |-> "DELETED"] \in auditLog'
           \/ row'[d].state = row[d].state /\ Kept(d)
    PROVE  Inv'
<1>1. ActiveHasPayload'
  <2> SUFFICES ASSUME NEW x \in Docs, row'[x].state = "active"
               PROVE  row'[x].bytes \/ x \in objects \/ x \in condemned
    BY DEF ActiveHasPayload, Active, HasPayload
  <2>1. CASE x = d
    BY <2>1 DEF Kept
  <2>2. CASE x # d
    BY <2>2 DEF Inv, ActiveHasPayload, Active, HasPayload
  <2> QED
    BY <2>1, <2>2
<1>2. ErasedRowsAreEmpty'
  <2> SUFFICES ASSUME NEW x \in Docs
               PROVE  /\ row'[x].state \in {"removed", "purged"} => ~row'[x].bytes
                      /\ row'[x].state = "removed" => [doc |-> x, action |-> "DELETED"] \in auditLog'
    BY DEF ErasedRowsAreEmpty
  <2>1. CASE x = d
    BY <2>1 DEF Inv, ErasedRowsAreEmpty
  <2>2. CASE x # d
    BY <2>2 DEF Inv, ErasedRowsAreEmpty
  <2> QED
    BY <2>1, <2>2
<1>3. HasRoom'
  <2>1. Active' \subseteq Active /\ Creating' \subseteq Creating
    BY DEF Active, Creating
  <2> QED
    BY <2>1, RoomStays DEF Inv
<1>4. UploadIsStored(c)' /\ MoveIsStored(c)'
  BY DEF UploadIsStored, MoveIsStored
<1> QED
  BY <1>1, <1>2, <1>3, <1>4, StepKeepsInv

LEMMA EraseSteps ==
    ASSUME Inv, NEW c \in Calls, RemoveTx(c) \/ PurgeUpdate(c) \/ BackfillClear(c)
    PROVE  Inv'
<1> DEFINE d == calls[c].doc
<1>0. CallsAreTyped /\ calls[c].pc # "idle" /\ d \in Docs
  <2>1. CallsAreTyped /\ calls[c].pc # "idle"
    BY DEF Inv, TypeOK, CallsAreTyped, RemoveTx, PurgeUpdate, BackfillClear, BackfillReady, At
  <2> QED
    BY <2>1, UnderWay
<1>1. CASE RemoveTx(c)
  <2>1. CallsAreTyped' /\ (\A x \in Calls \ {c} : calls'[x] = calls[x]) /\ calls'[c].pc = "idle"
    BY <1>0, <1>1, EndIsTyped DEF RemoveTx
  <2>2. /\ row' \in [Docs -> DocRow] /\ row'[d].state = "removed" /\ ~row'[d].bytes
        /\ \A x \in Docs \ {d} : row'[x] = row[x]
    BY <1>0, <1>1 DEF RemoveTx, Erased, Inv, TypeOK, DocRow
  <2>3. auditLog' = auditLog \cup {[doc |-> d, action |-> "DELETED"]}
    BY <1>1 DEF RemoveTx, Record
  <2>4. TypeOK'
    <3>1. auditLog' \subseteq [doc : Docs, action : {"UPLOADED", "DELETED", "PURGED"}]
      BY <1>0, <2>3 DEF Inv, TypeOK
    <3> QED
      BY <3>1, <2>1, <2>2, <1>1 DEF RemoveTx, World, Mode, Inv, TypeOK, CallsAreTyped
  <2> QED
    BY <1>0, <2>1, <2>2, <2>3, <2>4, <1>1, RowShrinks DEF RemoveTx, World, Mode
<1>2. CASE PurgeUpdate(c)
  <2>1. CallsAreTyped' /\ (\A x \in Calls \ {c} : calls'[x] = calls[x]) /\ calls'[c].pc = "purgeAudit"
    BY <1>0, <1>2, GotoIsTyped DEF PurgeUpdate, Pc
  <2>2. /\ row' \in [Docs -> DocRow] /\ row'[d].state = "purged" /\ ~row'[d].bytes
        /\ \A x \in Docs \ {d} : row'[x] = row[x]
    BY <1>0, <1>2 DEF PurgeUpdate, Erased, Inv, TypeOK, DocRow
  <2>3. TypeOK'
    BY <2>1, <2>2, <1>2 DEF PurgeUpdate, World, Mode, Inv, TypeOK, CallsAreTyped
  <2> QED
    BY <1>0, <2>1, <2>2, <2>3, <1>2, RowShrinks DEF PurgeUpdate, World, Mode
<1>3. CASE BackfillClear(c)
  <2>1. /\ CallsAreTyped' /\ \A x \in Calls \ {c} : calls'[x] = calls[x]
        /\ calls'[c].pc \in {"idle", "backfillPut"}
    BY <1>0, <1>3, NextDocIsTyped DEF BackfillClear, Pc
  <2>2. /\ row' \in [Docs -> DocRow] /\ row'[d].state = row[d].state /\ ~row'[d].bytes
        /\ \A x \in Docs \ {d} : row'[x] = row[x]
    BY <1>0, <1>3 DEF BackfillClear, Inv, TypeOK, DocRow
  <2>3. TypeOK'
    BY <2>1, <2>2, <1>3 DEF BackfillClear, World, Mode, Inv, TypeOK, CallsAreTyped
  <2>4. Kept(d)
    BY <1>3 DEF BackfillClear, BackfillReady, At, Inv, MoveIsStored
  <2> QED
    BY <1>0, <2>1, <2>2, <2>3, <2>4, <1>3, RowShrinks DEF BackfillClear, World, Mode
<1> QED
  BY <1>1, <1>2, <1>3

----------------------------------------------------------------------------
(* The rest *)

LEMMA RestartStep ==
    ASSUME Inv, Restart
    PROVE  Inv'
<1>1. \A c \in Calls : calls'[c] = NoCall /\ calls'[c].pc = "idle"
  BY DEF Restart, NoCall
<1>2. TypeOK'
  <2>1. restarts' \in 0..MaxRestarts
    BY StoreAssumption DEF Restart, Inv, TypeOK, StoreAssumption
  <2>2. s3' \in BOOLEAN /\ backfillDue' = s3'
    BY DEF Restart, BackfillAtBoot, Inv, TypeOK
  <2>3. calls' \in [Calls -> Call \cup {NoCall}]
    BY DEF Restart
  <2> QED
    BY <2>1, <2>2, <2>3 DEF Restart, Inv, TypeOK
<1>3. \A c \in Calls : UploadIsStored(c)' /\ MoveIsStored(c)'
  BY <1>1 DEF UploadIsStored, MoveIsStored
<1>4. ActiveHasPayload' /\ ErasedRowsAreEmpty'
  BY DEF Restart, Inv, ActiveHasPayload, HasPayload, Active, ErasedRowsAreEmpty
<1>5. HasRoom'
  <2>1. Active' \subseteq Active /\ Creating' \subseteq Creating
    BY <1>1 DEF Restart, Active, Creating
  <2> QED
    BY <2>1, RoomStays DEF Inv
<1> QED
  BY <1>2, <1>3, <1>4, <1>5 DEF Inv

\* What the invariant speaks of stays.
LEMMA RestKeepsInv ==
    ASSUME Inv, TypeOK', UNCHANGED <<row, objects, auditLog, s3, condemned, calls>>
    PROVE  Inv'
<1>1. HasRoom'
  <2>1. Active' \subseteq Active /\ Creating' \subseteq Creating
    BY DEF Active, Creating
  <2> QED
    BY <2>1, RoomStays DEF Inv
<1> QED
  BY <1>1 DEF Inv, UploadIsStored, MoveIsStored, Kept, ActiveHasPayload, HasPayload, Active, ErasedRowsAreEmpty

LEMMA StepInv == Inv /\ [Next]_vars => Inv'
<1> SUFFICES ASSUME Inv, [Next]_vars PROVE Inv'
  OBVIOUS
<1>1. CASE UNCHANGED vars
  <2>1. TypeOK'
    BY <1>1 DEF vars, Inv, TypeOK
  <2> QED
    BY <1>1, <2>1, RestKeepsInv DEF vars
<1>2. CASE \E d \in Docs : Expire(d)
  <2>1. TypeOK'
    BY <1>2 DEF Expire, Mode, Inv, TypeOK
  <2> QED
    BY <1>2, <2>1, RestKeepsInv DEF Expire, Mode
<1>3. CASE Next /\ ~\E d \in Docs : Expire(d)
  BY <1>3, UploadSteps, RemoveSteps, JobStarts, JobSteps, FailStep, SoftDeleteStep, CreateRowStep, EraseSteps,
     RestartStep DEF Next, Step
<1> QED
  BY <1>1, <1>2, <1>3

LEMMA SpecInv == Spec => []Inv
BY InitInv, StepInv, PTL DEF Spec

----------------------------------------------------------------------------

\* Rows, calls, jobs and counters keep their types.
THEOREM StoreTypes == Spec => []TypeOK
<1>1. Inv => TypeOK
  BY DEF Inv
<1> QED
  BY <1>1, SpecInv, PTL

\* The backfill, replacing uploads and calls that break off never leave an
\* active document without its content, with any number of restarts and jobs:
\* the bytes are in the bucket before the row gives them up, and an object is
\* stored before its row is created.
THEOREM ContentIsKept == Spec => []ActiveHasPayload
<1>1. Inv => ActiveHasPayload
  BY DEF Inv
<1> QED
  BY <1>1, SpecInv, PTL

\* Removal, purge and backfill, however they interleave, leave no bytes in an
\* erased row, and a removed one has its audit row.
THEOREM ErasureIsComplete == Spec => []ErasedRowsAreEmpty
<1>1. Inv => ErasedRowsAreEmpty
  BY DEF Inv
<1> QED
  BY <1>1, SpecInv, PTL

\* Uploads whose soft deletes all ran before their creates leave several active
\* documents, but no more than calls that can be under way at once.
THEOREM ActiveStaysBounded == Spec => []ActiveIsBounded
<1>1. Inv => ActiveIsBounded
  <2> SUFFICES ASSUME Inv PROVE ActiveIsBounded
    OBVIOUS
  <2>1. Active \in SUBSET Docs /\ Creating \in SUBSET Calls
    BY DEF Active, Creating
  <2> QED
    BY <2>1, Finite DEF Inv, HasRoom, ActiveIsBounded
<1> QED
  BY <1>1, SpecInv, PTL

----------------------------------------------------------------------------
(* Objects of erased documents, before any restart and without failures *)

Uploads(c) == calls[c].pc \in {"put", "softDelete", "createRow"}
Erases(c) == calls[c].pc \in {"deleteObject", "removeTx", "purgeDelete", "purgeUpdate", "purgeAudit"}
IsErased(d) == row[d].state \in {"removed", "purged"}

\* An upload has no row yet; who erases has found one, and past the delete
\* there is no object.
CallFits(c) ==
    /\ Uploads(c) => /\ calls[c].doc <= uploads /\ row[calls[c].doc].state = "absent"
                     /\ calls[c].pc = "put" => s3
    /\ Erases(c) => /\ row[calls[c].doc].state # "absent"
                    /\ \A d \in calls[c].batch : row[d].state # "absent"
                    /\ s3 => calls[c].bytesRead = {}
    /\ calls[c].pc \in {"removeTx", "purgeUpdate"} => calls[c].doc \notin objects
    /\ calls[c].pc \notin {"backfillPut", "backfillClear"}

UploadsDiffer == \A c, x \in Calls : Uploads(c) /\ Uploads(x) /\ c # x => calls[c].doc # calls[x].doc

\* Payloads are in one place.
OnePlace == /\ ~backfillDue
            /\ s3 => \A d \in Docs : ~row[d].bytes
            /\ ~s3 => objects = {}

Fits == /\ \A c \in Calls : CallFits(c)
        /\ UploadsDiffer
        /\ OnePlace
        /\ \A d \in Docs : d > uploads => row[d].state = "absent"
        /\ \A d \in Docs : IsErased(d) => d \notin objects

FirstInv == restarts = 0 => Fits

LEMMA FirstInitInv == Init => FirstInv
BY DEF Init, FirstInv, Fits, CallFits, Uploads, Erases, IsErased, UploadsDiffer, OnePlace, NoCall

\* Only uploads make rows and objects of their own, only erasing calls erase, and
\* only where the object is gone.
LEMMA FitsStays ==
    ASSUME Inv, TypeOK', Fits, NEW c \in Calls,
           \A x \in Calls \ {c} : calls'[x] = calls[x],
           s3' = s3, ~backfillDue', uploads' \in {uploads, uploads + 1},
           CallFits(c)',
           Uploads(c)' => (Uploads(c) /\ calls'[c].doc = calls[c].doc) \/ calls'[c].doc = uploads + 1,
           \A d \in Docs : /\ row[d].state # "absent" => row'[d].state # "absent"
                           /\ row[d].state = "absent" /\ row'[d].state # "absent"
                                 => Uploads(c) /\ d = calls[c].doc
                           /\ IsErased(d)' => IsErased(d) \/ (row[d].state # "absent" /\ d \notin objects)
                           /\ s3 /\ row'[d].bytes => row[d].bytes
                           /\ d \in objects' => d \in objects \/ (s3 /\ row[d].state = "absent")
    PROVE  Fits'
<1>1. uploads \in Nat /\ objects' \subseteq Docs /\ objects \subseteq Docs
      /\ \A d \in Docs : d \in Nat
  BY StoreAssumption DEF Inv, TypeOK, Docs, StoreAssumption
<1>2. ASSUME NEW x \in Calls \ {c} PROVE CallFits(x)'
  <2>1. calls'[x] = calls[x] /\ CallFits(x)
    BY DEF Fits
  <2>2. calls[x].pc # "idle" => calls[x].doc \in Docs /\ calls[x].batch \subseteq Docs
    BY DEF Inv, TypeOK, Call, NoCall
  <2>3. Uploads(x) => calls[x].doc <= uploads' /\ row'[calls[x].doc].state = "absent"
    <3>1. calls[x].doc \in Docs => calls[x].doc \in Nat
      BY <1>1
    <3> QED
      BY <1>1, <2>1, <2>2, <3>1 DEF Uploads, CallFits, Fits, UploadsDiffer
  <2>4. Erases(x) => row'[calls[x].doc].state # "absent" /\ \A d \in calls[x].batch : row'[d].state # "absent"
    BY <2>1, <2>2 DEF Erases, CallFits
  <2>5. calls[x].pc \in {"removeTx", "purgeUpdate"} => calls[x].doc \notin objects'
    BY <2>1, <2>2 DEF Erases, CallFits
  <2> QED
    BY <2>1, <2>3, <2>4, <2>5 DEF CallFits, Uploads, Erases
<1>3. UploadsDiffer'
  <2>1. \A x \in Calls \ {c} : Uploads(x)' => calls'[x].doc = calls[x].doc /\ Uploads(x)
                                 /\ calls[x].doc <= uploads /\ calls[x].doc \in Nat
    <3>1. \A x \in Calls : Uploads(x) => calls[x].doc \in Docs
      BY DEF Inv, TypeOK, Call, NoCall, Uploads
    <3> QED
      BY <1>1, <3>1 DEF Fits, CallFits, Uploads
  <2>2. Uploads(c)' => \A x \in Calls \ {c} : Uploads(x)' => calls'[x].doc # calls'[c].doc
    BY <1>1, <2>1 DEF Fits, UploadsDiffer
  <2>3. \A x, y \in Calls \ {c} : Uploads(x)' /\ Uploads(y)' /\ x # y => calls'[x].doc # calls'[y].doc
    BY <2>1 DEF Fits, UploadsDiffer
  <2> QED
    BY <2>2, <2>3 DEF UploadsDiffer
<1>4. OnePlace'
  BY <1>1 DEF Fits, OnePlace
<1>5. ASSUME NEW d \in Docs, d > uploads' PROVE row'[d].state = "absent"
  <2>1. d > uploads
    BY <1>1, <1>5
  <2>2. Uploads(c) => calls[c].doc <= uploads
    BY DEF Fits, CallFits
  <2> QED
    BY <1>1, <2>1, <2>2 DEF Fits
<1>6. ASSUME NEW d \in Docs, IsErased(d)' PROVE d \notin objects'
  BY <1>6 DEF Fits, IsErased
<1> QED
  BY <1>2, <1>3, <1>4, <1>5, <1>6 DEF Fits

\* A step that makes no row and no object, and lets no upload begin.
LEMMA QuietFits ==
    ASSUME Inv, TypeOK', Fits, NEW c \in Calls,
           \A x \in Calls \ {c} : calls'[x] = calls[x],
           s3' = s3, ~backfillDue', uploads' = uploads, row' = row, objects' \subseteq objects,
           CallFits(c)', ~Uploads(c)'
    PROVE  Fits'
<1>1. \A d \in Docs : IsErased(d)' => IsErased(d)
  BY DEF IsErased
<1> QED
  BY <1>1, FitsStays

LEMMA UploadFits ==
    ASSUME Inv, TypeOK', Fits, NEW c \in Calls,
           StartUpload(c) \/ PutObject(c) \/ SoftDelete(c) \/ CreateRow(c)
    PROVE  Fits'
<1>0. CallsAreTyped /\ uploads \in Nat /\ ~backfillDue
  BY StoreAssumption DEF Inv, TypeOK, CallsAreTyped, Fits, OnePlace, StoreAssumption
<1>1. CASE StartUpload(c)
  <2> DEFINE v == [NoCall EXCEPT !.pc = IF s3 THEN "put" ELSE "softDelete", !.doc = uploads + 1]
  <2>1. uploads + 1 \in Docs /\ uploads' = uploads + 1
    BY <1>1, <1>0, StoreAssumption DEF StartUpload, Docs, StoreAssumption
  <2>2. v \in Call /\ v.pc = (IF s3 THEN "put" ELSE "softDelete") /\ v.doc = uploads + 1
    BY <2>1 DEF NoCall, Call, Pc
  <2>3. Becomes(c, v)
    BY <1>1 DEF StartUpload, Becomes
  <2> HIDE DEF v
  <2>4. calls'[c] = v /\ \A x \in Calls \ {c} : calls'[x] = calls[x]
    BY <2>2, <2>3, <1>0, BecomesIsTyped
  <2>5. UNCHANGED <<row, objects, s3, backfillDue>>
    BY <1>1 DEF StartUpload, Mode
  <2>6. row[uploads + 1].state = "absent"
    BY <1>0, <2>1 DEF Fits
  <2>7. CallFits(c)'
    BY <1>0, <2>1, <2>2, <2>4, <2>5, <2>6 DEF CallFits, Uploads, Erases
  <2>8. \A d \in Docs : IsErased(d)' => IsErased(d)
    BY <2>5 DEF IsErased
  <2> QED
    BY <1>0, <2>1, <2>2, <2>4, <2>5, <2>7, <2>8, FitsStays
<1>2. CASE PutObject(c)
  <2>1. /\ \A x \in Calls \ {c} : calls'[x] = calls[x]
        /\ calls'[c].pc = "softDelete" /\ calls'[c].doc = calls[c].doc /\ calls[c].doc \in Docs
    BY <1>0, <1>2, UnderWay, GotoIsTyped DEF PutObject, At, Pc
  <2>2. /\ UNCHANGED <<row, s3, backfillDue, uploads>>
        /\ objects' = objects \cup {calls[c].doc}
        /\ s3 /\ row[calls[c].doc].state = "absent" /\ calls[c].doc <= uploads /\ Uploads(c)
    BY <1>2 DEF PutObject, World, Mode, At, Fits, CallFits, Uploads
  <2>3. CallFits(c)'
    BY <2>1, <2>2 DEF CallFits, Uploads, Erases
  <2>4. \A d \in Docs : IsErased(d)' => IsErased(d)
    BY <2>2 DEF IsErased
  <2> QED
    BY <1>0, <2>1, <2>2, <2>3, <2>4, FitsStays
<1>3. CASE SoftDelete(c)
  <2>1. /\ \A x \in Calls \ {c} : calls'[x] = calls[x]
        /\ calls'[c].pc = "createRow" /\ calls'[c].doc = calls[c].doc /\ calls[c].doc \in Docs
    BY <1>0, <1>3, UnderWay, GotoIsTyped DEF SoftDelete, At, Pc
  <2>2. /\ UNCHANGED <<objects, s3, backfillDue, uploads>>
        /\ row[calls[c].doc].state = "absent" /\ calls[c].doc <= uploads /\ Uploads(c)
    BY <1>3 DEF SoftDelete, World, Mode, At, Fits, CallFits, Uploads
  <2>3. \A d \in Docs : /\ row[d].state # "absent" <=> row'[d].state # "absent"
                        /\ row'[d].bytes = row[d].bytes
                        /\ IsErased(d)' => IsErased(d)
    BY <1>3 DEF SoftDelete, Replaced, IsErased, Inv, TypeOK, DocRow
  <2>4. CallFits(c)'
    BY <2>1, <2>2, <2>3 DEF CallFits, Uploads, Erases
  <2> QED
    BY <1>0, <2>1, <2>2, <2>3, <2>4, FitsStays
<1>4. CASE CreateRow(c)
  <2> DEFINE d == calls[c].doc
  <2>1. /\ \A x \in Calls \ {c} : calls'[x] = calls[x]
        /\ calls'[c].pc = "idle" /\ d \in Docs
    BY <1>0, <1>4, UnderWay, EndIsTyped DEF CreateRow, At
  <2>2. /\ UNCHANGED <<objects, s3, backfillDue, uploads>> /\ Uploads(c)
        /\ row'[d].state = "active" /\ row'[d].bytes = ~s3
        /\ \A x \in Docs \ {d} : row'[x] = row[x]
    BY <1>4, <2>1 DEF CreateRow, World, Mode, At, Uploads, Inv, TypeOK
  <2>3. \A x \in Docs : /\ IsErased(x)' => IsErased(x)
                        /\ s3 /\ row'[x].bytes => row[x].bytes
                        /\ row[x].state # "absent" => row'[x].state # "absent"
                        /\ row[x].state = "absent" /\ row'[x].state # "absent" => x = d
    BY <2>2 DEF IsErased
  <2>4. CallFits(c)' /\ ~Uploads(c)'
    BY <2>1 DEF CallFits, Uploads, Erases
  <2> QED
    BY <1>0, <2>1, <2>2, <2>3, <2>4, FitsStays
<1> QED
  BY <1>1, <1>2, <1>3, <1>4

\* A call erases what is there: nothing where there is no bucket, and after the
\* delete where there is one.
LEMMA EraseStartFits ==
    ASSUME Inv, TypeOK', Fits, NEW c \in Calls, (\E d \in Docs : StartRemove(c, d)) \/ StartPurge(c)
    PROVE  Fits'
<1>0. CallsAreTyped /\ ~backfillDue
  BY DEF Inv, TypeOK, CallsAreTyped, Fits, OnePlace
<1>1. CASE \E d \in Docs : StartRemove(c, d)
  <2>1. PICK d \in Docs : StartRemove(c, d)
    BY <1>1
  <2> DEFINE v == [NoCall EXCEPT !.pc = RemoveStep(d), !.doc = d]
  <2>2. /\ v \in Call /\ v.doc = d /\ v.batch = {} /\ v.bytesRead = {}
        /\ v.pc \in {"removeTx", "deleteObject"} /\ (v.pc = "removeTx" => row[d].bytes)
    BY DEF NoCall, Call, Pc, RemoveStep
  <2>3. Becomes(c, v)
    BY <2>1 DEF StartRemove, Becomes
  <2> HIDE DEF v
  <2>4. calls'[c] = v /\ \A x \in Calls \ {c} : calls'[x] = calls[x]
    BY <2>2, <2>3, <1>0, BecomesIsTyped
  <2>5. UNCHANGED <<row, objects, s3, backfillDue, uploads>> /\ row[d].state = "active"
    BY <2>1 DEF StartRemove, World, Mode, Active
  <2>6. CallFits(c)' /\ ~Uploads(c)'
    BY <2>2, <2>4, <2>5 DEF CallFits, Uploads, Erases, Fits, OnePlace
  <2> QED
    BY <1>0, <2>4, <2>5, <2>6, QuietFits
<1>2. CASE StartPurge(c)
  <2>1. Becomes(c, Loop(Purgeable, WithBytes, "purgeUpdate", "purgeDelete"))
    BY <1>2 DEF StartPurge, Becomes
  <2>2. PICK S \in SUBSET Docs, B \in SUBSET Docs, p \in Pc, q \in Pc :
           /\ Becomes(c, Loop(S, B, p, q)) /\ p = "purgeUpdate" /\ q = "purgeDelete"
           /\ S = Purgeable /\ B = WithBytes
    BY <2>1 DEF Purgeable, Active, WithBytes, Pc
  <2>3. /\ \A x \in Calls \ {c} : calls'[x] = calls[x]
        /\ \/ calls'[c].pc = "idle"
           \/ /\ calls'[c].doc \in S /\ calls'[c].batch = S /\ calls'[c].bytesRead = B
              /\ calls'[c].doc \in B => calls'[c].pc = "purgeUpdate"
              /\ calls'[c].doc \notin B => calls'[c].pc = "purgeDelete"
    <3>1. Becomes(c, Loop(S, B, p, q))
      BY <2>2
    <3>2. /\ \A x \in Calls \ {c} : calls'[x] = calls[x]
          /\ \/ calls'[c].pc = "idle"
             \/ /\ calls'[c].doc \in S /\ calls'[c].batch = S /\ calls'[c].bytesRead = B
                /\ calls'[c].doc \in B => calls'[c].pc = p
                /\ calls'[c].doc \notin B => calls'[c].pc = q
      BY <3>1, <1>0, StartIsTyped
    <3> QED
      BY <2>2, <3>2
  <2>4. UNCHANGED <<row, objects, s3, backfillDue, uploads>>
    BY <1>2 DEF StartPurge, World, Mode
  <2>5. /\ \A d \in S : row[d].state = "active"
        /\ s3 => B = {}
        /\ ~s3 => objects = {}
    BY <2>2 DEF Purgeable, Active, WithBytes, Fits, OnePlace
  <2>6. CallFits(c)' /\ ~Uploads(c)'
    BY <2>3, <2>4, <2>5, <1>0 DEF CallFits, Uploads, Erases, Inv, TypeOK
  <2> QED
    BY <1>0, <2>3, <2>4, <2>6, QuietFits
<1> QED
  BY <1>1, <1>2

LEMMA EraseFits ==
    ASSUME Inv, TypeOK', Fits, ~Faults, NEW c \in Calls,
           DeleteObject(c) \/ RemoveTx(c) \/ PurgeDelete(c) \/ PurgeUpdate(c) \/ PurgeAudit(c)
    PROVE  Fits'
<1> DEFINE d == calls[c].doc
<1>0. /\ CallsAreTyped /\ calls[c].pc # "idle" /\ d \in Docs /\ ~backfillDue
      /\ calls[c].batch \subseteq Docs
      /\ row[d].state # "absent" /\ \A x \in calls[c].batch : row[x].state # "absent"
      /\ s3 => calls[c].bytesRead = {}
      /\ UNCHANGED <<s3, backfillDue, uploads>>
  <2>1. CallsAreTyped /\ Erases(c) /\ calls[c].pc # "idle"
    BY DEF Inv, TypeOK, CallsAreTyped, Erases, DeleteObject, RemoveTx, PurgeDelete, PurgeUpdate, PurgeAudit, At
  <2>2. d \in Docs /\ calls[c].batch \subseteq Docs
    BY <2>1, UnderWay DEF Call
  <2> QED
    BY <2>1, <2>2 DEF Fits, OnePlace, CallFits, DeleteObject, RemoveTx, PurgeDelete, PurgeUpdate, PurgeAudit, World, Mode
<1>1. CASE DeleteObject(c) \/ PurgeDelete(c)
  <2>1. /\ Goto(c, "removeTx") \/ Goto(c, "purgeUpdate")
        /\ row' = row /\ objects' = objects \ {d}
    BY <1>1 DEF DeleteObject, PurgeDelete
  <2>2. /\ \A x \in Calls \ {c} : calls'[x] = calls[x]
        /\ calls'[c].pc \in {"removeTx", "purgeUpdate"}
        /\ calls'[c].doc = d /\ calls'[c].batch = calls[c].batch /\ calls'[c].bytesRead = calls[c].bytesRead
    <3>1. {"removeTx", "purgeUpdate"} \subseteq Pc
      BY DEF Pc
    <3> QED
      BY <3>1, <2>1, <1>0, GotoIsTyped
  <2>3. CallFits(c)' /\ ~Uploads(c)'
    BY <1>0, <2>1, <2>2 DEF CallFits, Uploads, Erases
  <2> QED
    BY <1>0, <2>1, <2>2, <2>3, QuietFits
<1>2. CASE RemoveTx(c) \/ PurgeUpdate(c)
  <2>1. /\ \A x \in Calls \ {c} : calls'[x] = calls[x]
        /\ \/ calls'[c].pc = "idle"
           \/ /\ calls'[c].pc = "purgeAudit" /\ calls'[c].doc = d
              /\ calls'[c].batch = calls[c].batch /\ calls'[c].bytesRead = calls[c].bytesRead
    <3>1. "purgeAudit" \in Pc
      BY DEF Pc
    <3> QED
      BY <3>1, <1>0, <1>2, EndIsTyped, GotoIsTyped DEF RemoveTx, PurgeUpdate
  <2>2. d \notin objects /\ objects' = objects
    BY <1>2 DEF RemoveTx, PurgeUpdate, At, Fits, CallFits
  <2>3. /\ row'[d].state \in {"removed", "purged"} /\ ~row'[d].bytes
        /\ \A x \in Docs \ {d} : row'[x] = row[x]
    <3>1. CASE RemoveTx(c)
      BY <1>0, <3>1 DEF RemoveTx, Erased, Inv, TypeOK, DocRow
    <3>2. CASE PurgeUpdate(c)
      BY <1>0, <3>2 DEF PurgeUpdate, Erased, Inv, TypeOK, DocRow
    <3> QED
      BY <3>1, <3>2, <1>2
  <2>4. CallFits(c)' /\ ~Uploads(c)'
    BY <1>0, <2>1, <2>3 DEF CallFits, Uploads, Erases
  <2>5. \A x \in Docs : /\ row[x].state # "absent" <=> row'[x].state # "absent"
                        /\ row'[x].bytes => row[x].bytes
                        /\ IsErased(x)' => IsErased(x) \/ (row[x].state # "absent" /\ x \notin objects)
    BY <1>0, <2>2, <2>3 DEF IsErased
  <2> QED
    BY <1>0, <2>1, <2>2, <2>4, <2>5, FitsStays
<1>3. CASE PurgeAudit(c)
  <2>1. /\ \A x \in Calls \ {c} : calls'[x] = calls[x]
        /\ \/ calls'[c].pc = "idle"
           \/ /\ calls'[c].doc \in calls[c].batch /\ calls'[c].batch \subseteq calls[c].batch
              /\ calls'[c].bytesRead = calls[c].bytesRead
              /\ calls'[c].pc \in {"purgeUpdate", "purgeDelete"}
              /\ calls'[c].pc = "purgeUpdate" => calls'[c].doc \in calls[c].bytesRead
    <3>1. {"purgeUpdate", "purgeDelete"} \subseteq Pc
      BY DEF Pc
    <3> QED
      BY <3>1, <1>0, <1>3, NextDocIsTyped DEF PurgeAudit
  <2>2. UNCHANGED <<row, objects>>
    BY <1>3 DEF PurgeAudit
  <2>3. ~s3 => objects = {}
    BY DEF Fits, OnePlace
  <2>4. CallFits(c)' /\ ~Uploads(c)'
    BY <1>0, <2>1, <2>2, <2>3 DEF CallFits, Uploads, Erases, Inv, TypeOK
  <2> QED
    BY <1>0, <2>1, <2>2, <2>4, QuietFits
<1> QED
  BY <1>1, <1>2, <1>3

LEMMA FirstStepInv == ASSUME ~Faults PROVE Inv /\ FirstInv /\ [Next]_vars => FirstInv'
<1> SUFFICES ASSUME Inv, FirstInv, [Next]_vars, restarts' = 0 PROVE Fits'
  BY DEF FirstInv
<1>1. TypeOK' /\ restarts \in Nat
  <2>1. Inv'
    BY StepInv
  <2>2. TypeOK'
    BY <2>1 DEF Inv
  <2>3. restarts \in 0..MaxRestarts
    BY DEF Inv, TypeOK
  <2> QED
    BY <2>2, <2>3, StoreAssumption DEF StoreAssumption
<1>2. ~Restart
  <2>1. Restart => restarts' = restarts + 1
    BY DEF Restart
  <2> QED
    BY <1>1, <2>1
<1>3. restarts = 0 /\ Fits
  BY <1>1, <1>2 DEF FirstInv, Next, vars, Step, StartUpload, StartPurge, StartBackfill, StartRemove, PutObject, SoftDelete,
     CreateRow, DeleteObject, RemoveTx, PurgeDelete, PurgeUpdate, PurgeAudit, BackfillPut, BackfillClear, CallFails,
     JobSkips, Expire, World, Mode
<1>4. \A c \in Calls : ~StartBackfill(c) /\ ~BackfillPut(c) /\ ~BackfillClear(c) /\ ~CallFails(c) /\ ~JobSkips(c)
  BY <1>3 DEF StartBackfill, BackfillPut, BackfillClear, BackfillReady, CallFails, JobSkips, At, Fits, OnePlace, CallFits
<1>5. CASE UNCHANGED vars \/ \E d \in Docs : Expire(d)
  BY <1>3, <1>5 DEF vars, Expire, Mode, Fits, CallFits, UploadsDiffer, OnePlace, Uploads, Erases, IsErased
<1> QED
  BY <1>1, <1>2, <1>3, <1>4, <1>5, UploadFits, EraseStartFits, EraseFits DEF Next, Step

\* When no operation of the bucket or the database fails, and until the first
\* restart brings a backfill, the object of a removed or purged document is
\* gone: the delete comes before the row is marked, and no upload has its key.
THEOREM ErasedObjectsAreGone == ASSUME ~Faults PROVE Spec => []ErasedHasNoObject
<1>1. Inv /\ FirstInv /\ [Next]_vars => FirstInv'
  BY FirstStepInv
<1>2. FirstInv => ErasedHasNoObject
  BY DEF FirstInv, Fits, IsErased, ErasedHasNoObject
<1> QED
  BY <1>1, <1>2, FirstInitInv, SpecInv, PTL DEF Spec
----------------------------------------------------------------------------
(* The documents of DocumentStates, with failures and restarts *)

Exists(d) == row[d].state # "absent"

\* An upload has no row yet; a removal has found its row, a purge run rows that
\* are due.
CallIsPlaced(c) ==
    /\ Uploads(c) => calls[c].doc <= uploads /\ ~Exists(calls[c].doc)
    /\ calls[c].pc \in {"deleteObject", "removeTx"} => Exists(calls[c].doc)
    /\ calls[c].pc \in {"purgeDelete", "purgeUpdate", "purgeAudit"}
          => calls[c].doc \in expired /\ calls[c].batch \subseteq expired

Placed == /\ \A c \in Calls : CallIsPlaced(c)
          /\ UploadsDiffer
          /\ \A d \in expired \cup condemned : Exists(d)
          /\ \A d \in Docs : d > uploads => ~Exists(d)
          /\ \A d \in Docs : row[d].bytes => Exists(d)

LEMMA InitPlaced == Init => Placed
BY DEF Init, Placed, CallIsPlaced, Uploads, UploadsDiffer, Exists, NoCall

CallStep(c) == \/ StartUpload(c) \/ StartPurge(c) \/ StartBackfill(c)
               \/ \E d \in Docs : StartRemove(c, d)
               \/ Step(c) \/ CallFails(c) \/ JobSkips(c)

\* Where a step of a call takes it: on as it was, to a new document that has no
\* row, to an active one, or to some that are due.
GoesOn(c) ==
    \/ calls'[c].pc \in {"idle", "backfillPut", "backfillClear"}
    \/ /\ calls'[c].pc \in {"put", "softDelete", "createRow"}
       /\ \/ Uploads(c) /\ calls[c].pc # "createRow" /\ calls'[c].doc = calls[c].doc
          \/ calls'[c].doc = uploads + 1 /\ uploads' = uploads + 1 /\ row' = row
    \/ calls'[c].pc \in {"deleteObject", "removeTx"} /\ calls'[c].doc \in Docs /\ Exists(calls'[c].doc)
    \/ /\ calls'[c].pc \in {"purgeDelete", "purgeUpdate", "purgeAudit"}
       /\ calls'[c].doc \in expired /\ calls'[c].batch \subseteq expired

LEMMA UploadStarts ==
    ASSUME Inv, NEW c \in Calls, StartUpload(c)
    PROVE  GoesOn(c) /\ \A x \in Calls \ {c} : calls'[x] = calls[x]
<1> DEFINE v == [NoCall EXCEPT !.pc = IF s3 THEN "put" ELSE "softDelete", !.doc = uploads + 1]
<1>1. uploads + 1 \in Docs /\ uploads' = uploads + 1 /\ row' = row
  BY StoreAssumption DEF StartUpload, Docs, StoreAssumption, Inv, TypeOK
<1>2. v \in Call /\ v.pc \in {"put", "softDelete"} /\ v.doc = uploads + 1
  BY <1>1 DEF NoCall, Call, Pc
<1>3. Becomes(c, v) /\ CallsAreTyped
  BY DEF StartUpload, Becomes, Inv, TypeOK, CallsAreTyped
<1> HIDE DEF v
<1>4. calls'[c] = v /\ \A x \in Calls \ {c} : calls'[x] = calls[x]
  BY <1>2, <1>3, BecomesIsTyped
<1> QED
  BY <1>1, <1>2, <1>4 DEF GoesOn

LEMMA RemoveStarts ==
    ASSUME Inv, NEW c \in Calls, NEW d \in Docs, StartRemove(c, d)
    PROVE  GoesOn(c) /\ \A x \in Calls \ {c} : calls'[x] = calls[x]
<1> DEFINE v == [NoCall EXCEPT !.pc = RemoveStep(d), !.doc = d]
<1>1. Exists(d)
  BY DEF StartRemove, Active, Exists
<1>2. v \in Call /\ v.doc = d /\ v.pc \in {"removeTx", "deleteObject"}
  BY DEF NoCall, Call, Pc, RemoveStep
<1>3. Becomes(c, v) /\ CallsAreTyped
  BY DEF StartRemove, Becomes, Inv, TypeOK, CallsAreTyped
<1> HIDE DEF v
<1>4. calls'[c] = v /\ \A x \in Calls \ {c} : calls'[x] = calls[x]
  BY <1>2, <1>3, BecomesIsTyped
<1> QED
  BY <1>1, <1>2, <1>4 DEF GoesOn

LEMMA PurgeStarts ==
    ASSUME Inv, NEW c \in Calls, StartPurge(c)
    PROVE  GoesOn(c) /\ \A x \in Calls \ {c} : calls'[x] = calls[x]
<1>1. PICK S \in SUBSET Docs, B \in SUBSET Docs, p \in Pc, q \in Pc :
         /\ Becomes(c, Loop(S, B, p, q)) /\ S \subseteq expired
         /\ p = "purgeUpdate" /\ q = "purgeDelete"
  BY DEF StartPurge, Becomes, Purgeable, Active, WithBytes, Pc
<1>2. Becomes(c, Loop(S, B, p, q)) /\ CallsAreTyped
  BY <1>1 DEF Inv, TypeOK, CallsAreTyped
<1>3. /\ \A x \in Calls \ {c} : calls'[x] = calls[x]
      /\ \/ calls'[c].pc = "idle"
         \/ /\ calls'[c].doc \in S /\ calls'[c].batch = S
            /\ calls'[c].doc \in B => calls'[c].pc = p
            /\ calls'[c].doc \notin B => calls'[c].pc = q
  BY <1>2, StartIsTyped
<1> QED
  BY <1>1, <1>3 DEF GoesOn

LEMMA BackfillStarts ==
    ASSUME Inv, NEW c \in Calls, StartBackfill(c)
    PROVE  GoesOn(c) /\ \A x \in Calls \ {c} : calls'[x] = calls[x]
<1>1. PICK S \in SUBSET Docs, B \in SUBSET Docs, p \in Pc, q \in Pc :
         Becomes(c, Loop(S, B, p, q)) /\ p = "backfillPut" /\ q = "backfillPut"
  BY DEF StartBackfill, Becomes, Active, WithBytes, Pc
<1>2. Becomes(c, Loop(S, B, p, q)) /\ CallsAreTyped
  BY <1>1 DEF Inv, TypeOK, CallsAreTyped
<1>3. /\ \A x \in Calls \ {c} : calls'[x] = calls[x]
      /\ \/ calls'[c].pc = "idle"
         \/ /\ calls'[c].doc \in B => calls'[c].pc = p
            /\ calls'[c].doc \notin B => calls'[c].pc = q
  BY <1>2, StartIsTyped
<1> QED
  BY <1>1, <1>3 DEF GoesOn

LEMMA CallGoesOn ==
    ASSUME Inv, Placed, NEW c \in Calls, CallStep(c)
    PROVE  GoesOn(c) /\ \A x \in Calls \ {c} : calls'[x] = calls[x]
<1>0. CallsAreTyped
  BY DEF Inv, TypeOK, CallsAreTyped
<1>1. CASE PutObject(c) \/ SoftDelete(c)
  <2>1. Uploads(c) /\ calls[c].pc \notin {"idle", "createRow"} /\ (Goto(c, "softDelete") \/ Goto(c, "createRow"))
    BY <1>1 DEF PutObject, SoftDelete, At, Uploads
  <2> QED
    BY <2>1, <1>0, GotoIsTyped DEF GoesOn, Pc
<1>2. CASE CreateRow(c) \/ RemoveTx(c) \/ CallFails(c)
  BY <1>0, <1>2, EndIsTyped DEF CreateRow, RemoveTx, CallFails, GoesOn
<1>3. CASE DeleteObject(c)
  <2>1. calls[c].pc = "deleteObject" /\ Goto(c, "removeTx") /\ "removeTx" \in Pc
    BY <1>3 DEF DeleteObject, At, Pc
  <2>2. Exists(calls[c].doc) /\ calls[c].doc \in Docs
    BY <1>0, <2>1, UnderWay DEF Placed, CallIsPlaced
  <2> QED
    BY <2>1, <2>2, <1>0, GotoIsTyped DEF GoesOn
<1>4. CASE PurgeDelete(c) \/ PurgeUpdate(c) \/ PurgeAudit(c) \/ (JobSkips(c) /\ ~At(c, "backfillClear"))
  <2>1. calls[c].pc \in {"purgeDelete", "purgeUpdate", "purgeAudit"}
    BY <1>4 DEF PurgeDelete, PurgeUpdate, PurgeAudit, JobSkips, At
  <2>2. calls[c].doc \in expired /\ calls[c].batch \subseteq expired
    BY <2>1 DEF Placed, CallIsPlaced
  <2>3. Goto(c, "purgeUpdate") \/ Goto(c, "purgeAudit") \/ NextDoc(c, "purgeUpdate", "purgeDelete")
    BY <1>4 DEF PurgeDelete, PurgeUpdate, PurgeAudit, JobSkips, At
  <2>4. {"purgeDelete", "purgeUpdate", "purgeAudit"} \subseteq Pc
    BY DEF Pc
  <2>5. CASE Goto(c, "purgeUpdate") \/ Goto(c, "purgeAudit")
    BY <2>1, <2>2, <2>4, <2>5, <1>0, GotoIsTyped DEF GoesOn
  <2>6. CASE NextDoc(c, "purgeUpdate", "purgeDelete")
    <3>1. /\ \A x \in Calls \ {c} : calls'[x] = calls[x]
          /\ \/ calls'[c].pc = "idle"
             \/ /\ calls'[c].doc \in calls[c].batch /\ calls'[c].batch \subseteq calls[c].batch
                /\ calls'[c].pc \in {"purgeUpdate", "purgeDelete"}
      BY <2>1, <2>4, <2>6, <1>0, NextDocIsTyped
    <3> QED
      BY <3>1, <2>2 DEF GoesOn
  <2> QED
    BY <2>3, <2>5, <2>6
<1>5. CASE BackfillPut(c) \/ BackfillClear(c) \/ (JobSkips(c) /\ At(c, "backfillClear"))
  <2>1. /\ calls[c].pc # "idle"
        /\ Goto(c, "backfillClear") \/ NextDoc(c, "backfillPut", "backfillPut")
    BY <1>5 DEF BackfillPut, BackfillClear, BackfillReady, JobSkips, At
  <2>2. {"backfillPut", "backfillClear"} \subseteq Pc
    BY DEF Pc
  <2>3. CASE Goto(c, "backfillClear")
    BY <2>1, <2>2, <2>3, <1>0, GotoIsTyped DEF GoesOn
  <2>4. CASE NextDoc(c, "backfillPut", "backfillPut")
    <3>1. (\A x \in Calls \ {c} : calls'[x] = calls[x]) /\ calls'[c].pc \in {"idle", "backfillPut"}
      BY <2>1, <2>2, <2>4, <1>0, NextDocIsTyped
    <3> QED
      BY <3>1 DEF GoesOn
  <2> QED
    BY <2>1, <2>3, <2>4
<1> QED
  BY <1>1, <1>2, <1>3, <1>4, <1>5, UploadStarts, RemoveStarts, PurgeStarts, BackfillStarts DEF CallStep, Step

\* What a step of a call does to rows, objects and the objects set out to go.
Stores(d) == objects' = objects \cup {d} /\ UNCHANGED <<row, condemned>>
Replaces ==
    /\ row' = [x \in Docs |-> IF row[x].state = "active" THEN [row[x] EXCEPT !.state = "replaced"] ELSE row[x]]
    /\ UNCHANGED <<objects, condemned>>
Creates(d) == /\ ~Exists(d) /\ (s3 => d \in objects)
              /\ row' = [row EXCEPT ![d] = [state |-> "active", bytes |-> ~s3]]
              /\ UNCHANGED <<objects, condemned>>
Discards(d) == /\ Exists(d)
               /\ objects' \in {objects, objects \ {d}} /\ condemned' = condemned \cup {d}
               /\ UNCHANGED row
TakesAway(d) == /\ Exists(d)
                /\ \/ row' = [row EXCEPT ![d] = Erased(d, "removed")]
                   \/ d \in expired /\ row' = [row EXCEPT ![d] = Erased(d, "purged")]
                /\ UNCHANGED <<objects, condemned>>
MovesOut(d) == /\ d \in objects \/ d \in condemned
               /\ row' = [row EXCEPT ![d].bytes = FALSE]
               /\ UNCHANGED <<objects, condemned>>

LEMMA CallEffects ==
    ASSUME Inv, Placed, NEW c \in Calls, CallStep(c)
    PROVE  LET d == calls[c].doc IN
           /\ expired' = expired
           /\ \/ UNCHANGED <<row, objects, condemned>>
              \/ Replaces
              \/ /\ d \in Docs
                 /\ \/ Stores(d) \/ Discards(d) \/ TakesAway(d) \/ MovesOut(d)
                    \/ calls[c].pc = "createRow" /\ Creates(d)
<1> DEFINE d == calls[c].doc
<1>0. CallsAreTyped
  BY DEF Inv, TypeOK, CallsAreTyped
<1>1. ASSUME Step(c) PROVE d \in Docs /\ expired' = expired /\ uploads' = uploads
  <2>1. calls[c].pc # "idle"
    BY <1>1 DEF Step, PutObject, SoftDelete, CreateRow, DeleteObject, RemoveTx, PurgeDelete, PurgeUpdate,
                PurgeAudit, BackfillPut, BackfillClear, BackfillReady, At
  <2>2. expired' = expired /\ uploads' = uploads
    BY <1>1 DEF Step, PutObject, SoftDelete, CreateRow, DeleteObject, RemoveTx, PurgeDelete, PurgeUpdate,
                PurgeAudit, BackfillPut, BackfillClear, World
  <2> QED
    BY <2>1, <2>2, <1>0, UnderWay
<1>2. ASSUME ~Step(c) PROVE UNCHANGED <<row, objects, condemned, expired>>
  <2>1. StartUpload(c) \/ StartPurge(c) \/ StartBackfill(c) => UNCHANGED <<row, objects, condemned, expired>>
    BY DEF StartUpload, StartPurge, StartBackfill, World
  <2>2. ASSUME NEW x \in Docs, StartRemove(c, x) PROVE UNCHANGED <<row, objects, condemned, expired>>
    BY <2>2 DEF StartRemove, World
  <2>3. CallFails(c) \/ JobSkips(c) => UNCHANGED <<row, objects, condemned, expired>>
    BY DEF CallFails, JobSkips, World
  <2> QED
    BY <1>2, <2>1, <2>2, <2>3 DEF CallStep
<1>3. CASE PutObject(c) \/ BackfillPut(c) \/ PurgeAudit(c)
  BY <1>1, <1>3 DEF Step, PutObject, BackfillPut, PurgeAudit, Stores
<1>4. CASE SoftDelete(c)
  BY <1>1, <1>4 DEF Step, SoftDelete, Replaced, Replaces
<1>5. CASE CreateRow(c)
  <2>1. calls[c].pc = "createRow" /\ d \in Docs
    BY <1>1, <1>5 DEF Step, CreateRow, At
  <2>2. ~Exists(d) /\ (s3 => d \in objects)
    BY <2>1 DEF Placed, CallIsPlaced, Uploads, Inv, UploadIsStored, Kept
  <2> QED
    BY <1>1, <1>5, <2>1, <2>2 DEF Step, CreateRow, Creates
<1>6. CASE DeleteObject(c) \/ PurgeDelete(c)
  <2>1. Exists(d)
    BY <1>6 DEF DeleteObject, PurgeDelete, At, Placed, CallIsPlaced
  <2> QED
    BY <1>1, <1>6, <2>1 DEF Step, DeleteObject, PurgeDelete, Discards
<1>7. CASE RemoveTx(c) \/ PurgeUpdate(c)
  <2>1. Exists(d) /\ (PurgeUpdate(c) => d \in expired)
    BY <1>7 DEF RemoveTx, PurgeUpdate, At, Placed, CallIsPlaced
  <2> QED
    BY <1>1, <1>7, <2>1 DEF Step, RemoveTx, PurgeUpdate, TakesAway
<1>8. CASE BackfillClear(c)
  <2>1. d \in objects \/ d \in condemned
    BY <1>8 DEF BackfillClear, BackfillReady, At, Inv, MoveIsStored, Kept
  <2> QED
    BY <1>1, <1>8, <2>1 DEF Step, BackfillClear, MovesOut
<1>9. CASE ~Step(c)
  BY <1>2, <1>9
<1> QED
  BY <1>3, <1>4, <1>5, <1>6, <1>7, <1>8, <1>9 DEF Step
LEMMA CallIsNext ==
    ASSUME NEW c \in Calls, CallStep(c)
    PROVE  Next
BY DEF CallStep, Next

LEMMA CallUploads ==
    ASSUME NEW c \in Calls, CallStep(c)
    PROVE  uploads' \in {uploads, uploads + 1}
<1>1. Step(c) => uploads' = uploads
  BY DEF Step, PutObject, SoftDelete, CreateRow, DeleteObject, RemoveTx, PurgeDelete, PurgeUpdate,
         PurgeAudit, BackfillPut, BackfillClear, World
<1>2. StartUpload(c) \/ StartPurge(c) \/ StartBackfill(c) => uploads' \in {uploads, uploads + 1}
  BY DEF StartUpload, StartPurge, StartBackfill, World
<1>3. ASSUME NEW d \in Docs, StartRemove(c, d) PROVE uploads' = uploads
  BY <1>3 DEF StartRemove, World
<1>4. CallFails(c) \/ JobSkips(c) => uploads' = uploads
  BY DEF CallFails, JobSkips, World
<1> QED
  BY <1>1, <1>2, <1>3, <1>4 DEF CallStep

LEMMA PlacedStep ==
    ASSUME Inv, Placed, [Next]_vars
    PROVE  Placed'
<1>0. /\ uploads \in Nat /\ expired \subseteq Docs /\ condemned \subseteq Docs /\ row \in [Docs -> DocRow]
      /\ \A d \in Docs : d \in Nat
      /\ \A c \in Calls : calls[c] \in Call \cup {NoCall}
  BY StoreAssumption DEF Inv, TypeOK, Docs, StoreAssumption
<1>1. ASSUME NEW c \in Calls, CallStep(c)
      PROVE  Placed'
  <2> DEFINE d == calls[c].doc
  <2>1. GoesOn(c) /\ \A x \in Calls \ {c} : calls'[x] = calls[x]
    BY <1>1, CallGoesOn
  <2>2. expired' = expired /\ uploads' \in {uploads, uploads + 1}
    BY <1>1, CallEffects, CallUploads
  <2>3. /\ \A x \in Docs : Exists(x) => Exists(x)'
        /\ \A x \in Docs : ~Exists(x) /\ Exists(x)' => x = d /\ calls[c].pc = "createRow"
        /\ \A x \in condemned' : x \in Docs /\ Exists(x)
        /\ \A x \in Docs : row'[x].bytes => row[x].bytes \/ Exists(x)'
    <3>1. CASE UNCHANGED <<row, objects, condemned>>
      BY <1>0, <3>1 DEF Exists, Placed
    <3>2. CASE Replaces
      BY <1>0, <3>2 DEF Replaces, Exists, Placed, DocRow
    <3>3. CASE d \in Docs /\ (Stores(d) \/ Discards(d))
      BY <1>0, <3>3 DEF Stores, Discards, Exists, Placed
    <3>4. CASE d \in Docs /\ (TakesAway(d) \/ MovesOut(d))
      <4> HIDE DEF d
      <4>1. /\ condemned' = condemned
            /\ \A x \in Docs \ {d} : row'[x] = row[x]
            /\ (Exists(d) /\ row'[d].state \in {"removed", "purged"}) \/ row'[d].state = row[d].state
            /\ ~row'[d].bytes
        <5>1. CASE TakesAway(d)
          <6>1. PICK e \in {"removed", "purged"} : row' = [row EXCEPT ![d] = Erased(d, e)]
            BY <5>1 DEF TakesAway
          <6> QED
            BY <1>0, <3>4, <5>1, <6>1 DEF TakesAway, Erased, DocRow
        <5>2. CASE MovesOut(d)
          BY <1>0, <3>4, <5>2 DEF MovesOut, DocRow
        <5> QED
          BY <3>4, <5>1, <5>2
      <4> QED
        BY <1>0, <3>4, <4>1 DEF Exists, Placed
    <3>5. CASE d \in Docs /\ calls[c].pc = "createRow" /\ Creates(d)
      BY <1>0, <3>5 DEF Creates, Exists, Placed, DocRow
    <3> QED
      BY <1>1, <3>1, <3>2, <3>3, <3>4, <3>5, CallEffects
  <2>4. ASSUME NEW x \in Calls \ {c} PROVE CallIsPlaced(x)'
    <3>1. calls'[x] = calls[x] /\ CallIsPlaced(x)
      BY <2>1 DEF Placed
    <3>2. Uploads(x) => calls[x].doc <= uploads' /\ row'[calls[x].doc].state = "absent"
      <4> SUFFICES ASSUME Uploads(x) PROVE calls[x].doc <= uploads' /\ row'[calls[x].doc].state = "absent"
        OBVIOUS
      <4>1. calls[x].doc \in Docs
        BY <1>0 DEF Uploads, Call, NoCall
      <4>2. calls[x].doc <= uploads /\ ~Exists(calls[x].doc)
        BY <3>1 DEF CallIsPlaced
      <4>3. calls[c].pc = "createRow" => calls[x].doc # d
        BY DEF Placed, UploadsDiffer, Uploads
      <4>4. row'[calls[x].doc].state = "absent"
        BY <2>3, <4>1, <4>2, <4>3 DEF Exists
      <4>5. calls[x].doc <= uploads'
        <5>1. calls[x].doc \in Nat
          BY <1>0, <4>1
        <5> HIDE DEF d
        <5> QED
          BY <1>0, <2>2, <4>2, <5>1
      <4> QED
        BY <4>4, <4>5
    <3>3. calls[x].pc \in {"deleteObject", "removeTx"} => row'[calls[x].doc].state # "absent"
      BY <1>0, <2>3, <3>1 DEF CallIsPlaced, Call, NoCall, Exists
    <3> QED
      BY <2>2, <3>1, <3>2, <3>3 DEF CallIsPlaced, Uploads, Exists
  <2>5. CallIsPlaced(c)'
    <3>1. CASE calls'[c].pc \in {"put", "softDelete", "createRow"}
      <4>1. CASE Uploads(c) /\ calls[c].pc # "createRow" /\ calls'[c].doc = calls[c].doc
        <5>1. d \in Docs /\ d <= uploads /\ ~Exists(d)
          BY <1>0, <4>1 DEF Placed, CallIsPlaced, Uploads, Call, NoCall
        <5> QED
          BY <1>0, <2>2, <2>3, <3>1, <4>1, <5>1 DEF CallIsPlaced, Exists
      <4>2. CASE calls'[c].doc = uploads + 1 /\ uploads' = uploads + 1 /\ row' = row
        <5>1. uploads' \in Docs /\ uploads' > uploads /\ uploads' <= uploads'
          <6>1. uploads' \in 0..MaxDocs
            BY <1>1, StepInv, CallIsNext DEF Inv, TypeOK
          <6> QED
            BY <6>1, <1>0, <4>2, StoreAssumption DEF Docs, StoreAssumption
        <5>2. ~Exists(uploads')
          BY <1>0, <5>1, <4>2 DEF Placed
        <5> QED
          BY <3>1, <4>2, <5>1, <5>2 DEF CallIsPlaced, Exists
      <4> QED
        BY <2>1, <3>1, <4>1, <4>2 DEF GoesOn
    <3>2. CASE calls'[c].pc \notin {"put", "softDelete", "createRow"}
      BY <2>1, <2>2, <2>3, <3>2 DEF GoesOn, CallIsPlaced, Uploads, Exists
    <3> QED
      BY <3>1, <3>2
  <2>6. UploadsDiffer'
    <3>1. ASSUME NEW x \in Calls \ {c}, Uploads(x), Uploads(c)' PROVE calls[x].doc # calls'[c].doc
      <4>1. calls[x].doc \in Nat /\ calls[x].doc <= uploads
        BY <1>0, <3>1 DEF Placed, CallIsPlaced, Uploads, Call, NoCall
      <4>2. \/ Uploads(c) /\ calls'[c].doc = calls[c].doc
            \/ calls'[c].doc = uploads + 1
        BY <2>1, <3>1 DEF GoesOn, Uploads
      <4> QED
        BY <1>0, <3>1, <4>1, <4>2 DEF Placed, UploadsDiffer
    <3> QED
      BY <2>1, <3>1 DEF Placed, UploadsDiffer, Uploads
  <2>7. \A x \in expired' \cup condemned' : Exists(x)'
    BY <1>0, <2>2, <2>3 DEF Placed
  <2>8. ASSUME NEW x \in Docs, x > uploads' PROVE ~Exists(x)'
    <3>1. x > uploads
      BY <1>0, <2>2, <2>8
    <3>2. calls[c].pc = "createRow" => d <= uploads
      BY DEF Placed, CallIsPlaced, Uploads
    <3> QED
      BY <1>0, <2>3, <3>1, <3>2 DEF Placed
  <2>9. \A x \in Docs : row'[x].bytes => row'[x].state # "absent"
    BY <2>3 DEF Placed, Exists
  <2> QED
    BY <2>4, <2>5, <2>6, <2>7, <2>8, <2>9 DEF Placed, Exists
<1>2. CASE Restart
  <2>1. \A c \in Calls : calls'[c].pc = "idle"
    BY <1>2 DEF Restart, NoCall
  <2> QED
    BY <1>2, <2>1 DEF Restart, Placed, CallIsPlaced, Uploads, UploadsDiffer, Exists
<1>3. ASSUME NEW d \in Docs, Expire(d) PROVE Placed'
  BY <1>3 DEF Expire, Placed, CallIsPlaced, Uploads, UploadsDiffer, Exists
<1>4. CASE UNCHANGED vars
  BY <1>4 DEF vars, Placed, CallIsPlaced, Uploads, UploadsDiffer, Exists
<1> QED
  BY <1>1, <1>2, <1>3, <1>4 DEF Next, CallStep
\* Each step is one of DocumentStates, or none.
LEMMA DocumentsStep ==
    ASSUME Inv, Placed, [Next]_vars
    PROVE  \/ Documents!Next
           \/ UNCHANGED <<[d \in Docs |-> row[d].state], {d \in Docs : row[d].bytes}, objects, expired, condemned>>
<1> DEFINE st == [d \in Docs |-> row[d].state]
           held == {d \in Docs : row[d].bytes}
<1>0. row \in [Docs -> DocRow] /\ s3 \in BOOLEAN
  BY DEF Inv, TypeOK
<1>1. ASSUME UNCHANGED <<row, objects, expired, condemned>>
      PROVE  UNCHANGED <<st, held, objects, expired, condemned>>
  BY <1>1
\* One row changes, to r.
<1>2. ASSUME NEW d \in Docs, NEW r \in DocRow, row' = [row EXCEPT ![d] = r]
      PROVE  /\ st' = [st EXCEPT ![d] = r.state]
             /\ held' = IF r.bytes THEN held \cup {d} ELSE held \ {d}
  <2>1. \A x \in Docs : row'[x] = IF x = d THEN r ELSE row[x]
    BY <1>0, <1>2
  <2>2. r.bytes \in BOOLEAN
    BY DEF DocRow
  <2>3. st' = [st EXCEPT ![d] = r.state]
    BY <2>1
  <2>4. held' = IF r.bytes THEN held \cup {d} ELSE held \ {d}
    BY <2>1, <2>2
  <2> QED
    BY <2>3, <2>4
<1>3. ASSUME NEW d \in Docs, Stores(d), expired' = expired
      PROVE  Documents!Store(d)
  BY <1>3 DEF Stores, Documents!Store
<1>4. ASSUME Replaces, expired' = expired
      PROVE  Documents!Replace
  <2>1. \A x \in Docs : /\ row'[x].state = IF row[x].state = "active" THEN "replaced" ELSE row[x].state
                        /\ row'[x].bytes = row[x].bytes
    BY <1>0, <1>4 DEF Replaces, DocRow
  <2>2. st' = [x \in Docs |-> IF st[x] = "active" THEN "replaced" ELSE st[x]]
    BY <2>1
  <2>3. held' = held
    BY <2>1
  <2> QED
    BY <1>4, <2>2, <2>3 DEF Replaces, Documents!Replace
<1>5. ASSUME NEW d \in Docs, Creates(d), expired' = expired
      PROVE  Documents!Create(d)
  <2> DEFINE r == [state |-> "active", bytes |-> ~s3]
  <2>1. r \in DocRow /\ r.state = "active" /\ r.bytes = ~s3
    BY <1>0 DEF DocRow
  <2>2. row' = [row EXCEPT ![d] = r]
    BY <1>5 DEF Creates
  <2> HIDE DEF r
  <2>3. st' = [st EXCEPT ![d] = "active"] /\ held' = IF s3 THEN held \ {d} ELSE held \cup {d}
    BY <1>0, <1>2, <2>1, <2>2
  <2>4. st[d] = "absent" /\ d \notin held /\ (s3 => d \in objects)
    BY <1>5 DEF Creates, Exists, Placed
  <2> QED
    BY <1>5, <2>3, <2>4 DEF Creates, Documents!Create
<1>6. ASSUME NEW d \in Docs, Discards(d), expired' = expired
      PROVE  Documents!Discard(d)
  BY <1>6 DEF Discards, Exists, Documents!Discard
<1>7. ASSUME NEW d \in Docs, TakesAway(d), expired' = expired
      PROVE  Documents!Remove(d) \/ Documents!Purge(d)
  <2>1. PICK s \in {"removed", "purged"} : row' = [row EXCEPT ![d] = Erased(d, s)] /\ (s = "purged" => d \in expired)
    BY <1>7 DEF TakesAway
  <2>2. Erased(d, s) \in DocRow /\ Erased(d, s).state = s /\ ~Erased(d, s).bytes
    BY <1>0 DEF Erased, DocRow
  <2>3. st' = [st EXCEPT ![d] = s] /\ held' = held \ {d}
    BY <1>2, <2>1, <2>2
  <2>4. st[d] # "absent" /\ UNCHANGED <<objects, condemned>>
    BY <1>7 DEF TakesAway, Exists
  <2>5. Documents!Erase(d, s)
    BY <1>7, <2>3, <2>4 DEF Documents!Erase
  <2> QED
    BY <2>1, <2>5 DEF Documents!Remove, Documents!Purge
<1>8. ASSUME NEW d \in Docs, MovesOut(d), expired' = expired
      PROVE  Documents!MoveOut(d)
  <2> DEFINE r == [row[d] EXCEPT !.bytes = FALSE]
  <2>1. r \in DocRow /\ r.state = row[d].state /\ ~r.bytes
    BY <1>0 DEF DocRow
  <2>2. row' = [row EXCEPT ![d] = r]
    BY <1>8 DEF MovesOut
  <2> HIDE DEF r
  <2>3. st' = [st EXCEPT ![d] = row[d].state] /\ held' = held \ {d}
    BY <1>2, <2>1, <2>2
  <2>4. st' = st
    BY <2>3
  <2> QED
    BY <1>8, <2>3, <2>4 DEF MovesOut, Documents!MoveOut
<1>9. ASSUME NEW d \in Docs, Expire(d)
      PROVE  Documents!Age(d)
  BY <1>9 DEF Expire, Documents!Age
<1>10. CASE UNCHANGED vars \/ Restart
  BY <1>1, <1>10 DEF vars, Restart
<1> HIDE DEF st, held
<1>11. ASSUME NEW c \in Calls, CallStep(c)
       PROVE  Documents!Next \/ UNCHANGED <<st, held, objects, expired, condemned>>
  <2> DEFINE d == calls[c].doc
  <2>1. /\ expired' = expired
        /\ \/ UNCHANGED <<row, objects, condemned>>
           \/ Replaces
           \/ d \in Docs /\ (Stores(d) \/ Discards(d) \/ TakesAway(d) \/ MovesOut(d) \/ Creates(d))
    BY <1>11, CallEffects
  <2> HIDE DEF d
  <2> QED
    BY <2>1, <1>1, <1>3, <1>4, <1>5, <1>6, <1>7, <1>8 DEF Documents!Next
<1> QED
  BY <1>9, <1>10, <1>11 DEF Next, CallStep, Documents!Next, st, held

\* The uploads, removals, purge and backfill runs implement DocumentStates, with
\* any number of them under way, failing operations and restarts: rows come
\* once and with their content, are purged only when due, give up their bytes only
\* to the bucket or an erasure, and objects go only once an erasure set out.
THEOREM ImplementsDocumentStates == Spec => DocumentsSpec
<1>1. Init => Documents!Init
  BY DEF Init, Documents!Init
<1>2. Inv /\ Placed /\ [Next]_vars => Placed'
  BY PlacedStep
<1>3. Inv /\ Placed /\ [Next]_vars =>
          [Documents!Next]_(Documents!vars)
  BY DocumentsStep DEF Documents!vars
<1> QED
  BY <1>1, <1>2, <1>3, InitPlaced, SpecInv, PTL DEF Spec, DocumentsSpec, Documents!Spec
=============================================================================
