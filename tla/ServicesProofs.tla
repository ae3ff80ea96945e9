--------------------------- MODULE ServicesProofs ---------------------------
(***************************************************************************)
(* Theorems about Tenancy and Voice, for any companies, tables, catalogs   *)
(* and any number of calls under way at the same time, and about the       *)
(* composition of the services, which behaves as each of its parts.        *)
(***************************************************************************)
EXTENDS MCServices, SignInProofs, CompaniesProofs, TLAPS

----------------------------------------------------------------------------
(* Tenancy *)

\* An authenticated call: its store names the company its token names, or none;
\* what it found is its own but for what OwnRowsOnly excepts.
CallIsOwn(c) ==
    LET v == caller[c] IN
    v.pc \notin {"none", "begun"} =>
        /\ v.home \in Tenants /\ (v.admin => v.named)
        /\ store[c] = IF v.named THEN v.home ELSE NoTenant
        /\ v.named => \A u \in v.rows \ {v.home} : v.admin \/ <<v.home, u>> \in astray
        /\ v.pc \in {"document", "user"} => v.named
        /\ v.named /\ v.pc \in {"document", "user", "create"} => v.rows \subseteq {v.home}
        /\ v.named /\ v.pc = "answered" /\ scoping => v.rows \subseteq {v.home}

\* Every writer of memberships checks both companies.
MembersAreOwn == \A m \in members : m[1] = m[2]

TenancyInv == /\ TenancyTypeOK
              /\ \A c \in Callers : CallIsOwn(c)
              /\ MembersAreOwn

LEMMA TenancyInitInv == TenancyInit => TenancyInv
BY TenancyAssumption DEF TenancyInit, TenancyInv, TenancyTypeOK, Caller, NoCaller, CallIsOwn, MembersAreOwn

\* What a call has in scope: its own company, where its token names one and the
\* extension is installed.
LEMMA ScopeIsOwn ==
    ASSUME TenancyInv, NEW c \in Callers, caller[c].pc \notin {"none", "begun"}
    PROVE  /\ InScope(c) \subseteq Tenants
           /\ caller[c].home \in InScope(c)
           /\ caller[c].named /\ scoping => InScope(c) = {caller[c].home}
BY TenancyAssumption DEF TenancyInv, TenancyTypeOK, CallIsOwn, InScope, StoreOf, TenancyAssumption

\* A call goes on with rows it may have, and nothing is taken from astray.
LEMMA GoesKeepsInv ==
    ASSUME TenancyInv, NEW c \in Callers, caller[c].pc \notin {"none", "begun"},
           NEW pc \in {"document", "work", "cancel", "create", "user", "answered"}, NEW rows \in SUBSET Tenants,
           Goes(c, pc, rows), astray \subseteq astray', astray' \subseteq Tenants \X Tenants,
           members' \subseteq Tenants \X Tenants, MembersAreOwn',
           caller[c].named => \A u \in rows \ {caller[c].home} : caller[c].admin \/ <<caller[c].home, u>> \in astray',
           pc \in {"document", "user"} => caller[c].named,
           caller[c].named /\ pc \in {"document", "user", "create"} => rows \subseteq {caller[c].home},
           caller[c].named /\ pc = "answered" /\ scoping => rows \subseteq {caller[c].home}
    PROVE  TenancyInv'
<1> DEFINE rec == [caller[c] EXCEPT !.pc = pc, !.rows = rows]
<1>0. rec \in Caller
  BY DEF TenancyInv, TenancyTypeOK, Caller
<1>1. /\ caller' \in [Callers -> Caller] /\ UNCHANGED <<scoping, store>>
      /\ \A x \in Callers \ {c} : caller'[x] = caller[x]
      /\ caller'[c] = rec
  <2>1. caller' = [caller EXCEPT ![c] = rec] /\ UNCHANGED <<scoping, store>>
    BY DEF Goes
  <2> HIDE DEF rec
  <2> QED
    BY <1>0, <2>1 DEF TenancyInv, TenancyTypeOK
<1>2. TenancyTypeOK'
  BY <1>1 DEF TenancyInv, TenancyTypeOK
<1>3. ASSUME NEW x \in Callers, x # c PROVE CallIsOwn(x)'
  BY <1>1, <1>3 DEF TenancyInv, CallIsOwn
<1>4. CallIsOwn(c)'
  <2>1. /\ caller'[c].pc = pc /\ caller'[c].rows = rows /\ caller'[c].home = caller[c].home
        /\ caller'[c].named = caller[c].named /\ caller'[c].admin = caller[c].admin
    BY <1>1 DEF TenancyInv, TenancyTypeOK, Caller
  <2>2. CallIsOwn(c)
    BY DEF TenancyInv
  <2> QED
    BY <2>1, <2>2, <1>1 DEF CallIsOwn
<1> QED
  BY <1>2, <1>3, <1>4 DEF TenancyInv

\* An answer of rows in scope.
LEMMA AnswersKeepsInv ==
    ASSUME TenancyInv, NEW c \in Callers, caller[c].pc \notin {"none", "begun"}, NEW rows, Answers(c, rows),
           caller[c].named => \A u \in rows \ {caller[c].home} : caller[c].admin \/ <<caller[c].home, u>> \in astray
    PROVE  TenancyInv'
<1>1. rows \cap InScope(c) \in SUBSET Tenants
  BY ScopeIsOwn
<1>2. Goes(c, "answered", rows \cap InScope(c)) /\ UNCHANGED <<members, astray>>
  BY DEF Answers
<1>3. MembersAreOwn' /\ members' \subseteq Tenants \X Tenants /\ astray' \subseteq Tenants \X Tenants
  BY <1>2 DEF TenancyInv, TenancyTypeOK, MembersAreOwn
<1> QED
  BY <1>1, <1>2, <1>3, ScopeIsOwn, GoesKeepsInv

\* Steps that fill or empty the store of a call.
LEMMA StoreSteps ==
    ASSUME TenancyInv,
           \/ \E c \in Callers :
                 Arrive(c) \/ Depart(c) \/ \E t \in Tenants, named, admin \in BOOLEAN : Authenticate(c, t, named, admin)
           \/ Reboot
    PROVE  TenancyInv'
<1>1. NoCaller \in Caller /\ NoCaller.pc = "none"
  BY DEF Caller, NoCaller
<1>2. ASSUME NEW c \in Callers, Arrive(c) PROVE TenancyInv'
  BY <1>2 DEF Arrive, StoreOf, TenancyInv, TenancyTypeOK, CallIsOwn, MembersAreOwn, Caller
<1>3. ASSUME NEW c \in Callers, Depart(c) PROVE TenancyInv'
  BY <1>1, <1>3 DEF Depart, TenancyInv, TenancyTypeOK, CallIsOwn, MembersAreOwn
<1>4. ASSUME NEW c \in Callers, NEW t \in Tenants, NEW named \in BOOLEAN, NEW admin \in BOOLEAN,
             Authenticate(c, t, named, admin)
      PROVE  TenancyInv'
  <2>1. TenancyTypeOK' /\ MembersAreOwn'
    BY <1>4 DEF Authenticate, StoreOf, TenancyInv, TenancyTypeOK, MembersAreOwn, Caller
  <2>2. \A x \in Callers : CallIsOwn(x)'
    BY <1>4 DEF Authenticate, StoreOf, TenancyInv, TenancyTypeOK, CallIsOwn
  <2> QED
    BY <2>1, <2>2 DEF TenancyInv
<1>5. ASSUME Reboot PROVE TenancyInv'
  BY <1>1, <1>5 DEF Reboot, TenancyInv, TenancyTypeOK, CallIsOwn, MembersAreOwn
<1> QED
  BY <1>2, <1>3, <1>4, <1>5

\* Handlers that answer with a list, or with the row they found before.
LEMMA ListSteps ==
    ASSUME TenancyInv, NEW c \in Callers,
           ListOfCompany(c) \/ ListOwn(c) \/ ListQueue(c) \/ UseDocument(c) \/ CancelIt(c)
    PROVE  TenancyInv'
<1>1. CallIsOwn(c) /\ MembersAreOwn
  BY DEF TenancyInv
<1>2. CASE ListOfCompany(c)
  BY <1>2, AnswersKeepsInv DEF ListOfCompany, CallAt, OfToken
<1>3. CASE ListOwn(c)
  BY <1>3, AnswersKeepsInv DEF ListOwn, CallAt, TiedTo
<1>4. CASE ListQueue(c)
  <2>1. CASE caller[c].named /\ Answers(c, {caller[c].home})
    BY <2>1, <1>4, AnswersKeepsInv DEF ListQueue, CallAt
  <2>2. CASE caller[c].admin /\ Answers(c, Tenants)
    BY <2>2, <1>4, AnswersKeepsInv DEF ListQueue, CallAt
  <2>3. CASE Answers(c, MemberAt(c))
    BY <2>3, <1>1, <1>4, AnswersKeepsInv DEF ListQueue, CallAt, MemberAt, MembersAreOwn
  <2> QED
    BY <2>1, <2>2, <2>3, <1>4 DEF ListQueue
<1>5. CASE UseDocument(c)
  BY <1>1, <1>5, AnswersKeepsInv DEF UseDocument, CallAt, CallIsOwn
<1>6. CASE CancelIt(c)
  BY <1>1, <1>6, AnswersKeepsInv DEF CancelIt, CallAt, CallIsOwn
<1> QED
  BY <1>2, <1>3, <1>4, <1>5, <1>6

\* Handlers that find a row by its id, whoever's it is.
LEMMA FindSteps ==
    ASSUME TenancyInv, NEW c \in Callers, NEW t \in Tenants,
           \/ GetRequest(c, t) \/ FindForDocument(c, t) \/ FindToWork(c, t)
           \/ FindToCancel(c, t) \/ FindDepartment(c, t) \/ FindAccount(c, t)
    PROVE  TenancyInv'
<1>1. /\ CallIsOwn(c) /\ MembersAreOwn /\ {t} \in SUBSET Tenants /\ caller[c].pc = "in"
      /\ UNCHANGED <<members, astray>>
  BY DEF TenancyInv, GetRequest, FindForDocument, FindToWork, FindToCancel, FindDepartment, FindAccount, CallAt
<1>2. MembersAreOwn' /\ members' \subseteq Tenants \X Tenants /\ astray' \subseteq Tenants \X Tenants
  BY <1>1 DEF TenancyInv, TenancyTypeOK, MembersAreOwn
<1>3. CASE GetRequest(c, t)
  BY <1>1, <1>2, <1>3, GoesKeepsInv DEF GetRequest, OwnCompany
<1>4. CASE FindForDocument(c, t)
  BY <1>1, <1>2, <1>4, GoesKeepsInv DEF FindForDocument, OwnCompany
<1>5. CASE FindAccount(c, t)
  BY <1>1, <1>2, <1>5, GoesKeepsInv DEF FindAccount, OwnCompany
<1>6. CASE FindToWork(c, t)
  BY <1>1, <1>2, <1>6, GoesKeepsInv DEF FindToWork, MemberAt, MembersAreOwn
<1>7. CASE FindToCancel(c, t)
  BY <1>1, <1>2, <1>7, GoesKeepsInv DEF FindToCancel, TiedTo
<1>8. CASE FindDepartment(c, t)
  BY <1>1, <1>2, <1>8, GoesKeepsInv DEF FindDepartment, OfToken
<1> QED
  BY <1>3, <1>4, <1>5, <1>6, <1>7, <1>8

\* Handlers that leave a request or a membership behind.
LEMMA WriteSteps ==
    ASSUME TenancyInv, NEW c \in Callers, WorkOnRequest(c) \/ CreateIt(c) \/ WriteAccount(c)
    PROVE  TenancyInv'
<1>1. /\ CallIsOwn(c) /\ MembersAreOwn /\ caller[c].rows \in SUBSET Tenants
      /\ members \subseteq Tenants \X Tenants /\ astray \subseteq Tenants \X Tenants
  BY DEF TenancyInv, TenancyTypeOK, Caller
<1>2. CASE WorkOnRequest(c)
  <2> DEFINE met == caller[c].rows \cap InScope(c)
  <2>1. caller[c].pc = "work" /\ Goes(c, "answered", met) /\ met \in SUBSET Tenants
    BY <1>1, <1>2 DEF WorkOnRequest, CallAt
  <2>2. /\ astray \subseteq astray' /\ astray' \subseteq Tenants \X Tenants
        /\ \A u \in met \ {caller[c].home} : <<caller[c].home, u>> \in astray'
    BY <1>1, <1>2, <2>1 DEF WorkOnRequest, CallIsOwn
  <2>3. MembersAreOwn' /\ members' = members
    BY <1>1, <1>2 DEF WorkOnRequest, MembersAreOwn
  <2>4. caller[c].named /\ scoping => met \subseteq {caller[c].home}
    BY <2>1, ScopeIsOwn
  <2> HIDE DEF met
  <2> QED
    BY <1>1, <2>1, <2>2, <2>3, <2>4, GoesKeepsInv
<1>3. CASE CreateIt(c)
  <2>1. caller[c].pc = "create" /\ Goes(c, "answered", caller[c].rows)
    BY <1>3 DEF CreateIt, CallAt
  <2>2. astray \subseteq astray' /\ astray' \subseteq Tenants \X Tenants
    BY <1>1, <1>3, <2>1 DEF CreateIt, CallIsOwn
  <2>3. MembersAreOwn' /\ members' = members
    BY <1>1, <1>3 DEF CreateIt, MembersAreOwn
  <2>4. caller[c].named => caller[c].rows \subseteq {caller[c].home}
    BY <1>1, <2>1 DEF CallIsOwn
  <2> QED
    BY <1>1, <2>1, <2>2, <2>3, <2>4, GoesKeepsInv
<1>4. CASE WriteAccount(c)
  <2>1. caller[c].pc = "user" /\ Goes(c, "answered", caller[c].rows \cup OfToken(c)) /\ astray' = astray
    BY <1>4 DEF WriteAccount, CallAt
  <2>2. caller[c].named /\ caller[c].rows \subseteq {caller[c].home} /\ OfToken(c) = {caller[c].home}
        /\ caller[c].home \in Tenants
    BY <1>1, <2>1 DEF CallIsOwn, OfToken
  <2>3. MembersAreOwn' /\ members' \subseteq Tenants \X Tenants
    BY <1>1, <1>4, <2>2 DEF WriteAccount, MembersAreOwn
  <2> QED
    BY <1>1, <2>1, <2>2, <2>3, GoesKeepsInv
<1> QED
  BY <1>2, <1>3, <1>4

LEMMA TenancyStepInv == TenancyInv /\ [TenancyNext]_tenancyVars => TenancyInv'
<1> SUFFICES ASSUME TenancyInv, [TenancyNext]_tenancyVars PROVE TenancyInv'
  OBVIOUS
<1>1. CASE UNCHANGED tenancyVars
  BY <1>1 DEF tenancyVars, TenancyInv, TenancyTypeOK, CallIsOwn, MembersAreOwn
<1>2. CASE TenancyNext
  BY <1>2, StoreSteps, ListSteps, FindSteps, WriteSteps DEF TenancyNext
<1> QED
  BY <1>1, <1>2

LEMMA TenancySpecInv == TenancySpec => []TenancyInv
BY TenancyInitInv, TenancyStepInv, PTL DEF TenancySpec

\* Stores, calls, memberships and requests keep their types.
THEOREM TenancyTypes == TenancySpec => []TenancyTypeOK
<1>1. TenancyInv => TenancyTypeOK
  BY DEF TenancyInv
<1> QED
  BY <1>1, TenancySpecInv, PTL

\* However calls arrive, authenticate and query between the awaits of others, a
\* call whose token names its company shows and changes no other company's rows
\* where the extension is installed (the store is the call's own); after a boot
\* that left it out, the handlers' own checks keep all but administrators and
\* requests made or claimed elsewhere at home.
THEOREM QueriesStayHome == TenancySpec => []OwnRowsOnly
<1>1. TenancyInv => OwnRowsOnly
  BY DEF TenancyInv, CallIsOwn, OwnRowsOnly, CallAt
<1> QED
  BY <1>1, TenancySpecInv, PTL

----------------------------------------------------------------------------
(* Voice *)

\* What is offered now has been offered since the model's answer.
SawOffered(c) == speaker[c].pc \in {"department", "type", "create"} => offered \subseteq speaker[c].saw

VoiceInv == /\ VoiceTypeOK
            /\ \A c \in Speakers : SawOffered(c)
            /\ DraftIsGrounded
            /\ NoFileLeftBehind

LEMMA NoSpeakerIsTyped == NoSpeaker \in Speaker
BY DEF NoSpeaker, Speaker

LEMMA VoiceInitInv == VoiceInit => VoiceInv
<1> SUFFICES ASSUME VoiceInit PROVE VoiceInv
  OBVIOUS
<1>1. VoiceTypeOK
  BY NoSpeakerIsTyped DEF VoiceInit, VoiceTypeOK, InDepartments
<1>2. \A c \in Speakers : SawOffered(c)
  BY DEF VoiceInit, SawOffered, NoSpeaker
<1> QED
  BY <1>1, <1>2 DEF VoiceInit, VoiceInv, DraftIsGrounded, NoFileLeftBehind

\* A call moves on, or is over, without its file and without a draft.
LEMMA MovingKeepsInv ==
    ASSUME VoiceInv, NEW c \in Speakers, NEW rec \in Speaker, Moving(c, rec),
           offered' = offered, draft' = draft,
           file' \subseteq Speakers, stray' \subseteq Speakers, stray \subseteq stray', file' \subseteq file \cup {c},
           c \in file' => rec.pc = "transcribe" \/ c \in stray',
           rec.pc \in {"department", "type", "create"} => offered \subseteq rec.saw
    PROVE  VoiceInv'
<1>1. /\ speaker'[c] = rec
      /\ \A x \in Speakers \ {c} : speaker'[x] = speaker[x]
      /\ speaker' \in [Speakers -> Speaker]
  BY DEF VoiceInv, VoiceTypeOK, Moving
<1>2. VoiceTypeOK'
  BY <1>1 DEF VoiceInv, VoiceTypeOK
<1>3. \A x \in Speakers : SawOffered(x)'
  BY <1>1 DEF VoiceInv, SawOffered
<1>4. NoFileLeftBehind'
  BY <1>1 DEF VoiceInv, VoiceTypeOK, NoFileLeftBehind
<1> QED
  BY <1>2, <1>3, <1>4 DEF VoiceInv, DraftIsGrounded

LEMMA CallBegins ==
    ASSUME VoiceInv, NEW c \in Speakers, NEW f \in Firms, NEW preview \in BOOLEAN,
           HearAudio(c, f) \/ ReadText(c, f, preview)
    PROVE  VoiceInv'
<1>1. CASE HearAudio(c, f)
  <2> DEFINE rec == [NoSpeaker EXCEPT !.pc = "transcribe", !.entry = <<f, Unknown, Unknown>>]
  <2>1. rec \in Speaker /\ rec.pc = "transcribe"
    BY DEF NoSpeaker, Speaker
  <2>2. Moving(c, rec)
    BY <1>1 DEF HearAudio
  <2> HIDE DEF rec
  <2> QED
    BY <1>1, <2>1, <2>2, MovingKeepsInv DEF HearAudio, VoiceInv, VoiceTypeOK
<1>2. CASE ReadText(c, f, preview)
  <2> DEFINE rec == [NoSpeaker EXCEPT !.pc = "extract", !.entry = <<f, Unknown, Unknown>>, !.preview = preview]
  <2>1. rec \in Speaker /\ rec.pc = "extract"
    BY DEF NoSpeaker, Speaker
  <2>2. Moving(c, rec)
    BY <1>2 DEF ReadText
  <2> HIDE DEF rec
  <2>3. file \subseteq Speakers /\ stray \subseteq Speakers /\ (c \in file => c \in stray)
    BY <1>2 DEF ReadText, VoiceInv, VoiceTypeOK, NoFileLeftBehind, NoSpeaker
  <2> QED
    BY <1>2, <2>1, <2>2, <2>3, MovingKeepsInv DEF ReadText
<1> QED
  BY <1>1, <1>2

LEMMA CallFailsStep ==
    ASSUME VoiceInv, NEW c \in Speakers, SpeakerFails(c)
    PROVE  VoiceInv'
<1>1. NoSpeaker.pc = "idle"
  BY DEF NoSpeaker
<1>2. file \subseteq Speakers /\ stray \subseteq Speakers /\ (c \in file => c \in stray)
  BY DEF SpeakerFails, VoiceInv, VoiceTypeOK, NoFileLeftBehind
<1> QED
  BY <1>1, <1>2, NoSpeakerIsTyped, MovingKeepsInv DEF SpeakerFails

\* The transcription ends, well or not: its file goes, or is known to stay.
LEMMA TranscribedStep ==
    ASSUME VoiceInv, NEW c \in Speakers, NEW heard \in BOOLEAN, NEW fails \in BOOLEAN,
           Transcribed(c, heard, fails)
    PROVE  VoiceInv'
<1> DEFINE rec == IF heard THEN [speaker[c] EXCEPT !.pc = "extract"] ELSE NoSpeaker
<1>1. rec \in Speaker /\ rec.pc \in {"idle", "extract"}
  BY NoSpeakerIsTyped DEF VoiceInv, VoiceTypeOK, Speaker, NoSpeaker
<1>2. Moving(c, rec)
  BY DEF Transcribed
<1> HIDE DEF rec
<1>3. /\ file' \subseteq file /\ stray \subseteq stray'
      /\ file' \subseteq Speakers /\ stray' \subseteq Speakers
      /\ c \in file' => c \in stray'
  BY DEF Transcribed, Unlinks, VoiceInv, VoiceTypeOK
<1> QED
  BY <1>1, <1>2, <1>3, MovingKeepsInv DEF Transcribed

LEMMA AnswerSteps ==
    ASSUME VoiceInv, NEW c \in Speakers,
           (\E d \in DeptCodes, t \in TypeCodes : Extract(c, d, t)) \/ MapDepartment(c)
    PROVE  VoiceInv'
<1>1. file \subseteq Speakers /\ stray \subseteq Speakers /\ (c \in file => c \in stray)
  BY DEF Extract, MapDepartment, VoiceInv, VoiceTypeOK, NoFileLeftBehind
<1>2. ASSUME NEW d \in DeptCodes, NEW t \in TypeCodes, Extract(c, d, t)
      PROVE  VoiceInv'
  <2> DEFINE rec == [speaker[c] EXCEPT !.pc = "department", !.entry = <<@[1], d, t>>, !.saw = offered]
  <2>1. rec \in Speaker /\ rec.saw = offered
    BY DEF VoiceInv, VoiceTypeOK, Speaker, Entries
  <2>2. Moving(c, rec)
    BY <1>2 DEF Extract
  <2> HIDE DEF rec
  <2> QED
    BY <1>1, <1>2, <2>1, <2>2, MovingKeepsInv DEF Extract
<1>3. CASE MapDepartment(c)
  <2> DEFINE rec == [speaker[c] EXCEPT !.pc = "type"]
  <2>1. rec \in Speaker /\ rec.saw = speaker[c].saw /\ offered \subseteq speaker[c].saw
    BY <1>3 DEF VoiceInv, VoiceTypeOK, Speaker, SawOffered, MapDepartment
  <2>2. Moving(c, rec)
    BY <1>3 DEF MapDepartment
  <2> HIDE DEF rec
  <2> QED
    BY <1>1, <1>3, <2>1, <2>2, MovingKeepsInv DEF MapDepartment
<1> QED
  BY <1>2, <1>3

\* A draft is handed out, or made a request of: its entry is offered now.
LEMMA HandStep ==
    ASSUME VoiceInv, NEW c \in Speakers, MapType(c) \/ CreateTicket(c)
    PROVE  VoiceInv'
<1>1. /\ speaker[c].entry \in offered /\ offered \subseteq speaker[c].saw
      /\ speaker[c].saw \in SUBSET Entries
      /\ UNCHANGED <<offered, file, stray>>
      /\ c \in file => c \in stray
  BY DEF MapType, CreateTicket, IsOffered, VoiceInv, VoiceTypeOK, Speaker, SawOffered, NoFileLeftBehind
<1> DEFINE rec == IF speaker[c].pc = "type" /\ ~speaker[c].preview
                  THEN [speaker[c] EXCEPT !.pc = "create"] ELSE NoSpeaker
<1>2. rec \in Speaker /\ (rec = NoSpeaker \/ rec.saw = speaker[c].saw) /\ rec.pc \in {"idle", "create"}
  BY NoSpeakerIsTyped DEF VoiceInv, VoiceTypeOK, Speaker, NoSpeaker
<1>3. Moving(c, rec)
  BY DEF MapType, CreateTicket, VoiceInv, VoiceTypeOK, Speaker
<1>4. draft' = draft \/ Hand(c)
  BY DEF MapType, CreateTicket
<1> HIDE DEF rec
<1>5. /\ speaker'[c] = rec /\ \A x \in Speakers \ {c} : speaker'[x] = speaker[x]
      /\ speaker' \in [Speakers -> Speaker]
  BY <1>2, <1>3 DEF VoiceInv, VoiceTypeOK, Moving
<1>6. VoiceTypeOK' /\ DraftIsGrounded'
  BY <1>1, <1>4, <1>5 DEF VoiceInv, VoiceTypeOK, DraftIsGrounded, Hand
<1>7. \A x \in Speakers : SawOffered(x)'
  BY <1>1, <1>2, <1>5 DEF VoiceInv, SawOffered, NoSpeaker
<1>8. NoFileLeftBehind'
  BY <1>1, <1>5 DEF VoiceInv, VoiceTypeOK, NoFileLeftBehind
<1> QED
  BY <1>6, <1>7, <1>8 DEF VoiceInv

LEMMA StagingStep ==
    ASSUME VoiceInv, NEW c \in Speakers, StagingFails(c)
    PROVE  VoiceInv'
BY DEF StagingFails, VoiceInv, VoiceTypeOK, SawOffered, DraftIsGrounded, NoFileLeftBehind

LEMMA StopStep ==
    ASSUME VoiceInv, VoiceStops
    PROVE  VoiceInv'
BY NoSpeakerIsTyped DEF VoiceStops, VoiceInv, VoiceTypeOK, SawOffered, DraftIsGrounded, NoFileLeftBehind, NoSpeaker

LEMMA CatalogStep ==
    ASSUME VoiceInv, NEW x \in InDepartments(Entries), CatalogChanges(x)
    PROVE  VoiceInv'
<1>1. offered' \subseteq Entries
  BY DEF CatalogChanges, InDepartments, VoiceInv, VoiceTypeOK
<1>2. \A c \in Speakers :
         /\ speaker'[c] \in Speaker /\ speaker'[c].pc = speaker[c].pc
         /\ speaker[c].pc \in {"department", "type", "create"} => offered' \subseteq speaker'[c].saw
  BY <1>1 DEF CatalogChanges, VoiceInv, VoiceTypeOK, Speaker
<1>3. VoiceTypeOK'
  BY <1>1, <1>2 DEF CatalogChanges, VoiceInv, VoiceTypeOK
<1> QED
  BY <1>2, <1>3 DEF CatalogChanges, VoiceInv, VoiceTypeOK, SawOffered, DraftIsGrounded, NoFileLeftBehind

LEMMA VoiceStepInv == VoiceInv /\ [VoiceNext]_voiceVars => VoiceInv'
<1> SUFFICES ASSUME VoiceInv, [VoiceNext]_voiceVars PROVE VoiceInv'
  OBVIOUS
<1>1. CASE UNCHANGED voiceVars
  BY <1>1 DEF voiceVars, VoiceInv, VoiceTypeOK, SawOffered, DraftIsGrounded, NoFileLeftBehind
<1>2. CASE VoiceNext
  BY <1>2, CallBegins, CallFailsStep, TranscribedStep, AnswerSteps, HandStep, StagingStep, StopStep, CatalogStep
     DEF VoiceNext
<1> QED
  BY <1>1, <1>2

LEMMA VoiceSpecInv == VoiceSpec => []VoiceInv
BY VoiceInitInv, VoiceStepInv, PTL DEF VoiceSpec

\* Catalog, calls, files and the draft keep their types: a draft that was handed
\* out has known codes.
THEOREM VoiceTypes == VoiceSpec => []VoiceTypeOK
<1>1. VoiceInv => VoiceTypeOK
  BY DEF VoiceInv
<1> QED
  BY <1>1, VoiceSpecInv, PTL

\* Whatever codes the model answers with and however the catalog changes before
\* they are looked up, a draft handed out or made a request of names a category
\* that was offered at some moment since the answer.
THEOREM DraftsAreGrounded == VoiceSpec => []DraftIsGrounded
<1>1. VoiceInv => DraftIsGrounded
  BY DEF VoiceInv
<1> QED
  BY <1>1, VoiceSpecInv, PTL

\* A recording outlives its call only where the file system failed or the
\* process ended: the finally of transcribe covers every other way out.
THEOREM RecordingsGo == VoiceSpec => []NoFileLeftBehind
<1>1. VoiceInv => NoFileLeftBehind
  BY DEF VoiceInv
<1> QED
  BY <1>1, VoiceSpecInv, PTL

----------------------------------------------------------------------------
(* The composition *)

\* A step of one part leaves the variables of the others alone.
LEMMA PartsStep ==
    ASSUME [MCNext]_vars
    PROVE  /\ [SessionsNext]_sessionsVars /\ [SecondFactorNext]_secondFactorVars
           /\ [CompaniesNext]_companiesVars /\ [FederationNext]_federationVars
           /\ [TenancyNext]_tenancyVars /\ [VoiceNext]_voiceVars
<1>1. CASE MCNext
  BY <1>1 DEF MCNext
<1>2. CASE UNCHANGED vars
  BY <1>2 DEF vars
<1> QED
  BY <1>1, <1>2

\* Whatever parts a run composes, what it does is what Sessions, SecondFactor,
\* Companies, Federation, Tenancy and Voice allow: every theorem about one of
\* them holds of the composition.
THEOREM ServicesImplementParts ==
    MCSpec => /\ SessionsSpec /\ SecondFactorSpec /\ CompaniesSpec
              /\ FederationSpec /\ TenancySpec /\ VoiceSpec
<1>1. MCInit => /\ SessionsInit /\ SecondFactorInit /\ CompaniesInit
                /\ FederationInit /\ TenancyInit /\ VoiceInit
  BY DEF MCInit
<1>2. [MCNext]_vars => /\ [SessionsNext]_sessionsVars /\ [SecondFactorNext]_secondFactorVars
                       /\ [CompaniesNext]_companiesVars /\ [FederationNext]_federationVars
                       /\ [TenancyNext]_tenancyVars /\ [VoiceNext]_voiceVars
  BY PartsStep
<1> QED
  BY <1>1, <1>2, PTL DEF MCSpec, SessionsSpec, SecondFactorSpec, CompaniesSpec, FederationSpec,
                         TenancySpec, VoiceSpec

\* The rows, tokens, tables and calls of all parts keep their types.
THEOREM ServicesTypes == MCSpec => []ServicesTypeOK
<1>1. SessionsTypeOK /\ SecondFactorTypeOK /\ CompaniesTypeOK /\ FederationTypeOK /\ TenancyTypeOK /\ VoiceTypeOK
         => ServicesTypeOK
  BY DEF ServicesTypeOK
<1> QED
  BY <1>1, ServicesImplementParts, SessionsTypes, SecondFactorTypes, CompaniesTypes, FederationTypes,
     TenancyTypes, VoiceTypes, PTL
=============================================================================
