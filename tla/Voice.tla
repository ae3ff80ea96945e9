-------------------------------- MODULE Voice --------------------------------
(***************************************************************************)
(* Drafts of requests from a recording or a text: VoiceTicketService.  The *)
(* transcription and the language model are external and may answer        *)
(* anything.  The answer is compared with the catalog of the caller's      *)
(* company, department first, then category, and createRequest compares it *)
(* once more; the catalog may change between these awaits.                 *)
(***************************************************************************)
EXTENDS Naturals

CONSTANTS Firms,        \* companies
          DeptCodes, TypeCodes,  \* codes of departments and of request types
          DeptRows,     \* the departments: pairs of a company and a code
          Speakers,     \* calls under way at the same time
          Unknown

ASSUME VoiceAssumption ==
    /\ DeptRows \subseteq Firms \X DeptCodes
    /\ Unknown \notin Firms \cup DeptCodes \cup TypeCodes

VARIABLES offered,  \* the active request types: company, department, type
          speaker,  \* the calls
          file,     \* calls whose temporary file exists
          stray,    \* calls whose file was not written or not unlinked because of an error
          draft     \* the latest draft handed out or made a request of

voiceVars == <<offered, speaker, file, stray, draft>>

Entries == Firms \X DeptCodes \X TypeCodes
InDepartments(S) == {x \in S : <<x[1], x[2]>> \in DeptRows}

\* entry: the caller's company and the codes of the model's answer; saw: what
\* was offered at some moment since that answer, a history.
Speaker == [pc : {"idle", "transcribe", "extract", "department", "type", "create"},
            preview : BOOLEAN,
            entry : (Firms \cup {Unknown}) \X (DeptCodes \cup {Unknown}) \X (TypeCodes \cup {Unknown}),
            saw : SUBSET Entries]
NoSpeaker == [pc |-> "idle", preview |-> FALSE, entry |-> <<Unknown, Unknown, Unknown>>, saw |-> {}]
NoDraft == [entry |-> NoSpeaker.entry, saw |-> {}]

VoiceTypeOK == /\ offered \subseteq Entries
               /\ speaker \in [Speakers -> Speaker]
               /\ file \subseteq Speakers /\ stray \subseteq Speakers
               /\ draft = NoDraft \/ draft \in [entry : Entries, saw : SUBSET Entries]

VoiceInit == /\ offered \in SUBSET InDepartments(Entries)
             /\ speaker = [c \in Speakers |-> NoSpeaker]
             /\ file = {} /\ stray = {}
             /\ draft = NoDraft

----------------------------------------------------------------------------

Moving(c, rec) == speaker' = [speaker EXCEPT ![c] = rec]

\* generateFromAudio: the buffer is staged to a file of its own name.
HearAudio(c, f) ==
    /\ speaker[c] = NoSpeaker /\ c \notin file
    /\ file' = file \cup {c}
    /\ Moving(c, [NoSpeaker EXCEPT !.pc = "transcribe", !.entry = <<f, Unknown, Unknown>>])
    /\ UNCHANGED <<offered, stray, draft>>

\* The write comes before the try: what it wrote until it failed stays.
StagingFails(c) ==
    /\ speaker[c] = NoSpeaker /\ c \notin file
    /\ file' = file \cup {c}
    /\ stray' = stray \cup {c}
    /\ UNCHANGED <<offered, speaker, draft>>

\* Mutant: the file is unlinked after a transcription that succeeded.
UnlinkAfterSuccess(heard) == heard

\* Whether the file is unlinked after a transcription with this result (finally).
Unlinks(heard) == TRUE

\* The answer or none; an unlink that fails is ignored.
Transcribed(c, heard, fails) ==
    /\ speaker[c].pc = "transcribe"
    /\ Moving(c, IF heard THEN [speaker[c] EXCEPT !.pc = "extract"] ELSE NoSpeaker)
    /\ file' = IF Unlinks(heard) /\ ~fails THEN file \ {c} ELSE file
    /\ stray' = IF fails THEN stray \cup {c} ELSE stray
    /\ UNCHANGED <<offered, draft>>

\* generateFromText
ReadText(c, f, preview) ==
    /\ speaker[c] = NoSpeaker
    /\ Moving(c, [NoSpeaker EXCEPT !.pc = "extract", !.entry = <<f, Unknown, Unknown>>, !.preview = preview])
    /\ UNCHANGED <<offered, file, stray, draft>>

\* extractDraft: the catalog is read and sent; the model answers with codes of
\* it, or with others.
Extract(c, d, t) ==
    /\ speaker[c].pc = "extract"
    /\ \E b \in DeptCodes : <<speaker[c].entry[1], b>> \in DeptRows
    /\ Moving(c, [speaker[c] EXCEPT !.pc = "department", !.entry = <<@[1], d, t>>, !.saw = offered])
    /\ UNCHANGED <<offered, file, stray, draft>>

\* The caller's company has a department of that code.
MapDepartment(c) ==
    /\ speaker[c].pc = "department"
    /\ <<speaker[c].entry[1], speaker[c].entry[2]>> \in DeptRows
    /\ Moving(c, [speaker[c] EXCEPT !.pc = "type"])
    /\ UNCHANGED <<offered, file, stray, draft>>

\* Mutant: the category is looked up by its code in all departments.
IsOfferedSomewhere(entry) == \E x \in offered : x[3] = entry[3]

\* The department has an active category of that code.
IsOffered(entry) == entry \in offered

Hand(c) == draft' = [entry |-> speaker[c].entry, saw |-> speaker[c].saw]

\* A preview ends with the draft; otherwise createRequest follows.
MapType(c) ==
    /\ speaker[c].pc = "type"
    /\ IsOffered(speaker[c].entry)
    /\ IF speaker[c].preview
       THEN Hand(c) /\ Moving(c, NoSpeaker)
       ELSE Moving(c, [speaker[c] EXCEPT !.pc = "create"]) /\ UNCHANGED draft
    /\ UNCHANGED <<offered, file, stray>>

\* createRequest looks department and category up again.
CreateTicket(c) ==
    /\ speaker[c].pc = "create"
    /\ IsOffered(speaker[c].entry)
    /\ Hand(c)
    /\ Moving(c, NoSpeaker)
    /\ UNCHANGED <<offered, file, stray>>

\* A check fails or an answer does not come; without a file, see Transcribed.
SpeakerFails(c) ==
    /\ speaker[c].pc \notin {"idle", "transcribe"}
    /\ Moving(c, NoSpeaker)
    /\ UNCHANGED <<offered, file, stray, draft>>

\* The process ends; the temporary files of the calls stay.
VoiceStops ==
    /\ \E c \in Speakers : speaker[c].pc # "idle"
    /\ speaker' = [c \in Speakers |-> NoSpeaker]
    /\ stray' = stray \cup file
    /\ UNCHANGED <<offered, file, draft>>

\* A category comes or goes.  registerCompany writes those of a new company, the
\* seed those of the first one, operators change them; that any of them may come
\* and go at any time is more than this code does.
CatalogChanges(x) ==
    /\ offered' = IF x \in offered THEN offered \ {x} ELSE offered \cup {x}
    /\ speaker' = [c \in Speakers |-> IF speaker[c].pc \in {"department", "type", "create"}
                                      THEN [speaker[c] EXCEPT !.saw = @ \cup offered'] ELSE speaker[c]]
    /\ UNCHANGED <<file, stray, draft>>

VoiceNext ==
    \/ \E c \in Speakers :
          \/ \E f \in Firms : HearAudio(c, f) \/ (\E preview \in BOOLEAN : ReadText(c, f, preview))
          \/ StagingFails(c)
          \/ \E heard, fails \in BOOLEAN : Transcribed(c, heard, fails)
          \/ \E d \in DeptCodes, t \in TypeCodes : Extract(c, d, t)
          \/ MapDepartment(c) \/ MapType(c) \/ CreateTicket(c) \/ SpeakerFails(c)
    \/ VoiceStops
    \/ \E x \in InDepartments(Entries) : CatalogChanges(x)

VoiceSpec == VoiceInit /\ [][VoiceNext]_voiceVars

----------------------------------------------------------------------------
(* Properties *)

\* Whatever the model answers, a draft shown to its author or made a request of
\* names a category that a department of the author's company offered at some
\* moment since the answer ("no ticket is ever created from hallucinated codes").
DraftIsGrounded == draft # NoDraft => draft.entry \in draft.saw

\* The temporary file of a recording is gone when its call is over, unless the
\* file system failed or the process ended ("always cleaned up").
NoFileLeftBehind == \A c \in file : speaker[c].pc = "transcribe" \/ c \in stray
=============================================================================
