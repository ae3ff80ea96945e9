------------------------------ MODULE Companies -----------------------------
(***************************************************************************)
(* Companies, their mail domain and who comes into them by it:             *)
(* CompaniesService (registration, settings), DomainVerificationService    *)
(* and the routing of a Google sign-in in AuthService.  A company is named *)
(* by its slug, which is unique; a domain is not.  Registration,           *)
(* verification and provisioning each check first and write after an await.*)
(* authMode, which can only keep a Google sign-in out, is left out.        *)
(***************************************************************************)
EXTENDS Naturals, FiniteSets

CONSTANTS Slugs,      \* names under which companies may be registered
          Addresses,  \* mail addresses
          Domains,    \* mail domains
          DomainOf,   \* the domain of an address
          Controls,   \* pairs of a company and a domain whose DNS it can write
          Claims,     \* pairs for which a verification may be asked for, a bound
          Desks,      \* calls under way at the same time
          Nothing

ASSUME CompaniesAssumption ==
    /\ DomainOf \in [Addresses -> Domains]
    /\ Controls \subseteq Slugs \X Domains
    /\ Claims \subseteq Slugs \X Domains
    /\ Nothing \notin Slugs \cup Addresses \cup Domains

VARIABLES company,      \* the Company rows
          people,       \* pairs of a company and an address with a User row in it
          verification, \* the DomainVerification rows (@@unique companyId, domain)
          desk,         \* the calls
          overlapped,   \* addresses for which two calls were under way at the same time
          settled       \* pairs whose verification gave the company the domain, or broke off before

companiesVars == <<company, people, verification, desk, overlapped, settled>>

Company == [registered : BOOLEAN, domain : Domains \cup {Nothing}]
NoCompany == [registered |-> FALSE, domain |-> Nothing]

\* domain: to be verified, given at registration, or the company's at routing.
Desk == [pc : {"idle", "register", "provision", "resolve", "mark", "apply"},
         slug : Slugs \cup {Nothing}, address : Addresses \cup {Nothing},
         domain : Domains \cup {Nothing}]
NoDesk == [pc |-> "idle", slug |-> Nothing, address |-> Nothing, domain |-> Nothing]

CompaniesTypeOK == /\ company \in [Slugs -> Company]
                   /\ people \subseteq Slugs \X Addresses
                   /\ verification \in [Slugs \X Domains -> {"none", "pending", "expired", "verified"}]
                   /\ desk \in [Desks -> Desk]
                   /\ overlapped \subseteq Addresses
                   /\ settled \subseteq Slugs \X Domains

CompaniesInit == /\ company = [k \in Slugs |-> NoCompany]
                 /\ people = {}
                 /\ verification = [p \in Slugs \X Domains |-> "none"]
                 /\ desk = [c \in Desks |-> NoDesk]
                 /\ overlapped = {} /\ settled = {}

----------------------------------------------------------------------------

Opens(c, rec) == desk[c] = NoDesk /\ desk' = [desk EXCEPT ![c] = rec]
Closes(c) == desk' = [desk EXCEPT ![c] = NoDesk]

UsersOf(m) == {k \in Slugs : <<k, m>> \in people}

\* A call that is about to write a User row of m starts while another one is.
NotesOverlap(c, m) ==
    overlapped' = overlapped \cup
        (IF \E x \in Desks \ {c} : desk[x].address = m THEN {m} ELSE {})

----------------------------------------------------------------------------
(* Registration and settings *)

\* Mutant: the address is looked up within the company.
AddressIsFreeInCompany(k, m) == k \notin UsersOf(m)
AddressIsFree(k, m) == UsersOf(m) = {}

\* registerCompany: slug and address are looked up, the password is hashed.
Register(c, k, m, d) ==
    /\ ~company[k].registered
    /\ AddressIsFree(k, m)
    /\ Opens(c, [pc |-> "register", slug |-> k, address |-> m, domain |-> d])
    /\ NotesOverlap(c, m)
    /\ UNCHANGED <<company, people, verification, settled>>

\* The transaction: company, default departments, administrator.  A slug that
\* was taken meanwhile makes it throw; an address is only unique per company.
RegisterTx(c) ==
    LET k == desk[c].slug IN
    /\ desk[c].pc = "register"
    /\ ~company[k].registered
    /\ company' = [company EXCEPT ![k] = [registered |-> TRUE, domain |-> desk[c].domain]]
    /\ people' = people \cup {<<k, desk[c].address>>}
    /\ Closes(c)
    /\ UNCHANGED <<verification, overlapped, settled>>

\* updateCompanySso: the domain is stored as given, verified or not.
UpdateCompanySso(k, d) ==
    /\ company[k].registered
    /\ company' = [company EXCEPT ![k].domain = d]
    /\ UNCHANGED <<people, verification, desk, overlapped, settled>>

----------------------------------------------------------------------------
(* Verification of a domain *)

\* requestVerification always creates a row: a second request throws.
RequestVerification(k, d) ==
    /\ company[k].registered
    /\ verification[<<k, d>>] = "none"
    /\ <<k, d>> \in Claims
    /\ verification' = [verification EXCEPT ![<<k, d>>] = "pending"]
    /\ UNCHANGED <<company, people, desk, overlapped, settled>>

VerificationExpires(k, d) ==
    /\ verification[<<k, d>>] = "pending"
    /\ verification' = [verification EXCEPT ![<<k, d>>] = "expired"]
    /\ UNCHANGED <<company, people, desk, overlapped, settled>>

\* verifyDomain: the row, its expiry, the DNS, then two updates of their own.
VerifyRead(c, k, d) ==
    /\ verification[<<k, d>>] = "pending"
    /\ Opens(c, [NoDesk EXCEPT !.pc = "resolve", !.slug = k, !.domain = d])
    /\ UNCHANGED <<company, people, verification, overlapped, settled>>

DomainRequest(k, d) == RequestVerification(k, d) \/ \E c \in Desks : VerifyRead(c, k, d)

\* Mutant: any TXT record will do.
AnyTxtRecord(k, d) == TRUE
HasTxtRecord(k, d) == <<k, d>> \in Controls

\* The DNS has the TXT record with the token: whoever runs the domain put it there.
ResolveTxt(c) ==
    /\ desk[c].pc = "resolve"
    /\ HasTxtRecord(desk[c].slug, desk[c].domain)
    /\ desk' = [desk EXCEPT ![c].pc = "mark"]
    /\ UNCHANGED <<company, people, verification, overlapped, settled>>

MarkVerified(c) ==
    /\ desk[c].pc = "mark"
    /\ verification' = [verification EXCEPT ![<<desk[c].slug, desk[c].domain>>] = "verified"]
    /\ desk' = [desk EXCEPT ![c].pc = "apply"]
    /\ UNCHANGED <<company, people, overlapped, settled>>

ApplyDomain(c) ==
    /\ desk[c].pc = "apply"
    /\ company' = [company EXCEPT ![desk[c].slug].domain = desk[c].domain]
    /\ settled' = settled \cup {p \in Slugs \X Domains :
                      verification[p] = "verified" /\ company'[p[1]].domain = p[2]}
    /\ Closes(c)
    /\ UNCHANGED <<people, verification, overlapped>>

----------------------------------------------------------------------------
(* Google sign-in.  A known address goes to the company it belongs to and      *)
(* changes nothing here; hd is the hosted domain the token names, if any.      *)

\* Mutant: the hosted domain of the token is enough.
HostedDomainMatches(k, m) == TRUE
DomainMatches(k, m) == DomainOf[m] = company[k].domain

GoogleRoute(c, m, hd, k) ==
    /\ UsersOf(m) = {}
    /\ company[k].registered
    /\ company[k].domain = IF hd = Nothing THEN DomainOf[m] ELSE hd
    /\ DomainMatches(k, m)
    /\ Opens(c, [NoDesk EXCEPT !.pc = "provision", !.slug = k, !.address = m, !.domain = company[k].domain])
    /\ NotesOverlap(c, m)
    /\ UNCHANGED <<company, people, verification, settled>>

GoogleProvision(c) ==
    /\ desk[c].pc = "provision"
    /\ <<desk[c].slug, desk[c].address>> \notin people
    /\ people' = people \cup {<<desk[c].slug, desk[c].address>>}
    /\ Closes(c)
    /\ UNCHANGED <<company, verification, overlapped, settled>>

\* A unique constraint, no TXT record, any other error, the end of the process.
DeskBreaksOff(c) ==
    /\ desk[c].pc # "idle"
    /\ settled' = settled \cup
          (IF desk[c].pc = "apply" THEN {<<desk[c].slug, desk[c].domain>>} ELSE {})
    /\ Closes(c)
    /\ UNCHANGED <<company, people, verification, overlapped>>

CompaniesNext ==
    \/ \E c \in Desks :
          \/ \E k \in Slugs, m \in Addresses, d \in Domains \cup {Nothing} :
                \/ Register(c, k, m, d)
                \/ GoogleRoute(c, m, d, k)
          \/ RegisterTx(c) \/ ResolveTxt(c) \/ MarkVerified(c) \/ ApplyDomain(c)
          \/ GoogleProvision(c) \/ DeskBreaksOff(c)
    \/ \E k \in Slugs, d \in Domains :
          DomainRequest(k, d) \/ VerificationExpires(k, d)
    \/ \E k \in Slugs, d \in Domains \cup {Nothing} : UpdateCompanySso(k, d)

CompaniesSpec == CompaniesInit /\ [][CompaniesNext]_companiesVars

----------------------------------------------------------------------------
(* Properties *)

\* A domain a company has verified is one whose DNS it could write, and the
\* company has had it since, or is about to, or the call broke off in between
\* (no later call picks such a row up).
VerifiedIsApplied ==
    \A k \in Slugs, d \in Domains : verification[<<k, d>>] = "verified" =>
       /\ <<k, d>> \in Controls
       /\ \/ <<k, d>> \in settled
          \/ \E c \in Desks : desk[c].pc = "apply" /\ desk[c].slug = k /\ desk[c].domain = d

\* Registration and Google sign-in give one address to two companies only when
\* two of their calls for it overlapped: the lookup of the address comes before
\* the write, and no constraint spans companies.
OneCompanyPerAddress ==
    \A m \in Addresses : Cardinality(UsersOf(m)) > 1 => m \in overlapped

\* A User row that appears after a company's registration is of an address whose
\* domain the company had when the sign-in was routed to it, whatever hosted
\* domain the token names and however the settings change meanwhile.
ProvisionedByDomain ==
    [][\A k \in Slugs, m \in Addresses :
          <<k, m>> \in people' \ people /\ company[k].registered =>
             \E c \in Desks : desk[c].slug = k /\ desk[c].address = m /\ desk[c].domain = DomainOf[m]]_companiesVars
=============================================================================
