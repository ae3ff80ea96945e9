--------------------------- MODULE CompaniesProofs --------------------------
(***************************************************************************)
(* Theorems about Companies, for any companies, addresses and domains and  *)
(* any number of calls under way at the same time.                         *)
(***************************************************************************)
EXTENDS Companies, FiniteSetTheorems, TLAPS

\* A call that is about to write a User row: the address is free, or calls for
\* it overlapped; so do two calls for one address.
WillWrite(c) == desk[c].pc \in {"register", "provision"}

WriterMetFree(c) == WillWrite(c) =>
    /\ desk[c].slug \in Slugs /\ desk[c].address \in Addresses
    /\ UsersOf(desk[c].address) = {} \/ desk[c].address \in overlapped
    /\ \A x \in Desks \ {c} : desk[x].address = desk[c].address => desk[c].address \in overlapped

AddressIsOneUser(m) == m \notin overlapped =>
    \A k, j \in Slugs : <<k, m>> \in people /\ <<j, m>> \in people => k = j

\* A sign-in is routed by the domain of its address.
RoutedByDomain(c) == desk[c].pc = "provision" => desk[c].domain = DomainOf[desk[c].address]

\* A verification names a company and a domain; past the DNS, one that controls
\* it; past the first update, one that is verified.
VerifierIsRight(c) == desk[c].pc \in {"resolve", "mark", "apply"} =>
    /\ desk[c].slug \in Slugs /\ desk[c].domain \in Domains /\ desk[c].address = Nothing
    /\ desk[c].pc # "resolve" => <<desk[c].slug, desk[c].domain>> \in Controls
    /\ desk[c].pc = "apply" => verification[<<desk[c].slug, desk[c].domain>>] = "verified"

CompaniesInv == /\ CompaniesTypeOK
                /\ \A c \in Desks : WriterMetFree(c) /\ RoutedByDomain(c) /\ VerifierIsRight(c)
                /\ \A m \in Addresses : AddressIsOneUser(m)
                /\ VerifiedIsApplied

LEMMA CompaniesInitInv == CompaniesInit => CompaniesInv
BY CompaniesAssumption DEF CompaniesInit, CompaniesInv, CompaniesTypeOK, Company, NoCompany, Desk, NoDesk, WillWrite,
   WriterMetFree, RoutedByDomain, VerifierIsRight, AddressIsOneUser, VerifiedIsApplied

\* What a step does to the desks: c goes on with rec, the others stay.
OnlyMoves(c, rec) == desk' = [desk EXCEPT ![c] = rec]

\* A call for a User row of m opens.
LEMMA OpenKeepsInv ==
    ASSUME CompaniesInv, NEW c \in Desks, NEW rec \in Desk, NEW m \in Addresses,
           Opens(c, rec), rec.pc \in {"register", "provision"}, rec.slug \in Slugs, rec.address = m,
           rec.pc = "provision" => rec.domain = DomainOf[m],
           UsersOf(m) = {}, NotesOverlap(c, m),
           UNCHANGED <<company, people, verification, settled>>
    PROVE  CompaniesInv'
<1>1. /\ desk'[c] = rec /\ desk[c] = NoDesk
      /\ \A x \in Desks \ {c} : desk'[x] = desk[x]
      /\ desk' \in [Desks -> Desk]
  BY DEF Opens, CompaniesInv, CompaniesTypeOK
<1>2. /\ overlapped \subseteq overlapped' /\ overlapped' \subseteq Addresses
      /\ \A x \in Desks \ {c} : desk[x].address = m => m \in overlapped'
  BY DEF NotesOverlap, CompaniesInv, CompaniesTypeOK
<1>3. CompaniesTypeOK'
  BY <1>1, <1>2 DEF CompaniesInv, CompaniesTypeOK
<1>4. \A x \in Desks : WriterMetFree(x)'
  <2> SUFFICES ASSUME NEW x \in Desks PROVE WriterMetFree(x)'
    OBVIOUS
  <2>1. \A n \in Addresses : UsersOf(n)' = UsersOf(n)
    BY DEF UsersOf
  <2>2. CASE x = c
    BY <2>1, <2>2, <1>1, <1>2 DEF WriterMetFree, WillWrite
  <2>3. CASE x # c
    BY <2>1, <2>3, <1>1, <1>2 DEF CompaniesInv, WriterMetFree, WillWrite
  <2> QED
    BY <2>2, <2>3
<1>5. \A x \in Desks : RoutedByDomain(x)' /\ VerifierIsRight(x)'
  BY <1>1 DEF CompaniesInv, RoutedByDomain, VerifierIsRight
<1>6. \A n \in Addresses : AddressIsOneUser(n)'
  BY <1>2 DEF CompaniesInv, AddressIsOneUser
<1>7. VerifiedIsApplied'
  BY <1>1 DEF CompaniesInv, VerifiedIsApplied, NoDesk
<1> QED
  BY <1>3, <1>4, <1>5, <1>6, <1>7 DEF CompaniesInv

LEMMA RegisterStep ==
    ASSUME CompaniesInv, NEW c \in Desks, NEW k \in Slugs, NEW m \in Addresses, NEW d \in Domains \cup {Nothing},
           Register(c, k, m, d)
    PROVE  CompaniesInv'
BY OpenKeepsInv DEF Register, AddressIsFree, Desk

LEMMA RouteStep ==
    ASSUME CompaniesInv, NEW c \in Desks, NEW k \in Slugs, NEW m \in Addresses, NEW d \in Domains \cup {Nothing},
           GoogleRoute(c, m, d, k)
    PROVE  CompaniesInv'
<1> DEFINE rec == [NoDesk EXCEPT !.pc = "provision", !.slug = k, !.address = m, !.domain = company[k].domain]
<1>1. rec \in Desk /\ rec.pc = "provision" /\ rec.slug = k /\ rec.address = m /\ rec.domain = DomainOf[m]
  BY CompaniesAssumption DEF GoogleRoute, DomainMatches, NoDesk, Desk, CompaniesInv, CompaniesTypeOK, Company
<1> QED
  BY <1>1, OpenKeepsInv DEF GoogleRoute

\* A call writes the User row and closes: if the address was free, no other call
\* is for it.
LEMMA WriteKeepsInv ==
    ASSUME CompaniesInv, NEW c \in Desks, WillWrite(c),
           people' = people \cup {<<desk[c].slug, desk[c].address>>}, Closes(c),
           company' \in [Slugs -> Company], UNCHANGED <<verification, overlapped, settled>>
    PROVE  CompaniesInv'
<1>1. /\ desk'[c] = NoDesk
      /\ \A x \in Desks \ {c} : desk'[x] = desk[x]
      /\ desk' \in [Desks -> Desk]
  BY CompaniesAssumption DEF Closes, CompaniesInv, CompaniesTypeOK, Desk, NoDesk
<1>2. WriterMetFree(c) /\ desk[c].slug \in Slugs /\ desk[c].address \in Addresses
  BY DEF CompaniesInv, WriterMetFree
<1>3. CompaniesTypeOK'
  BY <1>1, <1>2 DEF CompaniesInv, CompaniesTypeOK
<1>4. \A n \in Addresses : n # desk[c].address => UsersOf(n)' = UsersOf(n)
  BY DEF UsersOf
<1>5. \A x \in Desks : WriterMetFree(x)'
  <2> SUFFICES ASSUME NEW x \in Desks, x # c, WillWrite(x) PROVE WriterMetFree(x)'
    <3>1. ~WillWrite(c)'
      BY <1>1 DEF WillWrite, NoDesk
    <3>2. \A x \in Desks \ {c} : WillWrite(x)' => WillWrite(x)
      BY <1>1 DEF WillWrite
    <3> QED
      BY <3>1, <3>2 DEF WriterMetFree
  <2>1. WriterMetFree(x) /\ desk'[x] = desk[x]
    BY <1>1 DEF CompaniesInv
  <2>2. \A y \in Desks \ {x} : desk'[y].address = desk[x].address => desk[x].address \in overlapped
    <3>1. NoDesk.address \notin Addresses
      BY CompaniesAssumption DEF NoDesk
    <3> QED
      BY <2>1, <1>1, <3>1 DEF WriterMetFree
  <2>3. UsersOf(desk[x].address)' = {} \/ desk[x].address \in overlapped
    BY <2>1, <1>2, <1>4 DEF WriterMetFree
  <2> QED
    BY <2>1, <2>2, <2>3 DEF WriterMetFree
<1>6. \A x \in Desks : RoutedByDomain(x)' /\ VerifierIsRight(x)'
  <2>1. NoDesk.pc = "idle"
    BY DEF NoDesk
  <2> QED
    BY <2>1, <1>1 DEF CompaniesInv, RoutedByDomain, VerifierIsRight
<1>7. \A n \in Addresses : AddressIsOneUser(n)'
  BY <1>2 DEF CompaniesInv, AddressIsOneUser, WriterMetFree, UsersOf
<1>8. VerifiedIsApplied'
  <2>1. desk[c].pc # "apply"
    BY DEF WillWrite
  <2> QED
    BY <2>1, <1>1 DEF CompaniesInv, VerifiedIsApplied
<1> QED
  BY <1>3, <1>5, <1>6, <1>7, <1>8 DEF CompaniesInv

LEMMA RegisterTxStep ==
    ASSUME CompaniesInv, NEW c \in Desks, RegisterTx(c)
    PROVE  CompaniesInv'
<1>1. company' \in [Slugs -> Company]
  BY DEF RegisterTx, CompaniesInv, CompaniesTypeOK, Company, Desk
<1> QED
  BY <1>1, WriteKeepsInv DEF RegisterTx, WillWrite

LEMMA ProvisionStep ==
    ASSUME CompaniesInv, NEW c \in Desks, GoogleProvision(c)
    PROVE  CompaniesInv'
BY WriteKeepsInv DEF GoogleProvision, WillWrite, CompaniesInv, CompaniesTypeOK

\* Companies change their settings; verifications are asked for and expire.
LEMMA RowSteps ==
    ASSUME CompaniesInv, NEW k \in Slugs,
           \/ \E d \in Domains \cup {Nothing} : UpdateCompanySso(k, d)
           \/ \E d \in Domains : RequestVerification(k, d) \/ VerificationExpires(k, d)
    PROVE  CompaniesInv'
<1>1. /\ UNCHANGED <<people, desk, overlapped, settled>>
      /\ company' \in [Slugs -> Company]
      /\ verification' \in [Slugs \X Domains -> {"none", "pending", "expired", "verified"}]
      /\ \A p \in Slugs \X Domains : verification'[p] = "verified" <=> verification[p] = "verified"
  <2>1. CASE \E d \in Domains \cup {Nothing} : UpdateCompanySso(k, d)
    BY <2>1 DEF CompaniesInv, CompaniesTypeOK, Company, UpdateCompanySso
  <2>2. CASE \E d \in Domains : RequestVerification(k, d)
    BY <2>2 DEF CompaniesInv, CompaniesTypeOK, RequestVerification
  <2>3. CASE \E d \in Domains : VerificationExpires(k, d)
    BY <2>3 DEF CompaniesInv, CompaniesTypeOK, VerificationExpires
  <2> QED
    BY <2>1, <2>2, <2>3
<1>2. CompaniesTypeOK'
  BY <1>1 DEF CompaniesInv, CompaniesTypeOK
<1>3. \A x \in Desks : WriterMetFree(x)' /\ RoutedByDomain(x)'
  BY <1>1 DEF CompaniesInv, WriterMetFree, RoutedByDomain, WillWrite, UsersOf
<1>4. \A x \in Desks : VerifierIsRight(x)'
  BY <1>1 DEF CompaniesInv, VerifierIsRight
<1>5. (\A n \in Addresses : AddressIsOneUser(n)') /\ VerifiedIsApplied'
  BY <1>1 DEF CompaniesInv, AddressIsOneUser, VerifiedIsApplied
<1> QED
  BY <1>2, <1>3, <1>4, <1>5 DEF CompaniesInv

\* A verification moves, to a record that is right about what is verified then.
LEMMA VerifierMoves ==
    ASSUME CompaniesInv, NEW c \in Desks, NEW rec \in Desk, OnlyMoves(c, rec),
           desk[c].address \notin Addresses \/ rec = NoDesk,
           rec.address = Nothing, rec.pc \notin {"register", "provision"},
           UNCHANGED <<people, overlapped>>, CompaniesTypeOK', VerifiedIsApplied',
           \A p \in Slugs \X Domains : verification[p] = "verified" => verification'[p] = "verified",
           VerifierIsRight(c)'
    PROVE  CompaniesInv'
<1>1. /\ desk'[c] = rec
      /\ \A x \in Desks \ {c} : desk'[x] = desk[x]
  BY DEF OnlyMoves, CompaniesInv, CompaniesTypeOK
<1>2. \A x \in Desks : WriterMetFree(x)'
  BY <1>1, CompaniesAssumption DEF CompaniesInv, WriterMetFree, WillWrite, UsersOf
<1>3. \A x \in Desks : RoutedByDomain(x)'
  BY <1>1 DEF CompaniesInv, RoutedByDomain
<1>4. \A x \in Desks : VerifierIsRight(x)'
  BY <1>1 DEF CompaniesInv, VerifierIsRight
<1>5. \A n \in Addresses : AddressIsOneUser(n)'
  BY DEF CompaniesInv, AddressIsOneUser
<1> QED
  BY <1>2, <1>3, <1>4, <1>5 DEF CompaniesInv

LEMMA VerifySteps ==
    ASSUME CompaniesInv, NEW c \in Desks,
           (\E k \in Slugs, d \in Domains : VerifyRead(c, k, d)) \/ ResolveTxt(c)
    PROVE  CompaniesInv'
<1>1. PICK rec \in Desk :
         /\ OnlyMoves(c, rec)
         /\ rec.pc \in {"resolve", "mark"} /\ rec.address = Nothing
         /\ rec.slug \in Slugs /\ rec.domain \in Domains
         /\ rec.pc = "mark" => <<rec.slug, rec.domain>> \in Controls
  <2>1. CASE \E k \in Slugs, d \in Domains : VerifyRead(c, k, d)
    <3>1. PICK k \in Slugs, d \in Domains : VerifyRead(c, k, d)
      BY <2>1
    <3> DEFINE r == [NoDesk EXCEPT !.pc = "resolve", !.slug = k, !.domain = d]
    <3>2. r \in Desk /\ r.pc = "resolve" /\ r.address = Nothing /\ r.slug = k /\ r.domain = d
      BY DEF NoDesk, Desk
    <3>3. OnlyMoves(c, r)
      BY <3>1 DEF VerifyRead, Opens, OnlyMoves
    <3> QED
      BY <3>2, <3>3
  <2>2. CASE ResolveTxt(c)
    <3> DEFINE r == [desk[c] EXCEPT !.pc = "mark"]
    <3>1. desk[c] \in Desk /\ desk[c].pc = "resolve" /\ VerifierIsRight(c)
      BY <2>2 DEF ResolveTxt, CompaniesInv, CompaniesTypeOK
    <3>2. /\ r \in Desk /\ r.pc = "mark" /\ r.address = Nothing
          /\ r.slug \in Slugs /\ r.domain \in Domains /\ <<r.slug, r.domain>> \in Controls
      BY <3>1, <2>2 DEF ResolveTxt, HasTxtRecord, VerifierIsRight, Desk
    <3>3. OnlyMoves(c, r)
      BY <2>2, <3>1 DEF ResolveTxt, OnlyMoves, Desk
    <3> QED
      BY <3>2, <3>3
  <2> QED
    BY <2>1, <2>2
<1>2. UNCHANGED <<company, people, verification, overlapped, settled>>
  BY DEF VerifyRead, ResolveTxt
<1>3. desk[c].address \notin Addresses /\ desk[c].pc # "apply"
  <2>1. NoDesk.address = Nothing /\ NoDesk.pc = "idle" /\ Nothing \notin Addresses
    BY CompaniesAssumption DEF NoDesk
  <2>2. desk[c] = NoDesk \/ desk[c].pc = "resolve"
    BY DEF VerifyRead, ResolveTxt, Opens
  <2> QED
    BY <2>1, <2>2 DEF CompaniesInv, VerifierIsRight
<1>4. desk'[c] = rec /\ \A x \in Desks \ {c} : desk'[x] = desk[x]
  BY <1>1 DEF OnlyMoves, CompaniesInv, CompaniesTypeOK
<1>5. CompaniesTypeOK'
  BY <1>1, <1>2 DEF OnlyMoves, CompaniesInv, CompaniesTypeOK
<1>6. VerifiedIsApplied'
  BY <1>2, <1>3, <1>4 DEF CompaniesInv, VerifiedIsApplied
<1>7. VerifierIsRight(c)'
  BY <1>1, <1>4 DEF VerifierIsRight
<1> QED
  BY <1>1, <1>2, <1>3, <1>5, <1>6, <1>7, VerifierMoves

LEMMA MarkStep ==
    ASSUME CompaniesInv, NEW c \in Desks, MarkVerified(c)
    PROVE  CompaniesInv'
<1> DEFINE rec == [desk[c] EXCEPT !.pc = "apply"]
<1>1. desk[c] \in Desk /\ desk[c].pc = "mark" /\ VerifierIsRight(c)
  BY DEF MarkVerified, CompaniesInv, CompaniesTypeOK
<1>2. rec \in Desk /\ rec.pc = "apply" /\ rec.slug = desk[c].slug /\ rec.domain = desk[c].domain /\ rec.address = Nothing
  BY <1>1 DEF Desk, VerifierIsRight
<1>3. OnlyMoves(c, rec) /\ desk'[c] = rec /\ \A x \in Desks \ {c} : desk'[x] = desk[x]
  BY <1>1 DEF MarkVerified, OnlyMoves, CompaniesInv, CompaniesTypeOK, Desk
<1>4. /\ verification' \in [Slugs \X Domains -> {"none", "pending", "expired", "verified"}]
      /\ verification'[<<desk[c].slug, desk[c].domain>>] = "verified"
      /\ \A p \in Slugs \X Domains : p # <<desk[c].slug, desk[c].domain>> => verification'[p] = verification[p]
  BY <1>1 DEF MarkVerified, CompaniesInv, CompaniesTypeOK, VerifierIsRight
<1>5. CompaniesTypeOK'
  BY <1>2, <1>3, <1>4 DEF MarkVerified, CompaniesInv, CompaniesTypeOK
<1>6. VerifierIsRight(c)'
  BY <1>1, <1>2, <1>3, <1>4 DEF VerifierIsRight
<1>7. VerifiedIsApplied'
  <2> SUFFICES ASSUME NEW k \in Slugs, NEW d \in Domains, verification'[<<k, d>>] = "verified"
               PROVE  /\ <<k, d>> \in Controls
                      /\ \/ <<k, d>> \in settled'
                         \/ \E x \in Desks : desk'[x].pc = "apply" /\ desk'[x].slug = k /\ desk'[x].domain = d
    BY DEF VerifiedIsApplied
  <2>1. CASE k = desk[c].slug /\ d = desk[c].domain
    BY <2>1, <1>1, <1>2, <1>3 DEF VerifierIsRight
  <2>2. CASE ~(k = desk[c].slug /\ d = desk[c].domain)
    <3>1. verification[<<k, d>>] = "verified"
      BY <2>2, <1>4
    <3> QED
      BY <3>1, <1>1, <1>3 DEF CompaniesInv, VerifiedIsApplied, MarkVerified
  <2> QED
    BY <2>1, <2>2
<1>8. desk[c].address \notin Addresses
  BY <1>1, CompaniesAssumption DEF VerifierIsRight
<1> QED
  BY <1>2, <1>3, <1>4, <1>5, <1>6, <1>7, <1>8, VerifierMoves DEF MarkVerified

\* A call closes and settles what it leaves.
LEMMA CloseKeepsInv ==
    ASSUME CompaniesInv, NEW c \in Desks, Closes(c), UNCHANGED <<people, verification, overlapped>>,
           company' \in [Slugs -> Company],
           settled \subseteq settled', settled' \subseteq Slugs \X Domains,
           desk[c].pc = "apply" => <<desk[c].slug, desk[c].domain>> \in settled'
    PROVE  CompaniesInv'
<1>1. NoDesk \in Desk /\ NoDesk.pc = "idle" /\ NoDesk.address = Nothing
  BY DEF NoDesk, Desk
<1>2. OnlyMoves(c, NoDesk) /\ desk'[c] = NoDesk /\ \A x \in Desks \ {c} : desk'[x] = desk[x]
  BY DEF Closes, OnlyMoves, CompaniesInv, CompaniesTypeOK
<1>3. CompaniesTypeOK'
  BY <1>1 DEF Closes, CompaniesInv, CompaniesTypeOK
<1>4. VerifiedIsApplied'
  BY <1>2 DEF CompaniesInv, VerifiedIsApplied
<1>5. VerifierIsRight(c)'
  BY <1>1, <1>2 DEF VerifierIsRight
<1> QED
  BY <1>1, <1>2, <1>3, <1>4, <1>5, VerifierMoves

LEMMA CloseSteps ==
    ASSUME CompaniesInv, NEW c \in Desks, ApplyDomain(c) \/ DeskBreaksOff(c)
    PROVE  CompaniesInv'
<1>1. desk[c] \in Desk /\ VerifierIsRight(c)
  BY DEF CompaniesInv, CompaniesTypeOK
<1>2. CASE ApplyDomain(c)
  <2>1. /\ company' \in [Slugs -> Company]
        /\ company'[desk[c].slug].domain = desk[c].domain
    BY <1>1, <1>2 DEF ApplyDomain, VerifierIsRight, CompaniesInv, CompaniesTypeOK, Company
  <2>2. <<desk[c].slug, desk[c].domain>> \in settled'
    BY <2>1, <1>1, <1>2 DEF ApplyDomain, VerifierIsRight
  <2> QED
    BY <2>1, <2>2, <1>2, CloseKeepsInv DEF ApplyDomain, CompaniesInv, CompaniesTypeOK
<1>3. CASE DeskBreaksOff(c)
  BY <1>1, <1>3, CloseKeepsInv DEF DeskBreaksOff, VerifierIsRight, CompaniesInv, CompaniesTypeOK
<1> QED
  BY <1>2, <1>3

LEMMA CompaniesStepInv == CompaniesInv /\ [CompaniesNext]_companiesVars => CompaniesInv'
<1> SUFFICES ASSUME CompaniesInv, [CompaniesNext]_companiesVars PROVE CompaniesInv'
  OBVIOUS
<1>1. CASE UNCHANGED companiesVars
  BY <1>1 DEF companiesVars, CompaniesInv, CompaniesTypeOK, WriterMetFree, WillWrite, UsersOf, RoutedByDomain,
     VerifierIsRight, AddressIsOneUser, VerifiedIsApplied
<1>2. CASE CompaniesNext
  BY <1>2, RegisterStep, RouteStep, RegisterTxStep, ProvisionStep, RowSteps, VerifySteps, MarkStep, CloseSteps
     DEF CompaniesNext, DomainRequest
<1> QED
  BY <1>1, <1>2

LEMMA CompaniesSpecInv == CompaniesSpec => []CompaniesInv
BY CompaniesInitInv, CompaniesStepInv, PTL DEF CompaniesSpec

----------------------------------------------------------------------------

\* Companies, their users, verifications and calls keep their types.
THEOREM CompaniesTypes == CompaniesSpec => []CompaniesTypeOK
<1>1. CompaniesInv => CompaniesTypeOK
  BY DEF CompaniesInv
<1> QED
  BY <1>1, CompaniesSpecInv, PTL

\* A verified domain is one whose DNS the company could write, and it reaches the
\* company unless the call of verifyDomain ends between its two updates.
THEOREM VerifiedReachesCompany == CompaniesSpec => []VerifiedIsApplied
<1>1. CompaniesInv => VerifiedIsApplied
  BY DEF CompaniesInv
<1> QED
  BY <1>1, CompaniesSpecInv, PTL

\* registerCompany and loginGoogle put an address into two companies only when
\* two of their calls for it overlapped: one call alone meets its own lookup.
THEOREM AddressesAreUnique == CompaniesSpec => []OneCompanyPerAddress
<1>1. ASSUME CompaniesInv, NEW m \in Addresses, m \notin overlapped
      PROVE  ~(Cardinality(UsersOf(m)) > 1)
  <2>1. CASE UsersOf(m) = {}
    BY <2>1, FS_EmptySet
  <2>2. CASE UsersOf(m) # {}
    <3>1. PICK k \in Slugs : UsersOf(m) = {k}
      <4>1. PICK k \in Slugs : k \in UsersOf(m)
        BY <2>2 DEF UsersOf
      <4>2. \A j \in UsersOf(m) : j = k
        BY <1>1, <4>1 DEF CompaniesInv, AddressIsOneUser, UsersOf
      <4> QED
        BY <4>1, <4>2
    <3> QED
      BY <3>1, FS_Singleton
  <2> QED
    BY <2>1, <2>2
<1>2. CompaniesInv => OneCompanyPerAddress
  BY <1>1 DEF OneCompanyPerAddress
<1> QED
  BY <1>2, CompaniesSpecInv, PTL

\* A Google sign-in provisions an account only in a company that had the domain
\* of its address as loginGoogle compared them.
THEOREM ProvisionsByDomain == CompaniesSpec => ProvisionedByDomain
<1> DEFINE P == \A k \in Slugs, m \in Addresses :
                   <<k, m>> \in people' \ people /\ company[k].registered =>
                      \E c \in Desks : desk[c].slug = k /\ desk[c].address = m /\ desk[c].domain = DomainOf[m]
<1>1. ASSUME CompaniesInv, [CompaniesNext]_companiesVars, NEW k \in Slugs, NEW m \in Addresses,
             <<k, m>> \in people', <<k, m>> \notin people, company[k].registered
      PROVE  \E c \in Desks : desk[c].slug = k /\ desk[c].address = m /\ desk[c].domain = DomainOf[m]
  <2>1. (\E c \in Desks : RegisterTx(c)) \/ (\E c \in Desks : GoogleProvision(c))
    BY <1>1 DEF CompaniesNext, companiesVars, Register, GoogleRoute, ResolveTxt, MarkVerified, ApplyDomain,
       DeskBreaksOff, DomainRequest, RequestVerification, VerifyRead, VerificationExpires, UpdateCompanySso
  <2>2. ASSUME NEW c \in Desks, RegisterTx(c) PROVE FALSE
    <3>1. <<k, m>> = <<desk[c].slug, desk[c].address>>
      BY <1>1, <2>2 DEF RegisterTx
    <3> QED
      BY <1>1, <2>2, <3>1 DEF RegisterTx
  <2>3. PICK c \in Desks : GoogleProvision(c)
    BY <2>1, <2>2
  <2> QED
    BY <1>1, <2>3 DEF GoogleProvision, CompaniesInv, RoutedByDomain
<1>2. CompaniesInv /\ [CompaniesNext]_companiesVars => [P]_companiesVars
  BY <1>1
<1> QED
  BY <1>2, CompaniesSpecInv, PTL DEF CompaniesSpec, ProvisionedByDomain
=============================================================================
