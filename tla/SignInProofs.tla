---------------------------- MODULE SignInProofs ----------------------------
(***************************************************************************)
(* Theorems about the ways into an account.  Sessions: for any number of   *)
(* sessions and of calls under way at the same time.  SecondFactor: for    *)
(* any number of secrets, code lists, codes in a list and devices.         *)
(* Federation: for any companies, providers, clients, logins and callbacks *)
(* under way.                                                              *)
(***************************************************************************)
EXTENDS Sessions, SecondFactor, Federation, TLAPS

----------------------------------------------------------------------------
(* Sessions *)

\* A call that goes on to sign is one whose role was held while active.
RoleIsHeld(c) == signIn[c].pc \in {"password", "issue"} => signIn[c].held

\* The sessions an acceptance met were issued, and after it revoked, revoked.
OldAreIssued(c) == signIn[c].pc \in {"revoke", "accept"} => signIn[c].old \subseteq Issued
OldAreRevoked(c) == signIn[c].pc = "accept" => signIn[c].old \cap Live = {}

SessionsInv == /\ SessionsTypeOK
               /\ \A c \in SignIns : RoleIsHeld(c) /\ OldAreIssued(c) /\ OldAreRevoked(c)

LEMMA SessionsInitInv == SessionsInit => SessionsInv
BY DEF SessionsInit, SessionsInv, SessionsTypeOK, Session, SignInCall, NoSignIn, RoleIsHeld, OldAreIssued, OldAreRevoked

\* What revoking does: no row is added, none is live that was not, none of S is.
LEMMA RevokeRevokes ==
    ASSUME SessionsTypeOK, NEW S \in SUBSET Tickets, Revoke(S)
    PROVE  /\ session' \in [Tickets -> Session]
           /\ Issued' = Issued
           /\ Live' = Live \ S
BY DEF SessionsTypeOK, Session, Revoke, Issued, Live

\* The hash of a token a client holds is the hash of no row.
LEMMA ClientTokenIsUnknown ==
    ASSUME NEW s \in Tickets
    PROVE  FindByToken(HashOfClientToken(s)) = {}
BY DEF FindByToken, HashOfClientToken, StoredHash

\* A step of call c alone, that reads only.
LEMMA MoveKeepsInv ==
    ASSUME SessionsInv, NEW c \in SignIns, NEW rec \in SignInCall,
           Moves(c, rec), UNCHANGED <<user, session>>, challenge' \in {"none", "out"},
           rec.pc \in {"password", "issue"} => rec.held,
           rec.pc = "revoke" => rec.old \subseteq Issued,
           rec.pc # "accept"
    PROVE  SessionsInv'
BY DEF SessionsInv, SessionsTypeOK, Moves, RoleIsHeld, OldAreIssued, OldAreRevoked, Issued, Live

\* Sessions change under the calls: nothing new is live but what is newly issued.
LEMMA SessionsChange ==
    ASSUME SessionsInv, session' \in [Tickets -> Session], UNCHANGED <<user, signIn, challenge>>,
           Issued \subseteq Issued', Live' \subseteq Live
    PROVE  SessionsInv'
BY DEF SessionsInv, SessionsTypeOK, RoleIsHeld, OldAreIssued, OldAreRevoked

LEMMA ReadSteps ==
    ASSUME SessionsInv, NEW c \in SignIns,
           \/ PasswordRead(c) \/ SecondFactorAsked(c) \/ NoSecondFactor(c)
           \/ ChallengePassed(c) \/ FederatedRead(c)
           \/ \E r \in PlatformRoles : AcceptRead(c, r)
           \/ SignInBreaksOff(c)
    PROVE  SessionsInv'
<1>1. /\ user.role \in PlatformRoles /\ user.active \in BOOLEAN /\ challenge \in {"none", "out"}
      /\ NoSignIn \in SignInCall /\ signIn[c] \in SignInCall
  BY DEF SessionsInv, SessionsTypeOK, NoSignIn, SignInCall
<1>2. ASSUME NEW pc \in {"password", "issue"}, ReadsAccount(c, pc)
      PROVE  SessionsInv'
  <2> DEFINE rec == [NoSignIn EXCEPT !.pc = pc, !.row = user.role, !.held = user.active]
  <2>1. user.active
    BY <1>2 DEF ReadsAccount, MaySignIn
  <2>2. rec \in SignInCall /\ rec.pc = pc /\ rec.held
    BY <1>1, <2>1 DEF NoSignIn, SignInCall
  <2>3. Moves(c, rec) /\ UNCHANGED <<user, session, challenge>>
    BY <1>2 DEF ReadsAccount
  <2> QED
    BY <1>1, <2>2, <2>3, MoveKeepsInv
<1>3. CASE PasswordRead(c)
  BY <1>3, <1>2 DEF PasswordRead
<1>4. CASE ChallengePassed(c)
  BY <1>4, <1>2 DEF ChallengePassed
<1>5. CASE FederatedRead(c)
  BY <1>5, <1>2 DEF FederatedRead
<1>6. CASE SecondFactorAsked(c)
  BY <1>6, <1>1, MoveKeepsInv DEF SecondFactorAsked, NoSignIn
<1>7. CASE NoSecondFactor(c)
  <2>1. signIn[c].held
    BY <1>7 DEF NoSecondFactor, SessionsInv, RoleIsHeld
  <2> QED
    BY <1>7, <2>1, <1>1, MoveKeepsInv DEF NoSecondFactor, SignInCall
<1>8. CASE \E r \in PlatformRoles : AcceptRead(c, r)
  <2>1. Live \subseteq Issued /\ Live \subseteq Tickets
    BY DEF Live, Issued
  <2> QED
    BY <1>8, <2>1, <1>1, MoveKeepsInv DEF AcceptRead, SignInCall, NoSignIn
<1>9. CASE SignInBreaksOff(c)
  BY <1>9, <1>1, MoveKeepsInv DEF SignInBreaksOff, NoSignIn
<1> QED
  BY <1>3, <1>4, <1>5, <1>6, <1>7, <1>8, <1>9

\* The new session belongs to none of the acceptances under way.
LEMMA IssueStep ==
    ASSUME SessionsInv, NEW c \in SignIns, NEW s \in Tickets, IssueTokenPair(c, s)
    PROVE  SessionsInv'
<1>1. SessionsTypeOK'
  BY DEF SessionsInv, SessionsTypeOK, IssueTokenPair, Moves, Session, SignInCall, NoSignIn
<1>2. Issued' = Issued \cup {s} /\ Live' = Live \cup {s} /\ s \notin Issued
  <2>1. /\ s \notin Issued /\ \A t \in Tickets \ {s} : session'[t] = session[t]
        /\ session'[s].refresh = "live"
    BY DEF SessionsInv, SessionsTypeOK, IssueTokenPair
  <2> QED
    BY <2>1 DEF Issued, Live
<1>3. \A x \in SignIns : signIn'[x] = IF x = c THEN NoSignIn ELSE signIn[x]
  BY DEF SessionsInv, SessionsTypeOK, IssueTokenPair, Moves
<1>4. \A x \in SignIns : RoleIsHeld(x)' /\ OldAreIssued(x)' /\ OldAreRevoked(x)'
  <2> TAKE x \in SignIns
  <2>1. CASE x = c
    <3>1. signIn'[x] = NoSignIn
      BY <2>1, <1>3
    <3>2. NoSignIn.pc = "idle"
      BY DEF NoSignIn
    <3> QED
      BY <3>1, <3>2 DEF RoleIsHeld, OldAreIssued, OldAreRevoked
  <2>2. CASE x # c
    BY <2>2, <1>2, <1>3 DEF SessionsInv, RoleIsHeld, OldAreIssued, OldAreRevoked
  <2> QED
    BY <2>1, <2>2
<1> QED
  BY <1>1, <1>4 DEF SessionsInv

LEMMA RevokeStep ==
    ASSUME SessionsInv, NEW c \in SignIns, AcceptRevokes(c)
    PROVE  SessionsInv'
<1>1. Live \subseteq Tickets
  BY DEF Live
<1>2. session' \in [Tickets -> Session] /\ Issued' = Issued /\ Live' = {}
  BY <1>1, RevokeRevokes DEF SessionsInv, AcceptRevokes
<1>3. SessionsTypeOK'
  BY <1>2 DEF SessionsInv, SessionsTypeOK, AcceptRevokes, Moves, SignInCall
<1>4. /\ signIn'[c] = [signIn[c] EXCEPT !.pc = "accept"] /\ signIn[c].pc = "revoke"
      /\ signIn[c] \in SignInCall
      /\ \A x \in SignIns \ {c} : signIn'[x] = signIn[x]
  BY DEF SessionsInv, SessionsTypeOK, AcceptRevokes, Moves
<1>5. \A x \in SignIns : RoleIsHeld(x)' /\ OldAreIssued(x)' /\ OldAreRevoked(x)'
  BY <1>2, <1>4 DEF SessionsInv, RoleIsHeld, OldAreIssued, OldAreRevoked, SignInCall
<1> QED
  BY <1>3, <1>5 DEF SessionsInv

\* Calls that note a change of the row keep what they are and gain what they held.
LEMMA WitnessedKeeps ==
    ASSUME SessionsInv
    PROVE  \A x \in SignIns :
              /\ Witnessed[x] \in SignInCall
              /\ Witnessed[x].pc = signIn[x].pc /\ Witnessed[x].old = signIn[x].old
              /\ Witnessed[x].row = signIn[x].row
              /\ signIn[x].held => Witnessed[x].held
BY DEF SessionsInv, SessionsTypeOK, Witnessed, SignInCall

LEMMA AcceptStep ==
    ASSUME SessionsInv, NEW c \in SignIns, AcceptTx(c)
    PROVE  SessionsInv'
<1>1. /\ signIn'[c] = [Witnessed[c] EXCEPT !.pc = "issue", !.held = TRUE]
      /\ \A x \in SignIns \ {c} : signIn'[x] = Witnessed[x]
      /\ signIn' \in [SignIns -> SignInCall]
  <2>1. Witnessed \in [SignIns -> SignInCall]
    BY WitnessedKeeps DEF Witnessed
  <2> QED
    BY <2>1 DEF AcceptTx, SignInCall
<1>2. SessionsTypeOK'
  BY <1>1 DEF SessionsInv, SessionsTypeOK, AcceptTx, SignInCall
<1>3. \A x \in SignIns : RoleIsHeld(x)' /\ OldAreIssued(x)' /\ OldAreRevoked(x)'
  BY <1>1, WitnessedKeeps DEF SessionsInv, AcceptTx, RoleIsHeld, OldAreIssued, OldAreRevoked, SignInCall, Issued, Live
<1> QED
  BY <1>2, <1>3 DEF SessionsInv

LEMMA AccountStep ==
    ASSUME SessionsInv, NEW active \in BOOLEAN, NEW r \in PlatformRoles, AccountChanges(active, r)
    PROVE  SessionsInv'
<1>1. signIn' \in [SignIns -> SignInCall] /\ \A x \in SignIns : signIn'[x] = Witnessed[x]
  BY WitnessedKeeps DEF AccountChanges, Witnessed
<1>2. SessionsTypeOK'
  BY <1>1 DEF SessionsInv, SessionsTypeOK, AccountChanges
<1>3. \A x \in SignIns : RoleIsHeld(x)' /\ OldAreIssued(x)' /\ OldAreRevoked(x)'
  BY <1>1, WitnessedKeeps DEF SessionsInv, AccountChanges, RoleIsHeld, OldAreIssued, OldAreRevoked, Issued, Live
<1> QED
  BY <1>2, <1>3 DEF SessionsInv

LEMMA SessionSteps ==
    ASSUME SessionsInv, NEW s \in Tickets,
           Refresh(s) \/ Logout(s) \/ TokenExpires(s)
    PROVE  SessionsInv'
<1>1. CASE Refresh(s)
  <2>1. session' \in [Tickets -> Session] /\ Issued \subseteq Issued' /\ Live' \subseteq Live
    BY <1>1 DEF Refresh, SessionsInv, SessionsTypeOK, Session, Issued, Live
  <2> QED
    BY <1>1, <2>1, SessionsChange DEF Refresh
<1>2. CASE Logout(s)
  <2>1. Revoke({})
    BY <1>2, ClientTokenIsUnknown DEF Logout
  <2> QED
    BY <1>2, <2>1, RevokeRevokes, SessionsChange DEF Logout, SessionsInv
<1>3. CASE TokenExpires(s)
  <2>1. session' \in [Tickets -> Session] /\ Issued \subseteq Issued' /\ Live' \subseteq Live
    BY <1>3 DEF TokenExpires, SessionsInv, SessionsTypeOK, Session, Issued, Live
  <2> QED
    BY <1>3, <2>1, SessionsChange DEF TokenExpires
<1> QED
  BY <1>1, <1>2, <1>3

LEMMA AccountTokenSteps ==
    ASSUME SessionsInv, LogoutAll \/ ChallengeExpires
    PROVE  SessionsInv'
<1>1. CASE LogoutAll
  <2>1. Live \in SUBSET Tickets
    BY DEF Live
  <2> QED
    BY <1>1, <2>1, RevokeRevokes, SessionsChange DEF LogoutAll, SessionsInv
<1>2. CASE ChallengeExpires
  BY <1>2 DEF ChallengeExpires, SessionsInv, SessionsTypeOK, RoleIsHeld, OldAreIssued, OldAreRevoked, Issued, Live
<1> QED
  BY <1>1, <1>2

LEMMA SessionsStepInv == SessionsInv /\ [SessionsNext]_sessionsVars => SessionsInv'
<1> SUFFICES ASSUME SessionsInv, [SessionsNext]_sessionsVars PROVE SessionsInv'
  OBVIOUS
<1>1. CASE UNCHANGED sessionsVars
  BY <1>1 DEF sessionsVars, SessionsInv, SessionsTypeOK, RoleIsHeld, OldAreIssued, OldAreRevoked, Issued, Live
<1>2. CASE SessionsNext
  BY <1>2, ReadSteps, IssueStep, RevokeStep, AcceptStep, AccountStep, SessionSteps, AccountTokenSteps
     DEF SessionsNext
<1> QED
  BY <1>1, <1>2

LEMMA SessionsSpecInv == SessionsSpec => []SessionsInv
BY SessionsInitInv, SessionsStepInv, PTL DEF SessionsSpec

\* Rows, tokens and calls keep their types.
THEOREM SessionsTypes == SessionsSpec => []SessionsTypeOK
<1>1. SessionsInv => SessionsTypeOK
  BY DEF SessionsInv
<1> QED
  BY <1>1, SessionsSpecInv, PTL

\* A token is signed with a role the account had while active during the call
\* that signed it: only issueTokenPair makes a session live, and no path leads
\* to it but through a read of an active row or the transaction of acceptInvite.
THEOREM SignedRoleWasHeld == SessionsSpec => RoleWasHeld
<1> DEFINE New(s) == s \notin Issued /\ session'[s].refresh = "live" =>
             \E c \in SignIns : signIn[c].pc = "issue" /\ session'[s].role = signIn[c].row /\ signIn[c].held
<1>1. ASSUME SessionsInv, [SessionsNext]_sessionsVars, NEW s \in Tickets, s \notin Issued,
             session'[s].refresh = "live"
      PROVE  \E c \in SignIns : signIn[c].pc = "issue" /\ session'[s].role = signIn[c].row /\ signIn[c].held
  <2>1. session[s].refresh = "none" /\ session' # session
    BY <1>1 DEF Issued
  <2>2. \A S \in SUBSET Tickets : ~Revoke(S)
    BY <1>1, RevokeRevokes DEF SessionsInv, Issued, Live
  <2>3. \E c \in SignIns, t \in Tickets : IssueTokenPair(c, t)
    <3>1. Live \in SUBSET Tickets /\ {} \in SUBSET Tickets
      BY DEF Live
    <3>2. \A t \in Tickets : ~Refresh(t) /\ ~TokenExpires(t)
      BY <1>1, <2>1 DEF Refresh, TokenExpires, SessionsInv, SessionsTypeOK, Session
    <3>3. ~LogoutAll /\ (\A c \in SignIns : ~AcceptRevokes(c))
      BY <2>2, <3>1 DEF LogoutAll, AcceptRevokes
    <3>4. \A t \in Tickets : ~Logout(t)
      BY <2>2, <3>1, ClientTokenIsUnknown DEF Logout
    <3> QED
      BY <1>1, <2>1, <3>2, <3>3, <3>4
         DEF SessionsNext, sessionsVars, PasswordRead, SecondFactorAsked, NoSecondFactor, ChallengePassed,
             FederatedRead, ReadsAccount, AcceptRead, AcceptTx, SignInBreaksOff, AccountChanges, ChallengeExpires
  <2>4. PICK c \in SignIns, t \in Tickets : IssueTokenPair(c, t)
    BY <2>3
  <2>5. s = t /\ session'[s].role = signIn[c].row
    BY <1>1, <2>1, <2>4 DEF IssueTokenPair, SessionsInv, SessionsTypeOK
  <2> QED
    BY <1>1, <2>4, <2>5 DEF IssueTokenPair, SessionsInv, RoleIsHeld
<1>2. SessionsInv /\ [SessionsNext]_sessionsVars => [\A s \in Tickets : New(s)]_sessionsVars
  BY <1>1
<1> QED
  BY <1>2, SessionsSpecInv, PTL DEF SessionsSpec, RoleWasHeld

\* The refresh tokens that were live as an acceptance read the account are not
\* live when it reactivates it: the revocation outside its transaction is enough.
THEOREM AcceptanceEndsSessions == SessionsSpec => OldSessionsAreRevoked
<1>1. SessionsInv => [\A c \in SignIns : signIn[c].pc = "accept" /\ signIn'[c].pc = "issue" =>
                 signIn[c].old \cap Live = {}]_sessionsVars
  BY DEF SessionsInv, OldAreRevoked
<1> QED
  BY <1>1, SessionsSpecInv, PTL DEF SessionsSpec, OldSessionsAreRevoked

----------------------------------------------------------------------------
(* Federation *)

\* A callback under way is of a login that was begun, at the company and the
\* provider that login names, and goes on with the client it found; once the
\* code was exchanged, that is the client the login was begun with.
ReturnIsOfLogin(c) ==
    LET r == return[c] IN
    r.pc # "idle" =>
       /\ r.login \in Logins /\ r.host \in Hosts /\ r.name \in Names
       /\ login[r.login].state # "none"
       /\ r.host = login[r.login].host /\ r.name = login[r.login].name
       /\ r.was.status = "active" /\ r.was.client = r.client
       /\ r.pc # "exchange" => r.client = login[r.login].client

AdmittedIsOfLogin(s) ==
    /\ login[s.login].state # "none"
    /\ s.host = login[s.login].host /\ s.name = login[s.login].name
    /\ s.was.status = "active" /\ s.was.client = login[s.login].client

FederationInv == /\ FederationTypeOK
                 /\ \A c \in Returns : ReturnIsOfLogin(c)
                 /\ \A s \in admitted : AdmittedIsOfLogin(s)

\* Steps that leave what a login names alone keep what is known of callbacks.
LoginsKept == \A l \in Logins : login[l].state # "none" =>
                 /\ login'[l].state # "none"
                 /\ login'[l].host = login[l].host
                 /\ login'[l].name = login[l].name
                 /\ login'[l].client = login[l].client

LEMMA FederationInitInv == FederationInit => FederationInv
BY FederationAssumption DEF FederationInit, FederationInv, FederationTypeOK, Provider, NoProvider, Login, NoLogin,
   Return, NoReturn, ReturnIsOfLogin, AdmittedIsOfLogin

\* Every row that changes is a provider, a person or a login that keeps its names.
LEMMA RowsKeepInv ==
    ASSUME FederationInv, FederationTypeOK', LoginsKept, UNCHANGED <<return, admitted>>
    PROVE  FederationInv'
BY DEF FederationInv, FederationTypeOK, LoginsKept, ReturnIsOfLogin, AdmittedIsOfLogin, Admission, Return

LEMMA ProviderSteps ==
    ASSUME FederationInv,
           \/ \E o \in Offers, k \in Clients : CreateProvider(o, k)
           \/ \E o \in Offers, p \in Offers, k \in Clients, status \in {"active", "inactive"} :
                 UpdateProvider(o, p, k, status)
           \/ \E o \in Offers : DeleteProvider(o)
           \/ \E h \in Hosts, status \in {"active", "inactive"} : PersonChanges(h, status)
    PROVE  FederationInv'
<1>1. FederationTypeOK'
  BY DEF FederationInv, FederationTypeOK, CreateProvider, UpdateProvider, DeleteProvider, PersonChanges, Provider, NoProvider
<1>2. LoginsKept /\ UNCHANGED <<return, admitted>>
  BY DEF LoginsKept, CreateProvider, UpdateProvider, DeleteProvider, PersonChanges
<1> QED
  BY <1>1, <1>2, RowsKeepInv

LEMMA LoginSteps ==
    ASSUME FederationInv, NEW l \in Logins,
           (\E o \in Offers : Initiate(l, o)) \/ Authorize(l) \/ StateExpires(l)
    PROVE  FederationInv'
<1>1. UNCHANGED <<provider, person, return, admitted>> /\ login' \in [Logins -> Login] /\ LoginsKept
  <2>1. CASE \E o \in Offers : Initiate(l, o)
    BY <2>1, FederationAssumption DEF FederationInv, FederationTypeOK, Initiate, LoginsKept, Login, NoLogin, Provider
  <2>2. CASE Authorize(l)
    BY <2>2 DEF FederationInv, FederationTypeOK, Authorize, LoginsKept, Login
  <2>3. CASE StateExpires(l)
    BY <2>3 DEF FederationInv, FederationTypeOK, StateExpires, LoginsKept, Login
  <2> QED
    BY <2>1, <2>2, <2>3
<1> QED
  BY <1>1, RowsKeepInv DEF FederationInv, FederationTypeOK

\* A callback moves; the logins keep their names.
LEMMA ReturnMoves ==
    ASSUME FederationInv, NEW c \in Returns, NEW rec \in Return,
           return' = [return EXCEPT ![c] = rec],
           LoginsKept, FederationTypeOK', ReturnIsOfLogin(c)', UNCHANGED admitted
    PROVE  FederationInv'
<1>1. \A x \in Returns \ {c} : return'[x] = return[x]
  BY DEF FederationInv, FederationTypeOK
<1>2. \A x \in Returns : ReturnIsOfLogin(x)'
  BY <1>1 DEF FederationInv, FederationTypeOK, ReturnIsOfLogin, LoginsKept, Return
<1>3. \A s \in admitted' : AdmittedIsOfLogin(s)'
  BY DEF FederationInv, FederationTypeOK, AdmittedIsOfLogin, LoginsKept, Admission
<1> QED
  BY <1>2, <1>3 DEF FederationInv


LEMMA CallbackStep ==
    ASSUME FederationInv, NEW c \in Returns, NEW l \in Logins, NEW o \in Offers, Callback(c, l, o)
    PROVE  FederationInv'
<1> DEFINE rec == [pc |-> "exchange", login |-> l, host |-> o[1], name |-> o[2],
                   client |-> ClientAtCallback(l, o), was |-> provider[o]]
<1>1. o[1] \in Hosts /\ o[2] \in Names /\ provider[o] \in Provider
  BY FederationAssumption DEF FederationInv, FederationTypeOK
<1>2. rec \in Return
  BY <1>1 DEF Return, Provider, ClientAtCallback
<1>3. return' = [return EXCEPT ![c] = rec] /\ UNCHANGED <<provider, person, login, admitted>>
  BY DEF Callback
<1>4. LoginsKept /\ FederationTypeOK'
  BY <1>2, <1>3 DEF FederationInv, FederationTypeOK, LoginsKept
<1>5. ReturnIsOfLogin(c)'
  <2>1. return'[c] = rec /\ login' = login
    BY <1>3 DEF FederationInv, FederationTypeOK
  <2>2. login[l].state = "good" /\ login[l].host = o[1] /\ login[l].name = o[2]
    BY DEF Callback, StateMatches
  <2> QED
    BY <1>1, <2>1, <2>2 DEF ReturnIsOfLogin, Callback, ClientAtCallback
<1> HIDE DEF rec
<1> QED
  BY <1>2, <1>3, <1>4, <1>5, ReturnMoves

\* The exchange uses up a code, which is good for the client it was issued for.
LEMMA ExchangeStep ==
    ASSUME FederationInv, NEW c \in Returns, Exchange(c)
    PROVE  FederationInv'
<1> DEFINE l == return[c].login
           rec == [return[c] EXCEPT !.pc = "lookup"]
<1>1. return[c] \in Return /\ ReturnIsOfLogin(c) /\ return[c].pc = "exchange"
  BY DEF FederationInv, FederationTypeOK, Exchange
<1>2. l \in Logins /\ login[l] \in Login
  BY <1>1 DEF ReturnIsOfLogin, FederationInv, FederationTypeOK
<1>3. rec \in Return
  BY <1>1 DEF Return
<1>4. /\ return' = [return EXCEPT ![c] = rec]
      /\ login' = [login EXCEPT ![l].code = "used"]
      /\ UNCHANGED <<provider, person, admitted>>
  BY DEF Exchange
<1>5. LoginsKept
  BY <1>4 DEF FederationInv, FederationTypeOK, LoginsKept, Login
<1>6. FederationTypeOK'
  BY <1>2, <1>3, <1>4 DEF FederationInv, FederationTypeOK, Login
<1>7. ReturnIsOfLogin(c)'
  <2>1. return'[c] = rec
    BY <1>4 DEF FederationInv, FederationTypeOK
  <2>2. login[l].client = return[c].client
    BY DEF Exchange, AudienceMatches
  <2> QED
    BY <1>1, <1>2, <1>5, <2>1, <2>2 DEF ReturnIsOfLogin, LoginsKept, Return
<1> HIDE DEF rec
<1> QED
  BY <1>3, <1>4, <1>5, <1>6, <1>7, ReturnMoves

\* The account is looked up or created: only the pc of the callback moves.
LEMMA UserSteps ==
    ASSUME FederationInv, NEW c \in Returns, FindUser(c) \/ CreateUser(c)
    PROVE  FederationInv'
<1>1. PICK pc \in {"create", "issue"} :
         /\ return' = [return EXCEPT ![c] = [return[c] EXCEPT !.pc = pc]]
         /\ return[c].pc \in {"lookup", "create"}
         /\ UNCHANGED <<provider, login, admitted>>
         /\ person' \in [Hosts -> {"none", "active", "inactive"}]
  <2>1. CASE FindUser(c)
    BY <2>1 DEF FindUser, FederationInv, FederationTypeOK
  <2>2. CASE CreateUser(c)
    BY <2>2 DEF CreateUser, FederationInv, FederationTypeOK
  <2> QED
    BY <2>1, <2>2
<1> DEFINE rec == [return[c] EXCEPT !.pc = pc]
<1>2. return[c] \in Return /\ ReturnIsOfLogin(c)
  BY DEF FederationInv, FederationTypeOK
<1>3. rec \in Return
  BY <1>2 DEF Return
<1>4. LoginsKept /\ FederationTypeOK'
  BY <1>1, <1>3 DEF FederationInv, FederationTypeOK, LoginsKept
<1>5. ReturnIsOfLogin(c)'
  <2>1. return'[c] = rec
    BY <1>1 DEF FederationInv, FederationTypeOK
  <2> QED
    BY <1>1, <1>2, <2>1 DEF ReturnIsOfLogin, Return
<1> HIDE DEF rec
<1> QED
  BY <1>1, <1>3, <1>4, <1>5, ReturnMoves DEF rec

LEMMA NoReturnFits == NoReturn \in Return
BY DEF NoReturn, Return, Provider, NoProvider

LEMMA ReturnFailsStep ==
    ASSUME FederationInv, NEW c \in Returns, ReturnFails(c)
    PROVE  FederationInv'
<1>1. LoginsKept /\ FederationTypeOK' /\ ReturnIsOfLogin(c)'
  BY NoReturnFits DEF ReturnFails, FederationInv, FederationTypeOK, LoginsKept, ReturnIsOfLogin, NoReturn
<1> QED
  BY <1>1, NoReturnFits, ReturnMoves DEF ReturnFails

\* What a callback knows at its end is what is promised of a session.
LEMMA AdmitStep ==
    ASSUME FederationInv, NEW c \in Returns, Admit(c)
    PROVE  FederationInv'
<1> DEFINE s == [login |-> return[c].login, host |-> return[c].host,
                 name |-> return[c].name, was |-> return[c].was]
<1>1. return[c] \in Return /\ ReturnIsOfLogin(c) /\ return[c].pc = "issue"
  BY DEF FederationInv, FederationTypeOK, Admit
<1>2. /\ return' = [return EXCEPT ![c] = NoReturn]
      /\ admitted' = admitted \cup {s}
      /\ UNCHANGED <<provider, person, login>>
  BY DEF Admit
<1>3. s \in Admission /\ AdmittedIsOfLogin(s)
  BY <1>1 DEF Admission, Return, ReturnIsOfLogin, AdmittedIsOfLogin
<1>4. FederationTypeOK'
  BY <1>2, <1>3, NoReturnFits DEF FederationInv, FederationTypeOK
<1>5. \A x \in Returns : ReturnIsOfLogin(x)'
  BY <1>2 DEF FederationInv, FederationTypeOK, ReturnIsOfLogin, NoReturn
<1>6. \A x \in admitted' : AdmittedIsOfLogin(x)'
  BY <1>2, <1>3 DEF FederationInv, AdmittedIsOfLogin
<1> QED
  BY <1>4, <1>5, <1>6 DEF FederationInv

LEMMA FederationNextInv == FederationInv /\ [FederationNext]_federationVars => FederationInv'
<1> SUFFICES ASSUME FederationInv, [FederationNext]_federationVars PROVE FederationInv'
  OBVIOUS
<1>1. CASE UNCHANGED federationVars
  BY <1>1, RowsKeepInv DEF federationVars, FederationInv, FederationTypeOK, LoginsKept
<1>2. CASE FederationNext
  BY <1>2, ProviderSteps, LoginSteps, CallbackStep, ExchangeStep, UserSteps, ReturnFailsStep, AdmitStep
     DEF FederationNext
<1> QED
  BY <1>1, <1>2

LEMMA FederationInvHolds == FederationSpec => []FederationInv
BY FederationInitInv, FederationNextInv, PTL DEF FederationSpec

----------------------------------------------------------------------------

\* Provider rows, logins, callbacks and sessions keep their types (the types
\* of OidcProvider and of what a callback reads).
THEOREM FederationTypes == FederationSpec => []FederationTypeOK
<1>1. FederationInv => FederationTypeOK
  BY DEF FederationInv
<1> QED
  BY <1>1, FederationInvHolds, PTL

\* However many logins and callbacks overlap and however often providers are
\* renamed or replaced, a session belongs to the company and the provider its
\* login was begun at (the comparison of handleOidcCallback with the state).
THEOREM LoginsStay == FederationSpec => []LoginStaysWhereItBegan
<1>1. FederationInv => LoginStaysWhereItBegan
  BY DEF FederationInv, AdmittedIsOfLogin, LoginStaysWhereItBegan
<1> QED
  BY <1>1, FederationInvHolds, PTL

\* A session needs a provider that was active when the callback came in, with
\* the client the login was begun with (the lookup of the provider and the
\* audience of the identity token).
THEOREM WithdrawnStaysOut == FederationSpec => []WithdrawnProviderAdmitsNobody
<1>1. FederationInv => WithdrawnProviderAdmitsNobody
  BY DEF FederationInv, AdmittedIsOfLogin, WithdrawnProviderAdmitsNobody
<1> QED
  BY <1>1, FederationInvHolds, PTL

----------------------------------------------------------------------------
(* Second factor *)

\* What a call knows: while it runs, whether the second factor was ever waived
\* and whether the row is still the one it read.
CallIsRight(d) ==
    LET v == device[d] IN
    /\ v.pc = "login" => (v.asked \/ v.waived) /\ (Applies \/ v.waived)
    /\ v.pc = "in" /\ v.proof = "none" /\ v.via = "password" => v.waived
    /\ v.pc \in {"enable", "useCode"} => v.crossed \/ v.read = mfa
    /\ v.pc = "enable" => v.read.secret # 0
    /\ v.pc = "useCode" => v.code \in v.read.codes
    /\ v.pc = "regenerate" => v.code \in Codes /\ v.code[1] \in 1..generated

\* Codes that were ever in the row, as far as anyone still knows.
Seen(k) == k \in spent \/ k \in mfa.codes \/ \E d \in Devices : k \in device[d].read.codes

\* The numbers of lists that are still to be written are used nowhere else.
Unwritten(d) == device[d].pc = "regenerate"
NumbersAreFresh == \A k \in Codes : Seen(k) =>
    /\ k[1] <= generated
    /\ \A d \in Devices : Unwritten(d) => device[d].code[1] # k[1]
ListsDiffer == \A d, e \in Devices : Unwritten(d) /\ Unwritten(e) /\ d # e =>
                  device[d].code[1] # device[e].code[1]

SpentIsGone == \A k \in spent : k \notin mfa.codes \/ k \in revived

SecondFactorInv == /\ SecondFactorTypeOK
                   /\ \A d \in Devices : CallIsRight(d)
                   /\ NumbersAreFresh /\ ListsDiffer /\ SpentIsGone
                   /\ EnabledIsConfirmed

LEMMA NothingIsTyped == NoMfa \in Mfa /\ NoDevice \in Device
BY SecondFactorAssumption DEF SecondFactorAssumption, NoMfa, Mfa, NoDevice, Device, NoCode, Via

LEMMA ListsAreTyped ==
    ASSUME NEW g \in 1..MaxSecrets
    PROVE  ListOf(g) \subseteq Codes /\ \A k \in ListOf(g) : k[1] = g
BY DEF ListOf, Codes

LEMMA SecondFactorInitInv == SecondFactorInit => SecondFactorInv
<1> SUFFICES ASSUME SecondFactorInit PROVE SecondFactorInv
  OBVIOUS
<1>0. pending \in {"none", "out"}
  BY DEF SecondFactorInit
<1>1. SecondFactorTypeOK
  BY <1>0, NothingIsTyped, SecondFactorAssumption DEF SecondFactorInit, SecondFactorTypeOK, SecondFactorAssumption
<1>2. \A d \in Devices : CallIsRight(d) /\ device[d].read.codes = {} /\ ~Unwritten(d)
  BY DEF SecondFactorInit, CallIsRight, NoDevice, NoMfa, Unwritten
<1>3. NumbersAreFresh /\ ListsDiffer /\ SpentIsGone /\ EnabledIsConfirmed
  BY <1>2 DEF SecondFactorInit, NumbersAreFresh, Seen, ListsDiffer, SpentIsGone, EnabledIsConfirmed, NoMfa
<1> QED
  BY <1>1, <1>2, <1>3 DEF SecondFactorInv

----------------------------------------------------------------------------
(* What a step does to the calls *)

\* A call that is not the one that steps notes what happens and stays right.
LEMMA NotedIsRight ==
    ASSUME SecondFactorInv, NEW x \in Devices, device'[x] = Noted(x), generated' \in Nat, generated <= generated'
    PROVE  /\ Noted(x) \in Device
           /\ device'[x].pc = device[x].pc /\ device'[x].read = device[x].read
           /\ device'[x].code = device[x].code
           /\ CallIsRight(x)'
<1>1. device[x] \in Device /\ CallIsRight(x) /\ generated \in Nat
  BY SecondFactorAssumption DEF SecondFactorInv, SecondFactorTypeOK, SecondFactorAssumption
<1>2. CASE device[x].pc \in {"idle", "in"}
  BY <1>1, <1>2 DEF Noted, CallIsRight
<1>3. CASE device[x].pc \notin {"idle", "in"}
  <2>1. Noted(x) = [device[x] EXCEPT !.waived = device[x].waived \/ ~Applies',
                                     !.crossed = device[x].crossed \/ mfa' # mfa]
    BY <1>3 DEF Noted
  <2>2. /\ Noted(x) \in Device
        /\ Noted(x).pc = device[x].pc /\ Noted(x).read = device[x].read /\ Noted(x).asked = device[x].asked
        /\ Noted(x).code = device[x].code
        /\ Noted(x).waived = (device[x].waived \/ ~Applies')
        /\ Noted(x).crossed = (device[x].crossed \/ mfa' # mfa)
    BY <2>1, <1>1 DEF Device
  <2> DEFINE v == device[x]
             w == device'[x]
  <2>3. /\ w.pc = v.pc /\ w.read = v.read /\ w.asked = v.asked /\ w.code = v.code
        /\ v.waived => w.waived
        /\ Applies' \/ w.waived
        /\ v.crossed => w.crossed
        /\ mfa' = mfa \/ w.crossed
    BY <2>2
  <2> HIDE DEF w
  <2>4. w.pc = "login" => (w.asked \/ w.waived) /\ (Applies' \/ w.waived)
    BY <2>3, <1>1 DEF CallIsRight
  <2>5. w.pc \in {"enable", "useCode"} => w.crossed \/ w.read = mfa'
    BY <2>3, <1>1 DEF CallIsRight
  <2>6. /\ w.pc = "enable" => w.read.secret # 0
        /\ w.pc = "useCode" => w.code \in w.read.codes
        /\ w.pc = "regenerate" => w.code \in Codes /\ w.code[1] \in 1..generated'
    BY <2>3, <1>1 DEF CallIsRight
  <2>7. w.pc # "in"
    BY <2>3, <1>3
  <2>8. CallIsRight(x)'
    BY <2>4, <2>5, <2>6, <2>7 DEF CallIsRight, w
  <2> QED
    BY <2>2, <2>8
<1> QED
  BY <1>2, <1>3

\* A step of call d alone: all calls are right if d is.
LEMMA StepsAreRight ==
    ASSUME SecondFactorInv, NEW d \in Devices, NEW rec \in Device, Steps(d, rec),
           generated' \in Nat, generated <= generated',
           device'[d] = rec => CallIsRight(d)'
    PROVE  /\ device' \in [Devices -> Device] /\ device'[d] = rec
           /\ \A x \in Devices : CallIsRight(x)'
           /\ \A x \in Devices \ {d} : /\ device'[x].pc = device[x].pc
                                       /\ device'[x].read = device[x].read
                                       /\ device'[x].code = device[x].code
<1>1. device'[d] = rec /\ \A x \in Devices \ {d} : device'[x] = Noted(x)
  BY DEF Steps
<1>2. \A x \in Devices \ {d} : /\ Noted(x) \in Device
                               /\ device'[x].pc = device[x].pc
                               /\ device'[x].read = device[x].read
                               /\ device'[x].code = device[x].code
                               /\ CallIsRight(x)'
  BY <1>1, NotedIsRight
<1>3. device' \in [Devices -> Device]
  BY <1>2 DEF Steps
<1> QED
  BY <1>1, <1>2, <1>3

\* Steps that bring no new codes.
LEMMA NoNewCodes ==
    ASSUME SecondFactorInv, SecondFactorTypeOK', \A x \in Devices : CallIsRight(x)', EnabledIsConfirmed',
           mfa'.codes \subseteq mfa.codes, UNCHANGED <<generated, spent, revived>>,
           \A x \in Devices : /\ device'[x].read.codes \subseteq mfa.codes \cup device[x].read.codes
                              /\ Unwritten(x)' => Unwritten(x) /\ device'[x].code = device[x].code
    PROVE  SecondFactorInv'
<1>1. \A k : Seen(k)' => Seen(k)
  BY DEF Seen
<1>2. NumbersAreFresh'
  BY <1>1 DEF SecondFactorInv, NumbersAreFresh
<1>3. ListsDiffer'
  BY DEF SecondFactorInv, ListsDiffer
<1>4. SpentIsGone'
  BY DEF SecondFactorInv, SpentIsGone
<1> QED
  BY <1>2, <1>3, <1>4 DEF SecondFactorInv

\* A call reads, signs in or ends, and no row changes.
LEMMA ReadKeepsInv ==
    ASSUME SecondFactorInv, NEW d \in Devices, NEW rec \in Device, Steps(d, rec),
           pending' \in {"none", "out"}, UNCHANGED <<mfa, required, generated, spent, revived, confirmed>>,
           rec.pc # "regenerate", rec.read.codes \subseteq mfa.codes \cup device[d].read.codes,
           device'[d] = rec => CallIsRight(d)'
    PROVE  SecondFactorInv'
<1>1. generated \in Nat /\ generated' \in Nat /\ generated <= generated'
  BY SecondFactorAssumption DEF SecondFactorInv, SecondFactorTypeOK, SecondFactorAssumption
<1>2. /\ device' \in [Devices -> Device] /\ device'[d] = rec
      /\ \A x \in Devices : CallIsRight(x)'
      /\ \A x \in Devices \ {d} : /\ device'[x].pc = device[x].pc
                                  /\ device'[x].read = device[x].read
                                  /\ device'[x].code = device[x].code
  BY <1>1, StepsAreRight
<1>3. SecondFactorTypeOK' /\ EnabledIsConfirmed'
  BY <1>2 DEF SecondFactorInv, SecondFactorTypeOK, EnabledIsConfirmed
<1>4. \A x \in Devices : /\ device'[x].read.codes \subseteq mfa.codes \cup device[x].read.codes
                         /\ Unwritten(x)' => Unwritten(x) /\ device'[x].code = device[x].code
  BY <1>2 DEF Unwritten
<1> QED
  BY <1>2, <1>3, <1>4, NoNewCodes

----------------------------------------------------------------------------
(* The steps *)

LEMMA FactorLoginSteps ==
    ASSUME SecondFactorInv, NEW d \in Devices,
           \/ LoginRead(d) \/ LoginGate(d) \/ FederatedLogin(d) \/ ChallengeWithout(d) \/ ChallengeTotp(d)
           \/ SignedIn(d) \/ DeviceBreaksOff(d)
    PROVE  SecondFactorInv'
<1>0. /\ device[d] \in Device /\ CallIsRight(d) /\ required \in BOOLEAN /\ mfa \in Mfa /\ pending \in {"none", "out"}
      /\ NoDevice \in Device /\ NoDevice.pc = "idle" /\ NoDevice.read.codes = {}
  BY NothingIsTyped DEF SecondFactorInv, SecondFactorTypeOK, NoDevice, NoMfa
<1>1. CASE LoginRead(d)
  <2> DEFINE w == ~Applies
             rec == [NoDevice EXCEPT !.pc = "login", !.asked = required, !.waived = w]
  <2>0. w \in BOOLEAN
    OBVIOUS
  <2> HIDE DEF w
  <2>1. rec \in Device /\ rec.pc = "login" /\ rec.asked = required /\ rec.waived = w /\ rec.read.codes = {}
    BY <1>0, <2>0 DEF Device, NoDevice, NoMfa, Via
  <2> USE DEF w
  <2>2. device'[d] = rec => CallIsRight(d)'
    BY <2>1, <1>1 DEF LoginRead, CallIsRight, Applies
  <2>3. pending' \in {"none", "out"}
    BY <1>0, <1>1 DEF LoginRead
  <2> QED
    BY <2>1, <2>2, <2>3, <1>1, ReadKeepsInv DEF LoginRead
<1>2. CASE LoginGate(d)
  <2>0. pending' \in {"none", "out"}
    BY <1>0, <1>2 DEF LoginGate, Asks
  <2>1. CASE Asks(d)
    <3>1. device'[d] = NoDevice => CallIsRight(d)'
      BY <1>0 DEF CallIsRight
    <3> QED
      BY <3>1, <2>0, <2>1, <1>0, <1>2, ReadKeepsInv DEF LoginGate
  <2>2. CASE ~Asks(d)
    <3> DEFINE rec == [device[d] EXCEPT !.pc = "in", !.via = "password"]
    <3>1. rec \in Device /\ rec.pc = "in" /\ rec.waived = device[d].waived /\ rec.read = device[d].read
      BY <1>0 DEF Device, Via
    <3>2. device[d].waived
      BY <1>0, <1>2, <2>2 DEF LoginGate, At, Asks, CallIsRight, Applies
    <3>3. device'[d] = rec => CallIsRight(d)'
      BY <3>1, <3>2 DEF CallIsRight
    <3> QED
      BY <3>1, <3>3, <2>0, <2>2, <1>2, ReadKeepsInv DEF LoginGate
  <2> QED
    BY <2>1, <2>2
<1>3. CASE ChallengeWithout(d)
  <2> DEFINE rec == [NoDevice EXCEPT !.pc = "in", !.via = "password", !.waived = ~Applies]
  <2>1. rec \in Device /\ rec.pc = "in" /\ rec.waived = ~Applies /\ rec.read.codes = {}
    BY <1>0 DEF Device, NoDevice, NoMfa, Via
  <2>2. device'[d] = rec => CallIsRight(d)'
    BY <2>1, <1>3 DEF ChallengeWithout, CallIsRight, Applies
  <2> QED
    BY <1>0, <2>1, <2>2, <1>3, ReadKeepsInv DEF ChallengeWithout
<1>4. CASE ChallengeTotp(d)
  <2> DEFINE rec == [NoDevice EXCEPT !.pc = "in", !.via = "password", !.proof = "totp"]
  <2>1. rec \in Device /\ rec.pc = "in" /\ rec.proof = "totp" /\ rec.read.codes = {}
    BY <1>0 DEF Device, NoDevice, NoMfa, Via
  <2>2. device'[d] = rec => CallIsRight(d)'
    BY <2>1 DEF CallIsRight
  <2> QED
    BY <1>0, <2>1, <2>2, <1>4, ReadKeepsInv DEF ChallengeTotp
<1>5. CASE SignedIn(d) \/ DeviceBreaksOff(d)
  <2>1. device'[d] = NoDevice => CallIsRight(d)'
    BY <1>0 DEF CallIsRight
  <2> QED
    BY <2>1, <1>0, <1>5, ReadKeepsInv DEF SignedIn, DeviceBreaksOff
<1>6. CASE FederatedLogin(d)
  <2> DEFINE rec == [NoDevice EXCEPT !.pc = "in", !.via = "federated"]
  <2>1. rec \in Device /\ rec.pc = "in" /\ rec.via = "federated" /\ rec.read.codes = {}
    BY <1>0 DEF Device, NoDevice, NoMfa, Via
  <2>2. device'[d] = rec => CallIsRight(d)'
    BY <2>1 DEF CallIsRight
  <2> QED
    BY <1>0, <2>1, <2>2, <1>6, ReadKeepsInv DEF FederatedLogin
<1> QED
  BY <1>1, <1>2, <1>3, <1>4, <1>5, <1>6

LEMMA PendingExpiresStep == SecondFactorInv /\ PendingExpires => SecondFactorInv'
<1> SUFFICES ASSUME SecondFactorInv, PendingExpires PROVE SecondFactorInv'
  OBVIOUS
<1>1. pending' \in {"none", "out"}
  BY DEF PendingExpires
<1>2. SecondFactorTypeOK'
  BY <1>1 DEF PendingExpires, SecondFactorInv, SecondFactorTypeOK
<1>3. \A d \in Devices : CallIsRight(d)'
  BY DEF PendingExpires, SecondFactorInv, CallIsRight, Applies
<1>4. NumbersAreFresh' /\ ListsDiffer' /\ SpentIsGone' /\ EnabledIsConfirmed'
  BY DEF PendingExpires, SecondFactorInv, NumbersAreFresh, Seen, Unwritten, ListsDiffer, SpentIsGone, EnabledIsConfirmed
<1> QED
  BY <1>2, <1>3, <1>4 DEF SecondFactorInv

\* A call reads the row and remembers it.
LEMMA RowReads ==
    ASSUME SecondFactorInv, NEW d \in Devices, EnableRead(d) \/ \E k \in Codes : ChallengeCode(d, k)
    PROVE  SecondFactorInv'
<1>0. mfa \in Mfa /\ NoDevice \in Device /\ pending \in {"none", "out"}
  BY NothingIsTyped DEF SecondFactorInv, SecondFactorTypeOK
<1>1. CASE EnableRead(d)
  <2> DEFINE rec == [NoDevice EXCEPT !.pc = "enable", !.read = mfa]
  <2>1. rec \in Device /\ rec.pc = "enable" /\ rec.read = mfa
    BY <1>0 DEF Device, NoDevice, Via
  <2>2. device'[d] = rec => CallIsRight(d)'
    BY <2>1, <1>1 DEF EnableRead, CallIsRight
  <2> QED
    BY <1>0, <2>1, <2>2, <1>1, ReadKeepsInv DEF EnableRead
<1>2. CASE \E k \in Codes : ChallengeCode(d, k)
  <2>1. PICK k \in Codes : ChallengeCode(d, k)
    BY <1>2
  <2> DEFINE rec == [NoDevice EXCEPT !.pc = "useCode", !.read = mfa, !.code = k]
  <2>2. rec \in Device /\ rec.pc = "useCode" /\ rec.read = mfa /\ rec.code = k
    BY <1>0 DEF Device, NoDevice, Via
  <2>3. Steps(d, rec) /\ UNCHANGED <<mfa, required, generated, pending, spent, revived, confirmed>>
    BY <2>1, Zenon DEF ChallengeCode
  <2>4. k \in mfa.codes
    BY <2>1, Zenon DEF ChallengeCode
  <2> HIDE DEF rec
  <2>5. device'[d] = rec => CallIsRight(d)'
    BY <2>2, <2>3, <2>4 DEF CallIsRight
  <2>6. rec.read.codes \subseteq mfa.codes
    BY <2>2
  <2> QED
    BY <1>0, <2>2, <2>3, <2>5, <2>6, ReadKeepsInv
<1> QED
  BY <1>1, <1>2

\* The row changes, and call d ends with it.
LEMMA CallsAfterWrite ==
    ASSUME SecondFactorInv, NEW d \in Devices, Steps(d, NoDevice), generated' \in Nat, generated <= generated'
    PROVE  /\ device' \in [Devices -> Device] /\ device'[d] = NoDevice
           /\ ~Unwritten(d)' /\ device'[d].read.codes = {}
           /\ \A x \in Devices : CallIsRight(x)'
           /\ \A x \in Devices \ {d} : /\ device'[x].pc = device[x].pc
                                       /\ device'[x].read = device[x].read
                                       /\ device'[x].code = device[x].code
<1>1. NoDevice \in Device /\ NoDevice.pc = "idle" /\ NoDevice.read.codes = {}
  BY NothingIsTyped DEF NoDevice, NoMfa
<1>2. device'[d] = NoDevice => CallIsRight(d)'
  BY <1>1 DEF CallIsRight
<1> HIDE DEF NoDevice
<1> QED
  BY <1>1, <1>2, StepsAreRight DEF Unwritten

LEMMA EnableWriteStep ==
    ASSUME SecondFactorInv, NEW d \in Devices, EnableWrite(d)
    PROVE  SecondFactorInv'
<1>1. /\ mfa \in Mfa /\ device[d] \in Device /\ CallIsRight(d) /\ generated' = generated /\ generated \in Nat
      /\ mfa.secret # 0 /\ device[d].pc = "enable"
  BY SecondFactorAssumption DEF EnableWrite, At, SecondFactorInv, SecondFactorTypeOK, SecondFactorAssumption
<1>2. /\ mfa' \in Mfa /\ mfa'.codes = mfa.codes /\ mfa'.secret = mfa.secret
  BY <1>1 DEF EnableWrite, Mfa
<1>3. confirmed' \subseteq 1..MaxSecrets /\ mfa.secret \in confirmed'
  BY <1>1, SecondFactorAssumption DEF EnableWrite, CallIsRight, Device, Mfa, SecondFactorInv, SecondFactorTypeOK, SecondFactorAssumption
<1>4. /\ device' \in [Devices -> Device] /\ device'[d] = NoDevice
      /\ ~Unwritten(d)' /\ device'[d].read.codes = {}
      /\ \A x \in Devices : CallIsRight(x)'
      /\ \A x \in Devices \ {d} : /\ device'[x].pc = device[x].pc
                                  /\ device'[x].read = device[x].read
                                  /\ device'[x].code = device[x].code
  BY <1>1, CallsAfterWrite DEF EnableWrite
<1>5. SecondFactorTypeOK' /\ EnabledIsConfirmed'
  BY <1>2, <1>3, <1>4 DEF EnableWrite, SecondFactorInv, SecondFactorTypeOK, EnabledIsConfirmed
<1> QED
  BY <1>2, <1>4, <1>5, NoNewCodes DEF EnableWrite, Unwritten

LEMMA DisableStep ==
    ASSUME SecondFactorInv, NEW d \in Devices, Disable(d)
    PROVE  SecondFactorInv'
<1>1. generated' = generated /\ generated \in Nat
  BY SecondFactorAssumption DEF Disable, SecondFactorInv, SecondFactorTypeOK, SecondFactorAssumption
<1>2. mfa' \in Mfa /\ mfa'.codes \subseteq mfa.codes /\ (mfa' = mfa \/ ~mfa'.enabled)
  <2>1. CASE mfa' = NoMfa
    BY <2>1, NothingIsTyped DEF NoMfa
  <2>2. CASE mfa' = mfa
    BY <2>2 DEF SecondFactorInv, SecondFactorTypeOK
  <2> QED
    BY <2>1, <2>2 DEF Disable
<1>3. /\ device' \in [Devices -> Device] /\ device'[d] = NoDevice
      /\ ~Unwritten(d)' /\ device'[d].read.codes = {}
      /\ \A x \in Devices : CallIsRight(x)'
      /\ \A x \in Devices \ {d} : /\ device'[x].pc = device[x].pc
                                  /\ device'[x].read = device[x].read
                                  /\ device'[x].code = device[x].code
  BY <1>1, CallsAfterWrite DEF Disable
<1>4. SecondFactorTypeOK' /\ EnabledIsConfirmed'
  BY <1>2, <1>3 DEF Disable, SecondFactorInv, SecondFactorTypeOK, EnabledIsConfirmed
<1> QED
  BY <1>2, <1>3, <1>4, NoNewCodes DEF Disable, Unwritten

LEMMA RequiredStep ==
    ASSUME SecondFactorInv, NEW b \in BOOLEAN, SetRequired(b)
    PROVE  SecondFactorInv'
<1>1. generated' = generated /\ generated \in Nat /\ \A x \in Devices : device'[x] = Noted(x)
  BY SecondFactorAssumption DEF SetRequired, SecondFactorInv, SecondFactorTypeOK, SecondFactorAssumption
<1>2. \A x \in Devices : /\ Noted(x) \in Device
                         /\ device'[x].pc = device[x].pc
                         /\ device'[x].read = device[x].read
                         /\ device'[x].code = device[x].code
                         /\ CallIsRight(x)'
  BY <1>1, NotedIsRight
<1>3. SecondFactorTypeOK' /\ EnabledIsConfirmed'
  BY <1>2 DEF SetRequired, SecondFactorInv, SecondFactorTypeOK, EnabledIsConfirmed
<1> QED
  BY <1>2, <1>3, NoNewCodes DEF SetRequired, Unwritten

\* A new list has a number higher than all before it.
LEMMA SetupStep ==
    ASSUME SecondFactorInv, NEW d \in Devices, Setup(d)
    PROVE  SecondFactorInv'
<1> DEFINE g == generated + 1
<1>1. generated \in Nat /\ g \in 1..MaxSecrets /\ generated' = g
  BY SecondFactorAssumption DEF Setup, SecondFactorInv, SecondFactorTypeOK, SecondFactorAssumption
<1>2. mfa' \in Mfa /\ mfa'.codes = ListOf(g) /\ ~mfa'.enabled
  BY <1>1, ListsAreTyped DEF Setup, NewRow, Mfa
<1>3. /\ device' \in [Devices -> Device] /\ device'[d] = NoDevice
      /\ ~Unwritten(d)' /\ device'[d].read.codes = {}
      /\ \A x \in Devices : CallIsRight(x)'
      /\ \A x \in Devices \ {d} : /\ device'[x].pc = device[x].pc
                                  /\ device'[x].read = device[x].read
                                  /\ device'[x].code = device[x].code
  BY <1>1, CallsAfterWrite DEF Setup
<1>4. SecondFactorTypeOK' /\ EnabledIsConfirmed'
  BY <1>1, <1>2, <1>3 DEF Setup, SecondFactorInv, SecondFactorTypeOK, EnabledIsConfirmed
<1>5. \A k \in Codes : Seen(k)' => Seen(k) \/ k \in ListOf(g)
  BY <1>2, <1>3 DEF Setup, Seen
<1>6. \A x \in Devices : Unwritten(x)' =>
         Unwritten(x) /\ device'[x].code = device[x].code /\ device[x].code[1] \in 1..generated
  BY <1>3 DEF Unwritten, SecondFactorInv, CallIsRight
<1>7. NumbersAreFresh'
  <2> SUFFICES ASSUME NEW k \in Codes, Seen(k)'
               PROVE  k[1] <= g /\ \A x \in Devices : Unwritten(x)' => device'[x].code[1] # k[1]
    BY <1>1 DEF NumbersAreFresh
  <2>1. CASE Seen(k)
    <3>1. k[1] <= generated /\ \A x \in Devices : Unwritten(x) => device[x].code[1] # k[1]
      BY <2>1 DEF SecondFactorInv, NumbersAreFresh
    <3>2. k[1] \in Nat
      BY SecondFactorAssumption DEF Codes, SecondFactorAssumption
    <3> QED
      BY <3>1, <3>2, <1>1, <1>6
  <2>2. CASE k \in ListOf(g)
    BY <2>2, <1>1, <1>6, ListsAreTyped
  <2> QED
    BY <2>1, <2>2, <1>5
<1>8. ListsDiffer'
  BY <1>6 DEF SecondFactorInv, ListsDiffer
<1>9. SpentIsGone'
  <2>1. \A k \in spent : k \in Codes /\ k[1] <= generated
    BY DEF SecondFactorInv, SecondFactorTypeOK, NumbersAreFresh, Seen
  <2>2. \A k \in spent : k \notin ListOf(g)
    BY <2>1, <1>1, ListsAreTyped
  <2> QED
    BY <2>2, <1>2 DEF Setup, SpentIsGone
<1> QED
  BY <1>3, <1>4, <1>7, <1>8, <1>9 DEF SecondFactorInv

LEMMA RegenerateReadStep ==
    ASSUME SecondFactorInv, NEW d \in Devices, RegenerateRead(d)
    PROVE  SecondFactorInv'
<1> DEFINE g == generated + 1
           rec == [NoDevice EXCEPT !.pc = "regenerate", !.code = <<g, 1>>]
<1>1. generated \in Nat /\ g \in 1..MaxSecrets /\ generated' = g
  BY SecondFactorAssumption DEF RegenerateRead, SecondFactorInv, SecondFactorTypeOK, SecondFactorAssumption
<1>2. /\ rec \in Device /\ rec.pc = "regenerate" /\ rec.code = <<g, 1>> /\ <<g, 1>> \in Codes
      /\ rec.read.codes = {}
  <2>1. <<g, 1>> \in Codes
    BY <1>1, SecondFactorAssumption DEF Codes, SecondFactorAssumption
  <2>2. NoDevice \in Device /\ NoDevice.read.codes = {}
    BY NothingIsTyped DEF NoDevice, NoMfa
  <2> QED
    BY <2>1, <2>2 DEF Device
<1>3. device'[d] = rec => CallIsRight(d)'
  BY <1>1, <1>2 DEF CallIsRight
<1>4. Steps(d, rec)
  BY <1>1 DEF RegenerateRead
<1>5. /\ device' \in [Devices -> Device] /\ device'[d] = rec
      /\ \A x \in Devices : CallIsRight(x)'
      /\ \A x \in Devices \ {d} : /\ device'[x].pc = device[x].pc
                                  /\ device'[x].read = device[x].read
                                  /\ device'[x].code = device[x].code
  BY <1>1, <1>2, <1>3, <1>4, StepsAreRight
<1> HIDE DEF rec
<1>6. SecondFactorTypeOK' /\ EnabledIsConfirmed' /\ SpentIsGone'
  BY <1>1, <1>5 DEF RegenerateRead, SecondFactorInv, SecondFactorTypeOK, EnabledIsConfirmed, SpentIsGone
<1>7. \A k : Seen(k)' => Seen(k)
  BY <1>2, <1>5 DEF RegenerateRead, Seen
<1>8. \A x \in Devices \ {d} : Unwritten(x)' =>
         Unwritten(x) /\ device'[x].code = device[x].code /\ device[x].code[1] \in 1..generated
  BY <1>5 DEF Unwritten, SecondFactorInv, CallIsRight
<1>9. device'[d].code[1] = g
  BY <1>2, <1>5
<1>10. NumbersAreFresh'
  <2> SUFFICES ASSUME NEW k \in Codes, Seen(k)'
               PROVE  k[1] <= g /\ \A x \in Devices : Unwritten(x)' => device'[x].code[1] # k[1]
    BY <1>1 DEF NumbersAreFresh
  <2>1. k[1] <= generated /\ \A x \in Devices : Unwritten(x) => device[x].code[1] # k[1]
    BY <1>7 DEF SecondFactorInv, NumbersAreFresh
  <2>2. k[1] \in Nat
    BY SecondFactorAssumption DEF Codes, SecondFactorAssumption
  <2> QED
    BY <2>1, <2>2, <1>1, <1>8, <1>9
<1>11. ListsDiffer'
  <2> SUFFICES ASSUME NEW x \in Devices, NEW y \in Devices, Unwritten(x)', Unwritten(y)', x # y
               PROVE  device'[x].code[1] # device'[y].code[1]
    BY DEF ListsDiffer
  <2>1. CASE x # d /\ y # d
    BY <2>1, <1>8 DEF SecondFactorInv, ListsDiffer
  <2>2. CASE x = d \/ y = d
    BY <2>2, <1>1, <1>8, <1>9
  <2> QED
    BY <2>1, <2>2
<1> QED
  BY <1>5, <1>6, <1>10, <1>11 DEF SecondFactorInv

\* The list that is written has a number no code seen before has.
LEMMA RegenerateWriteStep ==
    ASSUME SecondFactorInv, NEW d \in Devices, RegenerateWrite(d)
    PROVE  SecondFactorInv'
<1> DEFINE g == device[d].code[1]
<1>1. /\ generated \in Nat /\ generated <= MaxSecrets /\ g \in 1..generated /\ generated' = generated
      /\ Unwritten(d)
  BY SecondFactorAssumption DEF RegenerateWrite, At, Unwritten, CallIsRight, SecondFactorInv, SecondFactorTypeOK, SecondFactorAssumption
<1>2. g \in 1..MaxSecrets
  BY <1>1, SecondFactorAssumption DEF SecondFactorAssumption
<1>3. /\ mfa' \in Mfa /\ mfa'.codes = ListOf(g)
      /\ mfa'.enabled = mfa.enabled /\ mfa'.secret = mfa.secret
  BY <1>2, ListsAreTyped DEF RegenerateWrite, Mfa, SecondFactorInv, SecondFactorTypeOK
<1>4. /\ device' \in [Devices -> Device] /\ device'[d] = NoDevice
      /\ ~Unwritten(d)' /\ device'[d].read.codes = {}
      /\ \A x \in Devices : CallIsRight(x)'
      /\ \A x \in Devices \ {d} : /\ device'[x].pc = device[x].pc
                                  /\ device'[x].read = device[x].read
                                  /\ device'[x].code = device[x].code
  BY <1>1, CallsAfterWrite DEF RegenerateWrite
<1>5. SecondFactorTypeOK' /\ EnabledIsConfirmed'
  BY <1>3, <1>4 DEF RegenerateWrite, SecondFactorInv, SecondFactorTypeOK, EnabledIsConfirmed
<1>6. \A k \in Codes : Seen(k)' => Seen(k) \/ k \in ListOf(g)
  BY <1>3, <1>4 DEF RegenerateWrite, Seen
<1>7. \A x \in Devices : Unwritten(x)' => x # d /\ Unwritten(x) /\ device'[x].code = device[x].code
  BY <1>4 DEF Unwritten
<1>8. NumbersAreFresh'
  <2> SUFFICES ASSUME NEW k \in Codes, Seen(k)'
               PROVE  k[1] <= generated /\ \A x \in Devices : Unwritten(x)' => device'[x].code[1] # k[1]
    BY <1>1 DEF NumbersAreFresh
  <2>1. CASE Seen(k)
    BY <2>1, <1>7 DEF SecondFactorInv, NumbersAreFresh
  <2>2. CASE k \in ListOf(g)
    <3>1. k[1] = g
      BY <2>2, <1>2, ListsAreTyped
    <3>2. \A x \in Devices : x # d /\ Unwritten(x) => device[x].code[1] # g
      BY <1>1 DEF SecondFactorInv, ListsDiffer
    <3> QED
      BY <3>1, <3>2, <1>1, <1>7
  <2> QED
    BY <2>1, <2>2, <1>6
<1>9. ListsDiffer'
  BY <1>7 DEF SecondFactorInv, ListsDiffer
<1>10. SpentIsGone'
  <2>1. \A k \in spent : k \in Codes /\ k[1] # g
    BY <1>1 DEF SecondFactorInv, SecondFactorTypeOK, NumbersAreFresh, Seen
  <2>2. \A k \in spent : k \notin ListOf(g)
    BY <2>1, <1>2, ListsAreTyped
  <2> QED
    BY <2>2, <1>3 DEF RegenerateWrite, SpentIsGone
<1> QED
  BY <1>4, <1>5, <1>8, <1>9, <1>10 DEF SecondFactorInv

\* The list that is written back was read; what it puts back is counted revived.
LEMMA UseCodeStep ==
    ASSUME SecondFactorInv, NEW d \in Devices, UseCode(d)
    PROVE  SecondFactorInv'
<1> DEFINE rec == [device[d] EXCEPT !.pc = "in", !.via = "password", !.proof = "code", !.read = NoMfa]
<1>1. /\ generated \in Nat /\ generated' = generated
      /\ device[d] \in Device /\ device[d].pc = "useCode" /\ device[d].code \in device[d].read.codes
      /\ device[d].read \in Mfa /\ mfa \in Mfa
  BY SecondFactorAssumption DEF UseCode, At, CallIsRight, SecondFactorInv, SecondFactorTypeOK, SecondFactorAssumption, Device
<1>2. rec \in Device /\ rec.pc = "in" /\ rec.proof = "code" /\ rec.read.codes = {}
  BY <1>1, NothingIsTyped DEF Device, NoMfa, Via
<1>3. Steps(d, rec)
  BY DEF UseCode
<1>4. device'[d] = rec => CallIsRight(d)'
  BY <1>2 DEF CallIsRight
<1>5. /\ device' \in [Devices -> Device] /\ device'[d] = rec
      /\ \A x \in Devices : CallIsRight(x)'
      /\ \A x \in Devices \ {d} : /\ device'[x].pc = device[x].pc
                                  /\ device'[x].read = device[x].read
                                  /\ device'[x].code = device[x].code
  BY <1>1, <1>2, <1>3, <1>4, StepsAreRight
<1>6. /\ mfa' \in Mfa /\ mfa'.codes = device[d].read.codes \ {device[d].code}
      /\ mfa'.enabled = mfa.enabled /\ mfa'.secret = mfa.secret
      /\ spent' = spent \cup {device[d].code}
      /\ revived' = revived \cup (mfa'.codes \ mfa.codes)
      /\ device[d].read.codes \subseteq Codes
  BY <1>1 DEF UseCode, CodesLeft, Mfa
<1> HIDE DEF rec
<1>7. SecondFactorTypeOK' /\ EnabledIsConfirmed'
  BY <1>1, <1>5, <1>6 DEF UseCode, SecondFactorInv, SecondFactorTypeOK, EnabledIsConfirmed
<1>8. \A k : Seen(k)' => Seen(k)
  BY <1>1, <1>2, <1>5, <1>6 DEF Seen
<1>9. \A x \in Devices : Unwritten(x)' => Unwritten(x) /\ device'[x].code = device[x].code
  BY <1>2, <1>5 DEF Unwritten
<1>10. NumbersAreFresh'
  BY <1>1, <1>8, <1>9 DEF SecondFactorInv, NumbersAreFresh
<1>11. ListsDiffer'
  BY <1>9 DEF SecondFactorInv, ListsDiffer
<1>12. SpentIsGone'
  BY <1>6 DEF SecondFactorInv, SpentIsGone
<1> QED
  BY <1>5, <1>7, <1>10, <1>11, <1>12 DEF SecondFactorInv

LEMMA SecondFactorStepInv == SecondFactorInv /\ [SecondFactorNext]_secondFactorVars => SecondFactorInv'
<1> SUFFICES ASSUME SecondFactorInv, [SecondFactorNext]_secondFactorVars PROVE SecondFactorInv'
  OBVIOUS
<1>1. CASE UNCHANGED secondFactorVars
  BY <1>1 DEF secondFactorVars, SecondFactorInv, SecondFactorTypeOK, CallIsRight, Applies, NumbersAreFresh, Seen, Unwritten,
     ListsDiffer, SpentIsGone, EnabledIsConfirmed
<1>2. CASE SecondFactorNext
  BY <1>2, SetupStep, RowReads, EnableWriteStep, DisableStep, RegenerateReadStep, RegenerateWriteStep,
     FactorLoginSteps, PendingExpiresStep, UseCodeStep, RequiredStep DEF SecondFactorNext
<1> QED
  BY <1>1, <1>2

LEMMA SecondFactorSpecInv == SecondFactorSpec => []SecondFactorInv
BY SecondFactorInitInv, SecondFactorStepInv, PTL DEF SecondFactorSpec

----------------------------------------------------------------------------

\* The row, the calls and the codes they hold keep their types.
THEOREM SecondFactorTypes == SecondFactorSpec => []SecondFactorTypeOK
<1>1. SecondFactorInv => SecondFactorTypeOK
  BY DEF SecondFactorInv
<1> QED
  BY <1>1, SecondFactorSpecInv, PTL

\* Of the tokens a password leads to, those that open a route with required roles
\* were signed after the second factor was given, or for a sign-in it did not
\* apply to at some moment, although loginPassword reads the company before the
\* row of the factor and the two change in between.  The token of a challenge is
\* no exception: verifyToken takes it, but RolesGuard finds no role in it.
THEOREM FactorIsAsked == SecondFactorSpec => []NoWayAroundTheFactor
<1>1. SecondFactorInv => NoWayAroundTheFactor
  <2> SUFFICES ASSUME SecondFactorInv, NEW t \in Bearers, t.via = "password", LetsThrough(t, TRUE)
               PROVE  t.passed
    BY DEF NoWayAroundTheFactor
  <2>1. t.hasRole
    BY DEF LetsThrough
  <2>2. PICK d \in Devices : /\ device[d].pc = "in"
                             /\ t.via = device[d].via
                             /\ t.passed = (device[d].proof # "none" \/ device[d].waived)
    BY <2>1 DEF Bearers, At
  <2> QED
    BY <2>2 DEF SecondFactorInv, CallIsRight
<1> QED
  BY <1>1, SecondFactorSpecInv, PTL

\* A secret is enabled without its code having been shown only when the row was
\* written between the check and the update of verifyAndEnableMfa.
THEOREM EnabledWasShown == SecondFactorSpec => []EnabledIsConfirmed
<1>1. SecondFactorInv => EnabledIsConfirmed
  BY DEF SecondFactorInv
<1> QED
  BY <1>1, SecondFactorSpecInv, PTL

\* The lost update of the list of backup codes is the only way one is accepted
\* twice: otherwise a used code is in no list, whatever is set up or regenerated.
THEOREM CodesWorkOnce == SecondFactorSpec => CodeWorksOnce
<1>1. SecondFactorInv => [\A d \in Devices : At(d, "useCode") /\ device'[d].pc = "in" /\ device[d].code \in spent =>
                 device[d].crossed \/ device[d].code \in revived]_secondFactorVars
  BY DEF SecondFactorInv, CallIsRight, SpentIsGone, At
<1> QED
  BY <1>1, SecondFactorSpecInv, PTL DEF SecondFactorSpec, CodeWorksOnce
=============================================================================
