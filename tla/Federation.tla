----------------------------- MODULE Federation -----------------------------
(***************************************************************************)
(* Sign-in through a company's own identity provider:                      *)
(* OidcFederationService and its controller.  One person signs in; the     *)
(* provider rows may be changed, renamed, deleted and created again while  *)
(* logins are under way.  The state parameter is a signed token and the    *)
(* server keeps nothing of a login; the app keeps state, code and verifier *)
(* of a login together.  The provider's own part is external: a code is    *)
(* good once, for the client it was asked for with, and may be refused for *)
(* other reasons (a redirect URI that is not the one of the request).      *)
(***************************************************************************)
EXTENDS Naturals

CONSTANTS Hosts,     \* companies
          Names,     \* names of providers
          Offers,    \* pairs of a company and a name a provider may have, a bound
          Clients,   \* clientIds registered with identity providers
          Welcome,   \* companies without a domain, or with the domain of the person's address
          Logins,    \* logins that may be begun, a bound
          Returns,   \* callbacks under way at the same time
          Nowhere

ASSUME FederationAssumption ==
    /\ Offers \subseteq Hosts \X Names
    /\ Welcome \subseteq Hosts
    /\ Nowhere \notin Hosts \cup Names \cup Clients \cup Logins

VARIABLES provider,  \* the OidcProvider rows (@@unique companyId, name)
          person,    \* the User row of the person's address in a company
          login,     \* logins as the app and the provider know them
          return,    \* the callbacks
          admitted   \* sessions given out

federationVars == <<provider, person, login, return, admitted>>

Provider == [status : {"none", "active", "inactive"}, client : Clients \cup {Nowhere}]
NoProvider == [status |-> "none", client |-> Nowhere]

Login == [state : {"none", "good", "expired"}, host : Hosts \cup {Nowhere}, name : Names \cup {Nowhere},
          client : Clients \cup {Nowhere}, code : {"none", "issued", "used"}]
NoLogin == [state |-> "none", host |-> Nowhere, name |-> Nowhere, client |-> Nowhere,
            code |-> "none"]

\* client: of the provider as read; was: the provider's row when the callback
\* came in, a history.
Return == [pc : {"idle", "exchange", "lookup", "create", "issue"}, login : Logins \cup {Nowhere},
           host : Hosts \cup {Nowhere}, name : Names \cup {Nowhere},
           client : Clients \cup {Nowhere}, was : Provider]
NoReturn == [pc |-> "idle", login |-> Nowhere, host |-> Nowhere, name |-> Nowhere,
             client |-> Nowhere, was |-> NoProvider]

Admission == [login : Logins, host : Hosts, name : Names, was : Provider]

FederationTypeOK == /\ provider \in [Offers -> Provider]
                    /\ person \in [Hosts -> {"none", "active", "inactive"}]
                    /\ login \in [Logins -> Login]
                    /\ return \in [Returns -> Return]
                    /\ admitted \subseteq Admission

FederationInit == /\ provider = [o \in Offers |-> NoProvider]
                  /\ person = [h \in Hosts |-> "none"]
                  /\ login = [l \in Logins |-> NoLogin]
                  /\ return = [c \in Returns |-> NoReturn]
                  /\ admitted = {}

----------------------------------------------------------------------------
(* Providers.  The check of createProvider for the name repeats what the      *)
(* unique index enforces, so check and create are one step.                   *)

CreateProvider(o, k) ==
    /\ provider[o].status = "none"
    /\ provider' = [provider EXCEPT ![o] = [status |-> "active", client |-> k]]
    /\ UNCHANGED <<person, login, return, admitted>>

\* updateProvider: any of name, client and active; a name that is taken throws.
UpdateProvider(o, p, k, status) ==
    /\ provider[o].status # "none"
    /\ o[1] = p[1]
    /\ o # p => provider[p].status = "none"
    /\ provider' = [provider EXCEPT ![o] = NoProvider, ![p] = [status |-> status, client |-> k]]
    /\ provider' # provider
    /\ UNCHANGED <<person, login, return, admitted>>

DeleteProvider(o) ==
    /\ provider[o].status # "none"
    /\ provider' = [provider EXCEPT ![o] = NoProvider]
    /\ UNCHANGED <<person, login, return, admitted>>

\* What administrators, invitations and SCIM do to the person's account.
PersonChanges(h, status) ==
    /\ h \in Welcome  \* a bound: the account elsewhere is never looked at
    /\ person[h] # status
    /\ person' = [person EXCEPT ![h] = status]
    /\ UNCHANGED <<provider, login, return, admitted>>

----------------------------------------------------------------------------
(* A login *)

\* initiateOidcLogin: the active provider of that name; the state names both.
Initiate(l, o) ==
    /\ login[l] = NoLogin
    /\ provider[o].status = "active"
    /\ login' = [login EXCEPT ![l] = [state |-> "good", host |-> o[1], name |-> o[2],
                                      client |-> provider[o].client, code |-> "none"]]
    /\ UNCHANGED <<provider, person, return, admitted>>

\* External: the person signs in at the provider.
Authorize(l) ==
    /\ login[l].state # "none" /\ login[l].code = "none"
    /\ login' = [login EXCEPT ![l].code = "issued"]
    /\ UNCHANGED <<provider, person, return, admitted>>

\* Ten minutes pass.
StateExpires(l) ==
    /\ login[l].state = "good"
    /\ login' = [login EXCEPT ![l].state = "expired"]
    /\ UNCHANGED <<provider, person, return, admitted>>

\* Mutants: the state is not compared with the company, or the callback goes on
\* with the client the login was begun with.
StateMatchesName(l, o) == login[l].state = "good" /\ login[l].name = o[2]
ClientAtInitiate(l, o) == login[l].client

StateMatches(l, o) ==
    login[l].state = "good" /\ login[l].host = o[1] /\ login[l].name = o[2]

\* The client of the provider as it is now, with which the code is exchanged
\* and the audience of the identity token compared.
ClientAtCallback(l, o) == provider[o].client

\* handleOidcCallback: the state, then the active provider.
Callback(c, l, o) ==
    /\ return[c] = NoReturn
    /\ login[l].code # "none"
    /\ StateMatches(l, o)
    /\ provider[o].status = "active"
    /\ return' = [return EXCEPT ![c] = [pc |-> "exchange", login |-> l, host |-> o[1], name |-> o[2],
                                        client |-> ClientAtCallback(l, o), was |-> provider[o]]]
    /\ UNCHANGED <<provider, person, login, admitted>>

\* verifyIdToken: the audience of the identity token is the client the code was
\* asked for with.
AudienceMatches(c) == login[return[c].login].client = return[c].client

\* The exchange, always with the registered redirect URI, and the checks of the
\* identity token it brings.
Exchange(c) ==
    LET l == return[c].login IN
    /\ return[c].pc = "exchange"
    /\ login[l].code = "issued"
    /\ AudienceMatches(c)
    /\ login' = [login EXCEPT ![l].code = "used"]
    /\ return' = [return EXCEPT ![c].pc = "lookup"]
    /\ UNCHANGED <<provider, person, admitted>>

\* The domain of the company, then the account: none, or an active one.
FindUser(c) ==
    LET h == return[c].host IN
    /\ return[c].pc = "lookup"
    /\ h \in Welcome
    /\ person[h] # "inactive"
    /\ return' = [return EXCEPT ![c].pc = IF person[h] = "none" THEN "create" ELSE "issue"]
    /\ UNCHANGED <<provider, person, login, admitted>>

\* A row created meanwhile makes the create throw.
CreateUser(c) ==
    LET h == return[c].host IN
    /\ return[c].pc = "create"
    /\ person[h] = "none"
    /\ person' = [person EXCEPT ![h] = "active"]
    /\ return' = [return EXCEPT ![c].pc = "issue"]
    /\ UNCHANGED <<provider, login, admitted>>

\* The token pair; what follows is the module Sessions.
Admit(c) ==
    /\ return[c].pc = "issue"
    /\ admitted' = admitted \cup {[login |-> return[c].login, host |-> return[c].host,
                                   name |-> return[c].name, was |-> return[c].was]}
    /\ return' = [return EXCEPT ![c] = NoReturn]
    /\ UNCHANGED <<provider, person, login>>

\* Any of the checks fails, the provider cannot be reached, the process ends.
ReturnFails(c) ==
    /\ return[c].pc # "idle"
    /\ return' = [return EXCEPT ![c] = NoReturn]
    /\ UNCHANGED <<provider, person, login, admitted>>

FederationNext ==
    \/ \E o \in Offers :
          \/ \E k \in Clients : CreateProvider(o, k)
          \/ \E p \in Offers, k \in Clients, status \in {"active", "inactive"} : UpdateProvider(o, p, k, status)
          \/ DeleteProvider(o)
          \/ \E l \in Logins : Initiate(l, o)
          \/ \E l \in Logins, c \in Returns : Callback(c, l, o)
    \/ \E h \in Hosts, status \in {"active", "inactive"} : PersonChanges(h, status)
    \/ \E l \in Logins : Authorize(l) \/ StateExpires(l)
    \/ \E c \in Returns : Exchange(c) \/ FindUser(c) \/ CreateUser(c) \/ Admit(c) \/ ReturnFails(c)

FederationSpec == FederationInit /\ [][FederationNext]_federationVars

----------------------------------------------------------------------------
(* Properties *)

\* A login ends at the company and the provider it was begun at, although the
\* callback names both once more and providers of two companies may share a
\* client (handleOidcCallback's comparison with the state).
LoginStaysWhereItBegan ==
    \A s \in admitted : s.host = login[s.login].host /\ s.name = login[s.login].name

\* Nobody comes in by a provider that was withdrawn: when the callback came in,
\* the provider was active with the client the login was begun with, however it
\* was deactivated, renamed, deleted or replaced in between.
WithdrawnProviderAdmitsNobody ==
    \A s \in admitted : s.was.status = "active" /\ s.was.client = login[s.login].client
=============================================================================
