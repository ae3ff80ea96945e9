------------------------------- MODULE Tenancy -------------------------------
(***************************************************************************)
(* What keeps the calls of one company from the rows of another: the query *)
(* extension of ScopedPrismaService and the checks of the handlers that    *)
(* use it (RequestsService, DocumentsService, DepartmentsService,          *)
(* AdminService, CatalogController).  Every HTTP call has a store of its   *)
(* own (AsyncLocalStorage), which JwtGuard fills and the extension reads   *)
(* at each query; calls interleave at every await.                         *)
(*                                                                         *)
(* A row is known by its company.  The extension joins a condition to      *)
(* every find, update and delete these handlers make, except findUnique of *)
(* a request and the upsert of a membership, and it is missing altogether  *)
(* after a boot at which the database could not be reached.                *)
(***************************************************************************)
EXTENDS Naturals

CONSTANTS Tenants,   \* companies
          Callers,   \* calls under way at the same time
          NoTenant

ASSUME TenancyAssumption == NoTenant \notin Tenants

VARIABLES scoping,  \* the extension is installed
          store,    \* the store of a call
          caller,   \* the calls
          members,  \* <<t, u>>: an account of t is a member of a department of u
          astray    \* <<t, u>>: an account of t made or claimed a request of u

tenancyVars == <<scoping, store, caller, members, astray>>

\* home: the company of the account; named: the token names it (a refresh token
\* does not); admin: the role in it; rows: the companies of the rows found, and
\* once the call has answered of those it showed or changed.
Caller == [pc : {"none", "begun", "in", "document", "work", "cancel", "create", "user", "answered"},
           home : Tenants \cup {NoTenant}, named : BOOLEAN, admin : BOOLEAN, rows : SUBSET Tenants]
NoCaller == [pc |-> "none", home |-> NoTenant, named |-> FALSE, admin |-> FALSE, rows |-> {}]

TenancyTypeOK == /\ scoping \in BOOLEAN
                 /\ store \in [Callers -> Tenants \cup {NoTenant}]
                 /\ caller \in [Callers -> Caller]
                 /\ members \subseteq Tenants \X Tenants
                 /\ astray \subseteq Tenants \X Tenants

\* onModuleInit: installs the extension, unless $connect fails.  Registration,
\* invitations and SCIM make members of departments of the account's company.
TenancyInit == /\ scoping \in BOOLEAN
               /\ store = [c \in Callers |-> NoTenant]
               /\ caller = [c \in Callers |-> NoCaller]
               /\ members = {<<t, t>> : t \in Tenants}
               /\ astray = {}

----------------------------------------------------------------------------
(* The store and the extension *)

\* Mutant: one store for all calls.
StoreOfAll(c) == CHOOSE d \in Callers : TRUE

\* TenantContext.getStore() inside a call.
StoreOf(c) == c

\* The rows a query of the call can meet, where the extension joins its condition
\* or checks the company or the department that is given.
InScope(c) ==
    IF scoping /\ store[StoreOf(c)] # NoTenant THEN {store[StoreOf(c)]} ELSE Tenants

CallAt(c, pc) == caller[c].pc = pc

Goes(c, pc, rows) ==
    /\ caller' = [caller EXCEPT ![c] = [@ EXCEPT !.pc = pc, !.rows = rows]]
    /\ UNCHANGED <<scoping, store>>

\* TenantMiddleware: run() with a new store.
Arrive(c) ==
    /\ CallAt(c, "none")
    /\ caller' = [caller EXCEPT ![c].pc = "begun"]
    /\ store' = [store EXCEPT ![StoreOf(c)] = NoTenant]
    /\ UNCHANGED <<scoping, members, astray>>

\* JwtGuard: any token of an account of t, those with a role among them naming t.
Authenticate(c, t, named, admin) ==
    /\ CallAt(c, "begun")
    /\ admin => named
    /\ caller' = [caller EXCEPT ![c] = [pc |-> "in", home |-> t, named |-> named, admin |-> admin, rows |-> {}]]
    /\ store' = [store EXCEPT ![StoreOf(c)] = IF named THEN t ELSE NoTenant]
    /\ UNCHANGED <<scoping, members, astray>>

\* The answer is sent, or an error ends the call.
Depart(c) ==
    /\ ~CallAt(c, "none")
    /\ caller' = [caller EXCEPT ![c] = NoCaller]
    /\ UNCHANGED <<scoping, store, members, astray>>

\* The process ends and boots again.
Reboot ==
    /\ scoping' \in BOOLEAN
    /\ caller' = [c \in Callers |-> NoCaller]
    /\ UNCHANGED <<store, members, astray>>

----------------------------------------------------------------------------
(* Lists *)

\* The companies a condition companyId: user.companyId admits; one that is
\* undefined is none.
OfToken(c) == IF caller[c].named THEN {caller[c].home} ELSE Tenants

\* The companies with requests of the account, made and claimed alike, and those
\* with departments it is a member of.
TiedTo(c) == {caller[c].home} \cup {u \in Tenants : <<caller[c].home, u>> \in astray}
MemberAt(c) == {u \in Tenants : <<caller[c].home, u>> \in members}

Answers(c, rows) ==
    /\ Goes(c, "answered", rows \cap InScope(c))
    /\ UNCHANGED <<members, astray>>

\* listActive, getCatalog, listUsers, listDepartments
ListOfCompany(c) == CallAt(c, "in") /\ Answers(c, OfToken(c))

\* listMyRequests, listClaimed, getStats
ListOwn(c) == CallAt(c, "in") /\ Answers(c, TiedTo(c))

\* listDeptQueue: of one department of the company, of all, of the account's.
ListQueue(c) ==
    /\ CallAt(c, "in")
    /\ \/ caller[c].named /\ Answers(c, {caller[c].home})
       \/ caller[c].admin /\ Answers(c, Tenants)
       \/ ~caller[c].admin /\ Answers(c, MemberAt(c))

----------------------------------------------------------------------------
(* One request, found by its id whoever's it is *)

\* getRequest, upload, download and remove compare the companies themselves.
OwnCompany(c, t) == caller[c].named /\ t = caller[c].home

GetRequest(c, t) ==
    /\ CallAt(c, "in")
    /\ OwnCompany(c, t)
    /\ Goes(c, "answered", {t})
    /\ UNCHANGED <<members, astray>>

FindForDocument(c, t) ==
    /\ CallAt(c, "in")
    /\ OwnCompany(c, t)
    /\ Goes(c, "document", {t})
    /\ UNCHANGED <<members, astray>>

\* The rows of Document, by the id of the request.
UseDocument(c) == CallAt(c, "document") /\ Answers(c, caller[c].rows)

\* claimRequest and updateStatus ask isMemberOf, which an administrator is of
\* every department there is.
FindToWork(c, t) ==
    /\ CallAt(c, "in")
    /\ caller[c].admin \/ t \in MemberAt(c) \cap InScope(c)
    /\ Goes(c, "work", {t})
    /\ UNCHANGED <<members, astray>>

\* Their updateMany; one that updates no row answers with a conflict.
WorkOnRequest(c) ==
    LET met == caller[c].rows \cap InScope(c) IN
    /\ CallAt(c, "work")
    /\ Goes(c, "answered", met)
    /\ astray' = astray \cup ({caller[c].home} \X (met \ {caller[c].home}))
    /\ UNCHANGED members

\* cancelRequest compares the employee with the account.
FindToCancel(c, t) ==
    /\ CallAt(c, "in")
    /\ t \in TiedTo(c)
    /\ Goes(c, "cancel", {t})
    /\ UNCHANGED <<members, astray>>

CancelIt(c) == CallAt(c, "cancel") /\ Answers(c, caller[c].rows)

\* createRequest finds the department by its code and the company of the token;
\* the extension checks the department that is given to create.
FindDepartment(c, t) ==
    /\ CallAt(c, "in")
    /\ t \in OfToken(c) \cap InScope(c)
    /\ Goes(c, "create", {t})
    /\ UNCHANGED <<members, astray>>

CreateIt(c) ==
    /\ CallAt(c, "create")
    /\ caller[c].rows \subseteq InScope(c)
    /\ Goes(c, "answered", caller[c].rows)
    /\ astray' = astray \cup ({caller[c].home} \X (caller[c].rows \ {caller[c].home}))
    /\ UNCHANGED members

----------------------------------------------------------------------------
(* Administration *)

\* updateUser, deactivateUser, reactivateUser: findUnique of the whole row, which
\* the extension checks, and the comparison of the handler.
FindAccount(c, t) ==
    /\ CallAt(c, "in")
    /\ caller[c].admin
    /\ t \in InScope(c) /\ OwnCompany(c, t)
    /\ Goes(c, "user", {t})
    /\ UNCHANGED <<members, astray>>

\* The update of the account, and the upsert of its membership in a department
\* found by its code and the company of the token.
WriteAccount(c) ==
    /\ CallAt(c, "user")
    /\ caller[c].rows \subseteq InScope(c)
    /\ Goes(c, "answered", caller[c].rows \cup OfToken(c))
    /\ members' = members \cup (caller[c].rows \X OfToken(c))
    /\ UNCHANGED astray

TenancyNext ==
    \/ \E c \in Callers :
          \/ Arrive(c) \/ Depart(c)
          \/ \E t \in Tenants, named, admin \in BOOLEAN : Authenticate(c, t, named, admin)
          \/ ListOfCompany(c) \/ ListOwn(c) \/ ListQueue(c)
          \/ \E t \in Tenants :
                \/ GetRequest(c, t) \/ FindForDocument(c, t) \/ FindToWork(c, t)
                \/ FindToCancel(c, t) \/ FindDepartment(c, t) \/ FindAccount(c, t)
          \/ UseDocument(c) \/ WorkOnRequest(c) \/ CancelIt(c) \/ CreateIt(c) \/ WriteAccount(c)
    \/ Reboot

TenancySpec == TenancyInit /\ [][TenancyNext]_tenancyVars

----------------------------------------------------------------------------
(* Properties *)

\* A call with a token that names its company shows and changes rows of that
\* company only, whatever other calls arrive and authenticate between its guard
\* and its queries.  Without the extension the checks of the handlers do that
\* alone, but for administrators, whom claimRequest, updateStatus and the queue
\* of all departments do not check, and for requests an account made with a
\* token that names no company, or claimed as an administrator.
OwnRowsOnly ==
    \A c \in Callers : CallAt(c, "answered") /\ caller[c].named =>
        \A u \in caller[c].rows \ {caller[c].home} :
            ~scoping /\ (caller[c].admin \/ <<caller[c].home, u>> \in astray)
=============================================================================
