# A formal model of the Eurisko request backend

Eurisko is a multi-tenant service desk: a NestJS modular monolith over PostgreSQL (Prisma), with an
optional object store (S3/MinIO/R2) and an optional notification webhook. Employees of a company create
requests, agents of the owning department claim and resolve them, documents are attached to them and
purged after a retention time, every change is audited, and notifications go out through a durable outbox.

This directory holds TLA+ modules that model the core of that program, the TLC configurations that check
them, and TLAPS proofs. `PROJECT.json` lists components, runs, mutants, the lines each definition models,
findings, hazards and theorems. Paths such as `src/requests/requests.service.ts` below are relative to the
root of the repository.

## 1. Inventory

| Component | State it keeps | Operations | Talks to | What makes it hard | What makes it correct |
|---|---|---|---|---|---|
| Requests (`src/requests`) | `Request`, `AuditLog`, `NotificationEvent` rows | create, claim, update status, cancel; lists and counts | departments (membership), notifications (`emit` in the transaction, `fanout` after it), documents (a count) | checks on rows read before the write; a claim in three separate statements; calls that break off | one winner per claim, no forked history, every change on record, only legal transitions |
| Notifications (`src/notifications`) | outbox rows (`PENDING`, `SENT`, `FAILED`, attempts), inbox rows | `emit`, `fanout`, `deliverPendingEvents` (cron, every minute), `markRead`, `markAllRead` | webhook (HTTP, 10 s timeout) | runs that overlap, lost answers, counters computed from what was read, restarts | SENT means received, FAILED means tried often enough, every event is settled |
| Documents (`src/documents`) | `Document` rows with or without bytes, objects in the bucket | upload, download, remove, backfill at boot | object store, requests, audit | row and object change in separate steps; concurrent uploads; backfill against removal; storage outages | an active document has its content, an erased one has none |
| Retention (`src/retention`) | the same rows | `purgeExpiredDocuments` (cron, daily) | object store, audit | races with removal and backfill, a failure half-way | what expires is erased unless an upload replaced it, and only what expired |
| Departments (`src/departments`) | `DepartmentMember` | `isMemberOf`, `isManagerOf`, listing | requests, documents | membership changes between check and use | only members or admins act |
| Administration (`src/admin`) | `User.platformRole`, `User.active`, memberships | `updateUser`, `deactivateUser`, `reactivateUser` | sign-in | two admins at once; tokens that outlive a role | a company keeps an active admin |
| Sign-in and sessions (`src/auth/auth.service.ts`, `refresh-token.service.ts`) | `RefreshToken` rows, signed tokens | discover, password and Google login, MFA challenge, accept invite, refresh, logout | MFA, invitations, companies | tokens signed from rows read several awaits before; revocation outside the transaction that reactivates | a token carries a role the account had; a reactivated account keeps no old session; a token counts as reused only if it was used |
| MFA (`src/auth/mfa.service.ts`) | `MfaSecret` (and `User.mfaEnabled`, which nothing reads) | generate, enable, verify, disable, regenerate | sign-in | read-modify-write of the backup codes; check and enable in two statements; the rule and the row read at different times | no way around a factor that applies; an enabled secret was confirmed; a backup code works once |
| Invitations (`src/auth/invitation.service.ts`) | `Invitation` | create (replace), accept | email, users, departments, sessions | delete then create; two accepts; an accept against a new invitation | an invitation takes effect once, with what it grants, and is not lost when replaced |
| OIDC (`src/auth/oidc-federation.service.ts`) | `OidcProvider`, users | provider CRUD, login, callback | external provider | no state on the server; providers changed while logins are under way | a login ends where it began; a withdrawn provider admits nobody |
| Domains (`src/domains`) | `DomainVerification`, `Company.domain` | request, verify, status | DNS | expiry, two updates without a transaction | what is marked verified is controlled by the company and applied |
| SCIM (`src/scim`) | `User` | users create, update, delete (the group routes pass no company and write nothing) | sign-in | writes the same rows as administration | as administration |
| Companies (`src/companies`) | `Company`, default departments and types | register, settings, SSO settings | sign-in | check before the transaction; no constraint spans companies | one address, one company; accounts are provisioned by domain |
| Tenant scoping (`src/scoped-prisma.service.ts`, `tenant.middleware.ts`, `jwt.guard.ts`) | a store per call | fills the store, rewrites each query | every service | which store, when it is filled; whether the extension is there; which handlers rely on it alone | a call shows and changes rows of its own company only |
| Voice (`src/voice`) | temporary files | drafts from audio or text | external models, requests | made-up answers, a catalog that changes, failures around the file | a draft names what was offered; no recording stays behind |
| Catalog, email, legal, HTTP shell, schema | none | reads, I/O, static text, bootstrap | - | - | - |

**How the parts interact.** The API runs in Node.js: one call runs at a time between two `await`s, so calls
interleave at every database, storage or HTTP operation, and between processes when there are several.
Requests and documents share the `Request`, `Document` and `AuditLog` tables; both write outbox rows with
`emit` inside their transactions (the claim does so outside) and call `fanout` after the commit. Cron jobs
(`deliverPendingEvents`, `purgeExpiredDocuments`) and the backfill started by `onModuleInit` run next to the
calls, in the same process or another one.

Around that core stand the parts that decide who a caller is. `CompaniesService` creates companies and their
first administrator; invitations, SCIM, Google and OIDC sign-ins create further `User` rows, administration
changes them. Every sign-in ends in `issueTokenPair`; the access token carries the role of the row it was signed
from, `JwtGuard` looks at `User.active` again on every call and fills the call's store, and the query extension
of `ScopedPrismaService` reads that store. A recording becomes a draft by two external models and then goes through
`createRequest` like any other.

## 2. Modules

| Module | Models | Kind |
|---|---|---|
| `RequestStates` | what the request API promises about the rows alone | abstract specification |
| `RequestLifecycle` | `requests.service.ts`, `request-transitions.ts`, `emit` and `fanout`, `isMemberOf` | detailed specification, implements `RequestStates` |
| `MCRequestLifecycle` | constants and symmetry for TLC | model checking |
| `RequestLifecycleProofs` | theorems about `RequestLifecycle` | TLAPS |
| `DeliveryStates` | what the outbox promises about an event, without runs and counters | abstract specification |
| `NotificationOutbox` | `deliverPendingEvents` | detailed specification, implements `DeliveryStates` |
| `MCNotificationOutbox` | constants | model checking |
| `NotificationOutboxProofs` | theorems about `NotificationOutbox` | TLAPS |
| `DocumentStates` | what the document store promises about a document, without calls and jobs | abstract specification |
| `DocumentStore` | `documents.service.ts`, `retention.service.ts` and the bucket | detailed specification, implements `DocumentStates` |
| `MCDocumentStore` | constants and symmetry | model checking |
| `ServiceDesk` | one request of `RequestLifecycle` next to its documents of `DocumentStore` | composition, implements `RequestLifecycle` |
| `MCServiceDesk` | constants and symmetry | model checking |
| `Accounts` | `User`, `DepartmentMember` and `Invitation` rows: `invitation.service.ts`, `acceptInvite`, `admin.service.ts`, `scim.service.ts` | specification |
| `MCAccounts` | what invitations grant, symmetry | model checking |
| `Sessions` | `auth.service.ts` (sign-ins, token pair), `refresh-token.service.ts` | specification |
| `SecondFactor` | `mfa.service.ts` and its gate in `loginPassword` | specification |
| `Companies` | `companies.service.ts`, `domain-verification.service.ts`, the routing of `loginGoogle` | specification |
| `Federation` | `oidc-federation.service.ts` and its controller | specification |
| `Tenancy` | `scoped-prisma.service.ts`, `tenant.middleware.ts`, `jwt.guard.ts`, and the queries and checks of the handlers for requests, documents, departments, catalog and administration | specification |
| `Voice` | `voice.service.ts` | specification |
| `MCServices` | the last six, one at a time | model checking |
| `DocumentStoreProofs`, `ServiceDeskProofs`, `AccountsProofs`, `CompaniesProofs` | theorems about the module of that name | TLAPS |
| `SignInProofs` | theorems about `Sessions`, `SecondFactor` and `Federation` | TLAPS |
| `ServicesProofs` | theorems about `Tenancy`, `Voice` and the composition in `MCServices` | TLAPS |

### RequestLifecycle

An API call is a record in `calls[c]` with a program counter, the user, the request, and what it read
(`seen`). Its actions are the pieces of code between two awaits at which another call can get in:

| Code | Actions |
|---|---|
| `createRequest` | `CreateRequest` (the transaction), `Fanout` |
| `claimRequest` | `ClaimRead` (checks), `ClaimCas` (conditional `updateMany`), `ClaimAudit`, `ClaimEvent`, `Fanout` |
| `updateStatus` | `StatusRead` (checks), `StatusTx` (guarded update, audit, event), `Fanout` |
| `cancelRequest` | `CancelRead`, `CancelTx` (update by id, audit, event), `Fanout` |
| an error or the end of the process at an await | `Abort` |
| `documents.upload`, `documents.remove`, purge | `AttachDocument`, `DetachDocument` |
| `admin.updateUser` | `JoinDepartment` |

Abstractions: consecutive reads of one call are one step (their results are only checked, and a status once
left never comes back, so a commit that passes its guard sees nothing else); a refused call is no step; texts
are reduced to "a non-blank note was given"; `updateMany` with a condition is one atomic conditional update
and a transaction is one step, which for these single-row guards is what PostgreSQL's row locks give under
READ COMMITTED; an error whose commit did reach the database is not distinguished from one whose commit did
not. `Admins` is a constant: role changes are the module `Accounts`. Several calls of one
user are several slots. Audit rows form a set, so a row is never confused with another actor's, but two equal
rows of one actor would be one.

### NotificationOutbox

`row[e]` is the outbox row with its status and attempts, `tick[t]` a run of the cron job with the rows left
in its batch and the attempts it read for them, `received` and `tries` are history: what the receiver accepted
and how many posts of a row have failed. `StartTick` is the query, `PostAccepted`/`PostFailed` the `fetch`
(a lost or late answer may still have been received), `MarkSent`, `CountFailure` the updates,
`MarkSentThrows`, `CountFailureThrows` database errors in the `try` and in the `catch`, `Restart` the end of
the process. `fetch` has a ten-second timeout and a batch fifty rows, so a run may take longer than the minute
between runs: runs overlap in one process, and in several anyway.

### DocumentStore

The documents of one request. `row[d]` has a state that stands for `deletedAt` and the prefix of `storageKey`, and
whether the column `data` holds bytes; `objects` are the documents whose object is in the bucket. Storage keys are
taken as distinct: they contain `Date.now()`, and two uploads of one request in one millisecond are listed as a
hazard. Uploads, removals, purge runs and backfill runs are calls; each S3 operation, single statement and
transaction is an action. `condemned` is history: rows whose object a removal or purge set out to delete.
`Restart` may configure object storage, after which `StartBackfill` runs next to everything else. `Expire` is the
passing of `purgeAt`. The outbox events of documents and the access rules are left out.

### ServiceDesk

`RequestLifecycle` lets documents come to a claimed request and go at will (`AttachDocument`, `DetachDocument`);
`DocumentStore` lets uploads start at will. `ServiceDesk` puts one request (`Ticket`) and its documents into one
state and replaces both liberties by what the code reads: an `Upload` starts with a look at the claimant
(`MayUpload`), which no later step repeats, and the count that a completion without a note needs is of the rows
that are active (`Attached`). All other steps are those of the two modules. A restart waits until the calls of the
requests have ended or broken off (`Stop`): one process serves both. Who else may upload (the claimant, managers
of the department, admins) is left out, so more uploads start than in the code.

### Accounts

The rows of one company and the calls that write them. A call is a slot of `call` with what it read; `known` is
whether an acceptance found an account.

| Code | Actions |
|---|---|
| `InvitationService.create` | `Invite` (checks), `ClearInvitation` (`deleteMany`), `CreateInvitation` or `CreateCollides` (`create`) |
| `acceptInvite` | `Accept` (reads, hash), `AcceptCommits` or `AcceptRollsBack` (the transaction) |
| `updateUser` | `UpdateUser` (checks), `SetRole`, `Join` |
| `deactivateUser`, `reactivateUser` | `Deactivate`, `Reactivate` (checks), `SetActive` |
| SCIM users, provisioning by Google or OIDC | `ScimCreate`, `ScimUpdate`, `ScimDelete`, `Provision`: only their write matters, a check before it repeats what the unique index enforces |
| an error or the end of the process at an await | `CallBreaksOff` |

`MayAdminister` is `JwtGuard` with `AdminGuard` or `RolesGuard`: the role comes from the token (`wereAdmins`: who
may hold one that says SYSTEM_ADMIN, as old tokens stay good until they expire), `active` from the row. Deleting a
role from `wereAdmins` when the fifteen minutes of a token are over is left out, so every token counts as held.
`open` is history: addresses whose latest invitation was created and neither used nor dropped by a call that broke
off. The department of a membership and the role in it are reduced to "joins".

### Sessions and SecondFactor

One account. `Sessions` keeps what of its row goes into tokens (`active`, `role`), the refresh rows with the pair of
tokens that was handed out with each (`tokens`: which of the two are not expired), whether the token of a challenge
is out (`challenge`), and the calls: `PasswordRead`, `SecondFactorAsked` or `NoSecondFactor`, `ChallengePassed` (a
second call, which reads the row again), `FederatedRead`, `IssueTokenPair`; `AcceptRead`, `AcceptRevokes` (outside
the transaction), `AcceptTx`; `Refresh`, `Logout`, `LogoutAll`, `TokenExpires`, `ChallengeExpires`. `Authorised` is
`verifyToken`: signature, expiry and `User.active`, and nothing about the type of the token, so the refresh token of
a pair and the token of a challenge authorise as well. The hash that is stored and the hash
of what the client presents are different functions (`StoredHash`, `HashOfClientToken`), as in the code; hence
`Refresh` takes the branch for reused tokens always, and the rotation below it is modelled as what it is, not
reached.

`SecondFactor` keeps the `MfaSecret` row and `Company.mfaRequired`, with one action per statement of
`mfa.service.ts` and of the gate (`LoginRead` the company, `LoginGate` the row). A challenge hands out a token
(`pending`) that stays good for further challenges until it expires (`PendingExpires`); a sign-in with Google or
OIDC asks for no factor (`FederatedLogin`). `Bearers` are the tokens `JwtGuard` takes, that of a challenge among
them, and `LetsThrough` is `RolesGuard`. Codes are numbered pairs: a list
and a place in it. `held`, `old`, `waived`, `crossed`, `spent`, `revived`, `confirmed` are histories that the
properties need; no guard looks at them.

### Companies, Federation, Tenancy, Voice

* `Companies`: `Register`/`RegisterTx`, `UpdateCompanySso`, `RequestVerification`, `VerifyRead`, `ResolveTxt`,
  `MarkVerified`, `ApplyDomain`, `GoogleRoute`/`GoogleProvision`. Who can write the DNS of a domain is the constant
  `Controls`. A Google sign-in of a known address writes nothing here and has no action. `overlapped`, `settled` are
  histories.
* `Federation`: provider rows by company and name, logins with what their state and their code were issued for,
  callbacks with an action per await. The identity provider is external: it gives a code once, for one client.
  Signatures, nonces and keys are taken to work.
* `Tenancy`: `store[c]` is the `AsyncLocalStorage` store of a call, `scoping` whether the boot installed the query
  extension. A call is a token (its company, whether it names it, whether its role is administrator) and then one
  handler, with an action per query, so that calls interleave between guard and query and between two queries:
  `ListOfCompany`, `ListOwn`, `ListQueue`, `GetRequest`, `FindForDocument`/`UseDocument`,
  `FindToWork`/`WorkOnRequest`, `FindToCancel`/`CancelIt`, `FindDepartment`/`CreateIt`, `FindAccount`/`WriteAccount`.
  A row is known by its company. Each action has the condition of its own query and the check of its handler next
  to what the extension adds (`InScope`), or does not add: to `findUnique` of a request and the upsert of a
  membership nothing. `findUnique` of a user is made without `select`, and the creates give the scalar ids, so the
  extension checks these. `Reboot` may come without a database, and then without the extension. `members` are the
  departments an account belongs to, `astray` the requests outside its company that it made or claimed.
  Prisma takes an added condition as a conjunction; a query that Prisma refuses for its form would change nothing.
* `Voice`: `HearAudio`, `StagingFails`, `Transcribed`, `ReadText`, `Extract`, `MapDepartment`, `MapType`,
  `CreateTicket`, `SpeakerFails`, `VoiceStops`. The models may answer with any code. `saw` is history: what the
  catalog offered at some moment since the answer. `CatalogChanges` lets a category come or go at any time, which is
  more than registration, the seed and operators do.

`MCServices` puts these six in one run. They share no variable: an account appears in `Sessions` as its role and
its activity, in `SecondFactor` as its secret, in `Companies` as a pair, and each module lets the others' writes
happen at any time (`AccountChanges`, `SetRequired`, `PersonChanges`, `CatalogChanges`). A behaviour of the
composition is therefore an interleaving of behaviours of the parts, and no property speaks of two parts; so the
run chooses one part in its initial state and leaves the others at rest. That this loses nothing of a part is the
theorem `ServicesImplementParts`.

## 3. Runs

Run `tlc -config X.cfg M` in this directory; `PROJECT.json` names the module of each configuration.

| Run | Instance | Checks and shows |
|---|---|---|
| `RequestLifecycle` | 1 request, 2 users (each employee, member, both or neither), 3 calls, faults | `TypeOK`, `NoForkedHistory`, `ClaimTrailNamesClaimant`, `StatusIsOnRecord`, `ClaimEventIsNew`, `InboxFollowsOutbox`, refinement `StatesSpec` |
| `RequestLifecycleFair` | 2 calls, no faults, one admin, fairness | `OwedIsUnderWay`, `ClaimIsRecorded`, `EmployeeHearsOutcome` |
| `NotificationOutbox` | 2 events, batch of 1, 3 attempts, 2 runs, 1 restart, database errors, fairness | `TypeOK`, refinement `DeliverySpec`, `EveryEventIsSettled` |
| `DocumentStore` | 3 uploads, 2 calls, 1 restart, faults | `TypeOK`, `ActiveHasPayload`, `ErasedRowsAreEmpty`, `ActiveIsBounded`, refinement `DocumentsSpec` |
| `ServiceDesk` | 1 request, 1 user (employee, member, both or neither), 1 request call, 2 uploads, 2 document calls, 1 restart, no faults, fairness | `ResolutionIsKept`, refinement `RequestsSpec`, `ErasedHasNoObject`, `ExpiredIsErasedOrReplaced` |
| `Accounts` | 2 addresses, 2 calls, an invitation and its replacement, calls that break off | `AccountsTypeOK`, `ReplacedNotLost`, `AcceptanceUsesInvitation`, `LastAdminFallsToStaleToken` |
| `Services`, sessions | 2 sign-ins, 2 sessions, 2 roles | `RoleWasHeld`, `OldSessionsAreRevoked` |
| `Services`, second factor | 2 devices, 2 secrets or lists, 2 codes each | `NoWayAroundTheFactor`, `EnabledIsConfirmed`, `CodeWorksOnce` |
| `Services`, companies | 2 companies, addresses and domains, 2 calls, one domain claimed by both and controlled by one | `VerifiedIsApplied`, `OneCompanyPerAddress`, `ProvisionedByDomain` |
| `Services`, federation | 2 companies, 3 providers, 2 clients, 1 login, 1 callback | `LoginStaysWhereItBegan`, `WithdrawnProviderAdmitsNobody` |
| `Services`, tenancy | 2 companies, 2 calls of any kind, with and without the extension, any number of reboots | `OwnRowsOnly` |
| `Services`, voice | 2 companies, 3 departments, 1 category code, 1 call | `DraftIsGrounded`, `NoFileLeftBehind` |

Some properties are stated and proved (section 5) but not run, since a property that is run implies them:
`ClaimantIsFixed` follows from `StatesSpec`; `SentWasReceived`, `GivenUpAfterAllTries` and `SettledStaysSettled` from
`DeliverySpec`; a row with `PendingIsDue` violated would never be settled (`EveryEventIsSettled`);
`ClaimRecordIsPending` and `OutcomeNoticeIsPending` are the conjuncts of `OwedIsUnderWay`.

The remaining runs each check one statement of the documents or comments and find it violated; section 6.

**Why the bounds are enough.** No action of `RequestLifecycle` relates two requests, so one request shows all
interleavings; three calls are the two that race and a third that acts between their steps (a claim between
the read and the update of a cancellation, say); two users are an actor and an employee, and may be the same.
For the outbox two runs are a stale one and a fresh one; three attempts and a batch smaller than the backlog
make the limit, the batch and the order matter, and leave room for a counter that is written twice from one
read. For documents two uploads are a document and its replacement,
a third is one more than the calls that can overlap (which `ActiveIsBounded` needs to be more than a count), and
two calls are the races between any two of upload, removal, purge and backfill. At the desk the
races are between the completion and two uploads that replace each other, or an upload and what takes its document
away; the call of the requests is one at a time, and one user makes them all, since races between request calls
are those of `RequestLifecycle`. Failures between the two parts are left to `DeskStoresDocuments` and
`DeskImplementsRequests`, which hold with them. For accounts two addresses are the
two administrators that deactivate each other, three invitations (the first number stands for the registration)
an invitation and the one that replaces it, and two calls any race of two. In the services two calls are what each
of the hazards needs; a login at a provider has one callback at a time, since a code is good once and the
interleavings that matter are with the provider rows; one draft at a time, since drafts share only the catalog,
which changes by itself; a speaker's file name is its own. Every property has a mutant
(a plausible slip in one definition) that the same run refutes. The theorems of section 5 cover every safety
property of the passing runs for any values of the constants, so there the bounds decide only what TLC can find
out before a proof is tried; for the liveness properties they are all there is.

`CHECK_DEADLOCK FALSE` is set since the bounded instances stop: all requests end and all uploads are used up.

## 4. Fairness

* `RequestLifecycle!FairSpec`: weak fairness of `Resume(c)`. Node.js resumes a call whose await has settled;
  every await is a database operation that ends. Calls need not arrive. With `Faults = FALSE` no call breaks
  off; with faults neither liveness property holds, and the code has no recovery that would make them hold.
* `NotificationOutbox!FairSpec`: weak fairness of starting and of stepping a run, since the cron fires every
  minute and each post ends within ten seconds; strong fairness of the two updates, since a database that is asked
  again and again does not fail for ever. Nothing is assumed of the receiver. A process without a webhook settles
  nothing, which the property allows.
* `ServiceDesk!DeskFairSpec`: weak fairness of the steps of a document call and of the daily purge
  (`DocumentStore!Fairness`). Uploads and removals are never forced, and the calls on the request may stop anywhere.

## 5. Proofs

`tlapm RequestLifecycleProofs.tla` checks, for every value of the constants that satisfies
`LifecycleAssumption` (the admins are users, `Faults` is a Boolean, `None` is neither a user nor a request):

| Theorem | States |
|---|---|
| `TypeCorrect` | `Spec => []TypeOK` |
| `ClaimIsExclusive` | `Spec => ClaimantIsFixed` |
| `TransitionsAreOnRecord` | `Spec => []StatusIsOnRecord` |
| `ImplementsRequestStates` | `Spec => StatesSpec` |
| `ClaimTrailIsTheClaimants` | `Spec => []ClaimTrailNamesClaimant` |
| `ClaimEventNeverCollides` | `Spec => []ClaimEventIsNew` |
| `HistoriesDoNotFork` | `Spec => []NoForkedHistory` |
| `NoticesHaveEvents` | `Spec => []InboxFollowsOutbox` |
| `ClaimRecordIsAhead` | with `~Faults`: `Spec => []ClaimRecordIsPending` |
| `OutcomeNoticeIsAhead` | with `~Faults`: `Spec => []OutcomeNoticeIsPending` |
| `OwedStaysUnderWay` | with `~Faults`: `Spec => []OwedIsUnderWay`, both of these |
| `ClaimIsAuditedWithoutFaults` | with `~Faults`: `Spec => []ClaimIsAudited` |
| `CancelOnlyPendingOneAtATime` | with at most one call at a time: `Spec => CancelOnlyPending` |

The argument, in the order of the module:

1. `TypeInv` is `TypeOK` with `CallsHaveRows`: a call in progress is about a row that exists. Without it the
   status a call reads and writes back could be `"absent"`, and `TypeOK` alone is not inductive.
2. `CallInv` adds `CallsLegal`: what a call is about to write is a move of `ValidTransitions` from the status
   it saw, and a cancellation is by the employee and saw PENDING. The guard of `StatusTx` then says that the
   move it makes is the one checked before the transaction. `RowStep` collects all a step does to a row (leave
   it, create, claim, move, cancel); from it follow `ClaimantIsFixed`, the refinement (each of the four
   is an action of `RequestStates`, and every other step stutters) and, with `RequestWriters` and
   `OneRowPerStep`, that records precede or accompany what they record (`StatusIsOnRecord`).
3. `HistoryInv`: a status with a STATUS row that leaves it has been left for good (`LeftForGood`,
   `NoWayBack`: no status is entered twice), so a second row from it cannot commit (`OneMovePerStatus`), and a
   claimed request was PENDING at the claim, when no STATUS row left PENDING (`StartedByClaim`).
4. `ClaimInv`: a call past its conditional update is the winner, the row names its user
   (`WinnerHoldsRequest`), there is at most one such call, and what it has yet to write is not there yet. This
   is what neither `ClaimTrailNamesClaimant` nor `ClaimEventIsNew` says on its own: both are about records, and
   their induction needs to know who may still write one.
5. `Told`: a call about to fan out has its event in the outbox, and the claimant it names stays. Hence notices
   follow events.
6. `ClaimRecordIsPending` and `OutcomeNoticeIsPending` are the safety half of the two liveness properties: what
   is owed is there already, or a call that has yet to write it is under way. They are inductive with `ClaimInv`
   and `HistoryInv` when no call breaks off; what is left to TLC is that such a call goes on.
7. The last two theorems are about the statements that the runs `ClaimCrash` and `CancelRace` refute. Each names
   the one thing that breaks its statement: a call that breaks off after its conditional update, and a second
   call between the check and the write of a cancellation (`CancelsPending` is what the write relies on).
   Without the one or the other the documents are right.

`tlapm NotificationOutboxProofs.tla` checks, for every value that satisfies `OutboxAssumption` (the bounds are
numbers, at least one attempt and a batch of at least one) and any set `Ticks` of runs:

| Theorem | States |
|---|---|
| `OutboxTypes` | `Spec => []TypeOK` |
| `SentMeansReceived` | `Spec => []SentWasReceived` |
| `FailedMeansTried` | `Spec => []GivenUpAfterAllTries` |
| `PendingStaysDue` | `Spec => []PendingIsDue` |
| `SettledForGood` | `Spec => SettledStaysSettled` |
| `ImplementsDeliveryStates` | `Spec => DeliverySpec` |

The properties speak of rows, but a row is written from what a run read before other runs wrote it, so none
of them is inductive. `Inv` adds what the runs hold in their hands: the attempts read for the rows of a batch
are below the limit and no more than the posts that failed (`ReadIsPast`, kept since failures only grow), and
an update to come is backed by an answer (`InHand`: the receiver accepted the row, or a failure was counted
that the read does not include). Steps then fall into five kinds with a lemma each: a new row (`EmitStep`), a
query (`StartStep`), an answer that changes only what a run holds (`AnswerStep`), an update (`UpdateStep`), and
runs that stop (`StopStep`). For the refinement a batch has only rows that are there (`BatchIsThere`); a query, a
database error and a restart are stutters, an answer an attempt, and an update that settles a row is backed by
what `InHand` says. A count below the limit stutters too, since the attempts of a row are no part of the promise.

`tlapm DocumentStoreProofs.tla` checks, for every value that satisfies `StoreAssumption` (the bounds are numbers,
and the calls that can be under way at once are finitely many, which a bound on active documents needs):

| Theorem | States |
|---|---|
| `StoreTypes` | `Spec => []TypeOK` |
| `ContentIsKept` | `Spec => []ActiveHasPayload` |
| `ErasureIsComplete` | `Spec => []ErasedRowsAreEmpty` |
| `ActiveStaysBounded` | `Spec => []ActiveIsBounded` |
| `ErasedObjectsAreGone` | with `~Faults`: `Spec => []ErasedHasNoObject` |
| `ImplementsDocumentStates` | `Spec => DocumentsSpec` |

`Inv` adds what calls rely on between two of their steps: an upload that goes on to its row has stored its object
if there is a bucket (`UploadIsStored`; a restart may bring one, but ends the uploads), and a backfill clears only
bytes it stored (`MoveIsStored`); both allow for a deletion that was set out on meanwhile. `ActiveIsBounded` is
not inductive, since a create adds a row: `HasRoom` counts the active documents together with the uploads whose
soft delete is done, which a soft delete resets and a create keeps. `ErasedObjectsAreGone` has an invariant of its
own, `Fits`, as long as no restart came: payloads are in one place (`OnePlace`), uploads under way have distinct
keys and no row yet, whoever erases has found a row, and past the deletion of its object no step stores it again.
The refinement holds with failures and restarts as well and needs less: `Placed` says that an upload under way has
no row and shares its number with no other, that a removal has found a row and a purge rows that are due, and that
numbers not given out have neither rows nor bytes. `CallEffects` then lists all a step of a call can do to rows,
bytes, objects and condemned documents, and `DocumentsStep` finds the action of `DocumentStates` for each.

`tlapm ServiceDeskProofs.tla` checks, for every value that satisfies `StoreAssumption` and `DeskAssumption` (the
admins are users, `None` is neither a user nor the request):

| Theorem | States |
|---|---|
| `DeskStoresDocuments` | `DeskSpec => Spec` of `DocumentStore` |
| `DeskImplementsRequests` | `DeskSpec => RequestsSpec`, the specification of `RequestLifecycle` |
| `ResolutionsStay` | `DeskSpec => []ResolutionIsKept` |

With the first two every theorem about a part holds of the two together. The first is the shape of the model; the
second is not: when `CreateRow` makes the documents of a request appear, `AttachDocument` wants a claimant, and
the upload looked at him several awaits before. `UploadsAreClaimed` carries his presence over those awaits, and is
inductive only with what `RequestLifecycle` proves of claims (`ClaimantStep`: no step takes a claimant away).
`TicketInv` joins it with the types of the requests and with `CompletionsAreBacked`: a completion without a note,
and a call that is about to commit one, has counted a document, and rows are never deleted. `ShownInv` then says
that documents, once there, are active, removed or purged, or else an upload that has replaced them is about to
create its own (`ShownStep`: a soft delete leaves its own upload to go on, a create ends one but makes its row
active, and nothing else but a removal or a purge takes an active document away). That is where failures and
restarts must be excluded: both can end the upload between the two statements (`documents.service.ts:166` and
`:171`).

The remaining modules follow one pattern: an invariant (`CompaniesInv`, `SecondFactorInv`, ...) that joins the types
with what each call knows from its reads, one lemma for a step that only moves a call, one per action that writes
rows, and the properties from it. `AccountsAssumption` has, like `StoreAssumption`, finitely many calls; `Sessions`
needs no assumption.

| Theorem | States | What the invariant adds to the property |
|---|---|---|
| `AccountsTypes` | `AccountsSpec => []AccountsTypeOK` | `HasRoom`: every call about to create an invitation has a number left |
| `ReplacementKeepsInvited` | `AccountsSpec => []ReplacedNotLost` | an address without an invitation has the number 0 and nothing else (`InvitationIsRight`) |
| `AcceptancesUseInvitations` | `AccountsSpec => AcceptanceUsesInvitation` | while an invitation keeps its number it keeps what it grants (`CallIsRight`) |
| `LastAdminStays` | `AccountsSpec => LastAdminFallsToStaleToken` | who deactivates is not whom he deactivates |
| `SessionsTypes`, `SignedRoleWasHeld`, `AcceptanceEndsSessions` | `SessionsTypeOK`, `RoleWasHeld`, `OldSessionsAreRevoked` | a call that goes on to sign has a role that was held (`RoleIsHeld`); what an acceptance met was issued, and is revoked once it goes on (`OldAreIssued`, `OldAreRevoked`) |
| `FederationTypes`, `LoginsStay`, `WithdrawnStaysOut` | `FederationTypeOK`, `LoginStaysWhereItBegan`, `WithdrawnProviderAdmitsNobody` | a callback under way is of a login that was begun, at its company and provider, and after the exchange with its client (`ReturnIsOfLogin`) |
| `SecondFactorTypes`, `FactorIsAsked`, `EnabledWasShown`, `CodesWorkOnce` | `SecondFactorTypeOK`, `NoWayAroundTheFactor`, `EnabledIsConfirmed`, `CodeWorksOnce` | what a call read is the row or the call was crossed (`CallIsRight`); numbers of lists to be written are used nowhere (`NumbersAreFresh`, `ListsDiffer`); a spent code is not in the row unless revived (`SpentIsGone`) |
| `CompaniesTypes`, `VerifiedReachesCompany`, `AddressesAreUnique`, `ProvisionsByDomain` | `CompaniesTypeOK`, `VerifiedIsApplied`, `OneCompanyPerAddress`, `ProvisionedByDomain` | two calls for one address have overlapped, and one that writes met it free or overlapped (`WriterMetFree`); a verification past the DNS is of a domain the company controls (`VerifierIsRight`) |
| `TenancyTypes`, `QueriesStayHome` | `TenancyTypeOK`, `OwnRowsOnly` | the store of a call names the company of its token, or none where the token does, and what it found it may use (`CallIsOwn`); members are of their own company's departments (`MembersAreOwn`) |
| `VoiceTypes`, `DraftsAreGrounded`, `RecordingsGo` | `VoiceTypeOK`, `DraftIsGrounded`, `NoFileLeftBehind` | what is offered now was offered since the answer (`SawOffered`) |
| `ServicesImplementParts` | `MCSpec` implies the specification of each of the six parts | nothing: a step of one part leaves the variables of the others alone (`PartsStep`) |
| `ServicesTypes` | `MCSpec => []ServicesTypeOK` | the types of the parts, through the previous theorem, as every other theorem about a part carries over |

Every safety property a passing run checks is stated by a theorem. Only model-checked: the liveness properties
(`ClaimIsRecorded`, `EmployeeHearsOutcome`, `EveryEventIsSettled`, `ExpiredIsErasedOrReplaced`), since liveness under
fairness is outside what the installed provers treat, and the statements of section 6, which are false.

## 6. What the code does not keep

Each is a run that TLC refutes; the quoted lines are in `PROJECT.json` under "findings".

| Run | Property | What happens |
|---|---|---|
| `CancelRace` | `CancelOnlyPending` | a cancellation overwrites a claim, completion or rejection that came after its check (`requests.service.ts:361`); a cancellation over another one is not counted |
| `ClaimCrash` | `ClaimIsAudited` | a failure after the claim's update leaves no audit row (`requests.service.ts:228`) |
| `CompletionRace` | `CompletionHasResolution` | the last document goes between the count and the update (`requests.service.ts:281`) |
| `BackfillRestores` | `NoObjectComesBack` | the backfill stores a document that was removed (`documents.service.ts:68`) |
| `RefreshAlarm` | `RefreshIsReuse` | a refresh token never matches the row stored for it, and its first use ends its family as reused (`refresh-token.service.ts:91`) |

Seen in the same code, without a run of their own: PATCH status takes a request from PENDING into progress with no
claimant (`requests.service.ts:297`, against product-spec.md:118); the purge wants `deletedAt` null and an upload
sets it on the document it replaces without clearing its payload, so that payload is kept for ever, which is what
`ExpiredIsErasedOrReplaced` excepts
(`retention.service.ts:25`, against product-spec.md:151, which asks for thirty days after completion, while
`purgeAt` counts them from the upload, `documents.service.ts:182`, so a request in progress can lose its
document); the event of a claim is written after the commit, although the comment at
`notifications.service.ts:10-11` says that events commit with the change; PATCH status lets staff cancel a PENDING
request, and `fanout` then tells the staff but not the employee; a delivery run that is late can write FAILED over
SENT (`notifications.service.ts:174`), which is why `SettledStaysSettled` says "settled" and not "SENT"; a removal
goes on when the object could not be deleted, and an upload that fails leaves its object behind, which is why
`ErasedHasNoObject` is checked without faults; an upload that fails after its soft delete leaves the request without
a document, which is why `ResolutionIsKept` is.

In the account modules: `logout` looks for the same hash as `refresh` and revokes nothing; an expired verification
cannot be asked for again, since `requestVerification` always creates a row and the index refuses it, while the
message at `domain-verification.service.ts:59` says "Request a new one."; a verification that breaks off between
its two updates is marked verified and never applied; a set-up between the check and the enabling of a second
factor enables the new secret (what `EnabledIsConfirmed` excepts), and two overlapping challenges can bring a used
backup code back (what `CodeWorksOnce` excepts); two overlapping registrations can give one address to two companies
(what `OneCompanyPerAddress` excepts); two administrators that deactivate each other leave none (what
`LastAdminFallsToStaleToken` says is the only way); `initiateOidcLogin` accepts another redirect URI than the
registered one (`oidc-federation.service.ts:57`), and the exchange sends the registered one (`:215`), which a
provider refuses; an acceptance revokes the refresh tokens of the account, and access tokens of the last fifteen
minutes are good again as soon as the account is active. `verifyToken` takes any signed token that is not expired
(`auth.service.ts:404`): the token of a challenge, given out before the second factor is (`:140`), and the refresh
token (`refresh-token.service.ts:67`), which no revocation touches, open every route without `@Roles`, requests and
documents among them. They carry no role, so routes with `@Roles` stay closed, and this is all that
`NoWayAroundTheFactor` says. Sign-ins with Google, OIDC or an invitation are not asked for a second factor.

In the tenant scoping: when `$connect` fails at boot, `client` falls back to the client without the extension
(`scoped-prisma.service.ts:24-36`), and an administrator can then work on requests of other companies through
`claimRequest`, `updateStatus` and the queue of all departments, which check no company of their own. The refresh
token names no company, so a call made with it has an empty store, is not confined, and a condition
`companyId: undefined` is no condition. `OwnRowsOnly` excepts the first by name and is about tokens that name their
company. The properties say how far the code goes in each case.

`RequestStates!Withdraw` is not limited to PENDING requests because of the first of these: the refinement
shows the strongest promise the code keeps, not the one the documents make. In the same way
`DeliveryStates!Settle` may settle an event that is settled, because of late runs, and `DocumentStates!Store` may
store an erased document, because of `BackfillRestores`.

## 7. Not modelled

Listing and counting queries and downloads (beyond whose rows they show, in `Tenancy`),
`discover`, `validateInviteToken` and the SCIM group routes change nothing. Email, legal texts, logging, bootstrap and error formatting have no state a property could be
about. `start.js` repairs the schema with SQL text before the program starts; a model of it would be a model of
PostgreSQL's grammar. `markRead`, `markAllRead` and the notices of document events are single conditional writes of
one user's rows. `revokeFamily`, `cleanupExpiredTokens` and the rotation after the reuse branch are not reached.
Timing is abstract: `purgeAt` is an event, a timeout an answer that does not come, the life of an access token an
action (`TokenExpires`). Cryptography is taken to work: a token is
known by who can have it, a code by who was given it.

## 8. Plan

In this order, the most important behaviour first. All steps are done.

1. `RequestStates`, `RequestLifecycle`: claims, transitions, records. *Done, with proofs.*
2. `NotificationOutbox`: delivery. *Done, with proofs.*
3. `DocumentStore`: documents and retention. *Done, with proofs.*
4. Findings for the statements these three do not keep. *Done.*
5. `Sessions`, `SecondFactor`: sign-in. *Done.*
6. `Accounts`: invitations, administration, SCIM. *Done.*
7. `Companies`, `Federation`: where an account comes from. *Done.*
8. `Tenancy`, `Voice`. *Done.*
9. Proofs of the safety properties of all modules. *Done.*
10. `ServiceDesk`: requests and documents composed, for the retention rule, the claimant an upload looks at and the
    document guard of a completion. *Done, with proofs.*
