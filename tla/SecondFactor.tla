---------------------------- MODULE SecondFactor ----------------------------
(***************************************************************************)
(* MfaService and the places where AuthService asks it: the second factor  *)
(* of one account.  Setting up, enabling, disabling, regenerating and      *)
(* using a backup code read the MfaSecret row and write it in separate     *)
(* statements, so calls from two devices interleave between them.  The     *)
(* flag User.mfaEnabled, which no code reads, is left out.                 *)
(*                                                                         *)
(* A challenge begins with a token of its own, which verifyToken takes for *)
(* any other: it names the account and its company but no role, so it      *)
(* opens the routes that ask for none before any second factor is given.   *)
(* Sign-ins with Google or OIDC never ask for one.  What the factor        *)
(* protects are the routes with required roles, among them those that      *)
(* manage the factor itself.                                               *)
(***************************************************************************)
EXTENDS Naturals, FiniteSets

CONSTANTS Devices,       \* calls under way at the same time
          MaxSecrets,    \* bound on the secrets and code lists that are generated
          CodesPerList   \* BACKUP_CODE_COUNT

ASSUME SecondFactorAssumption == MaxSecrets \in Nat /\ CodesPerList \in Nat \ {0}

VARIABLES mfa,        \* the MfaSecret row
          required,   \* Company.mfaRequired
          generated,  \* number of the latest secret or list
          device,     \* the calls
          pending,    \* whether an mfa_pending token of the account is out and not expired
          spent,      \* backup codes a challenge was passed with
          revived,    \* codes put back into the row by an update computed from an older read
          confirmed   \* secrets whose code was checked, or taken for one that was

secondFactorVars == <<mfa, required, generated, device, pending, spent, revived, confirmed>>

Codes == (1..MaxSecrets) \X (1..CodesPerList)
\* Mutant: one code too many.
ListOfOneMore(g) == {g} \X (0..CodesPerList)
ListOf(g) == {g} \X (1..CodesPerList)
NoCode == <<0, 0>>

\* secret: its number, 0 without a row.
Mfa == [secret : 0..MaxSecrets, enabled : BOOLEAN, codes : SUBSET Codes]
NoMfa == [secret |-> 0, enabled |-> FALSE, codes |-> {}]

\* read: the row as read; asked: mfaRequired as read; code: the backup code
\* given; via: how the device signed in, once it has a token pair ("in"); proof:
\* how the challenge was passed.  History: waived, the second factor did not
\* apply at some moment of the call; crossed, another call wrote the row since
\* this one read it.
Via == {"none", "password", "federated"}
Device == [pc : {"idle", "enable", "regenerate", "login", "useCode", "in"},
           read : Mfa, asked : BOOLEAN, code : Codes \cup {NoCode}, via : Via,
           proof : {"none", "totp", "code"}, waived : BOOLEAN, crossed : BOOLEAN]
NoDevice == [pc |-> "idle", read |-> NoMfa, asked |-> FALSE, code |-> NoCode, via |-> "none",
             proof |-> "none", waived |-> FALSE, crossed |-> FALSE]

SecondFactorTypeOK == /\ mfa \in Mfa
                      /\ required \in BOOLEAN
                      /\ generated \in 0..MaxSecrets
                      /\ device \in [Devices -> Device]
                      /\ pending \in {"none", "out"}
                      /\ spent \subseteq Codes /\ revived \subseteq Codes
                      /\ confirmed \subseteq 1..MaxSecrets

SecondFactorInit == /\ mfa = NoMfa
                    /\ required \in BOOLEAN
                    /\ generated = 0
                    /\ device = [d \in Devices |-> NoDevice]
                    /\ pending = "none"
                    /\ spent = {} /\ revived = {} /\ confirmed = {}

----------------------------------------------------------------------------

Applies == mfa.enabled /\ required

\* Every step of a call d leaves d at rec, and the other calls under way note
\* what it did to the row and to the rule.
Noted(x) == IF device[x].pc \in {"idle", "in"} THEN device[x]
            ELSE [device[x] EXCEPT !.waived = @ \/ ~Applies', !.crossed = @ \/ mfa' # mfa]
Steps(d, rec) == device' = [x \in Devices |-> IF x = d THEN rec ELSE Noted(x)]

Idle(d) == device[d] = NoDevice
At(d, pc) == device[d].pc = pc

----------------------------------------------------------------------------
(* Managing the second factor *)

\* Mutant: the update of the upsert leaves enabled alone.
NewRowKeepsEnabled(g) == [secret |-> g, enabled |-> mfa.enabled, codes |-> ListOf(g)]
NewRow(g) == [secret |-> g, enabled |-> FALSE, codes |-> ListOf(g)]

\* generateMfaSecret: one upsert of a new secret, not enabled, and new codes.
Setup(d) ==
    /\ Idle(d)
    /\ generated < MaxSecrets
    /\ generated' = generated + 1
    /\ mfa' = NewRow(generated + 1)
    /\ UNCHANGED <<required, pending, spent, revived, confirmed>>
    /\ Steps(d, NoDevice)

\* verifyAndEnableMfa: the code is checked against the secret read, then the row
\* of the user is enabled whatever its secret is by then.
EnableRead(d) ==
    /\ Idle(d)
    /\ mfa.secret # 0
    /\ UNCHANGED <<mfa, required, generated, pending, spent, revived, confirmed>>
    /\ Steps(d, [NoDevice EXCEPT !.pc = "enable", !.read = mfa])

EnableWrite(d) ==
    /\ At(d, "enable")
    /\ mfa.secret # 0
    /\ mfa' = [mfa EXCEPT !.enabled = TRUE]
    /\ confirmed' = confirmed \cup {device[d].read.secret}
                       \cup (IF device[d].crossed THEN {mfa.secret} ELSE {})
    /\ UNCHANGED <<required, generated, pending, spent, revived>>
    /\ Steps(d, NoDevice)

\* disableMfa: deletes the row and ignores an error.
Disable(d) ==
    /\ Idle(d)
    /\ mfa' \in {NoMfa, mfa}
    /\ UNCHANGED <<required, generated, pending, spent, revived, confirmed>>
    /\ Steps(d, NoDevice)

\* regenerateBackupCodes
RegenerateRead(d) ==
    /\ Idle(d)
    /\ mfa.enabled
    /\ generated < MaxSecrets
    /\ generated' = generated + 1
    /\ UNCHANGED <<mfa, required, pending, spent, revived, confirmed>>
    /\ Steps(d, [NoDevice EXCEPT !.pc = "regenerate", !.code = <<generated', 1>>])

RegenerateWrite(d) ==
    /\ At(d, "regenerate")
    /\ mfa.secret # 0
    /\ mfa' = [mfa EXCEPT !.codes = ListOf(device[d].code[1])]
    /\ UNCHANGED <<required, generated, pending, spent, revived, confirmed>>
    /\ Steps(d, NoDevice)

\* updateCompanySettings
SetRequired(b) ==
    /\ b # required
    /\ required' = b
    /\ UNCHANGED <<mfa, generated, pending, spent, revived, confirmed>>
    /\ device' = [x \in Devices |-> Noted(x)]

----------------------------------------------------------------------------
(* Signing in *)

\* loginPassword reads the company, then awaits the user and the hash.
LoginRead(d) ==
    /\ Idle(d)
    /\ UNCHANGED <<mfa, required, generated, pending, spent, revived, confirmed>>
    /\ Steps(d, [NoDevice EXCEPT !.pc = "login", !.asked = required, !.waived = ~Applies])

\* Mutant: an account without backup codes is asked for nothing.
AsksWhileCodesRemain(d) == mfa.enabled /\ mfa.codes # {} /\ device[d].asked
Asks(d) == mfa.enabled /\ device[d].asked

\* getMfaStatus: the token of a challenge, or a token pair at once.
LoginGate(d) ==
    /\ At(d, "login")
    /\ pending' = IF Asks(d) THEN "out" ELSE pending
    /\ UNCHANGED <<mfa, required, generated, spent, revived, confirmed>>
    /\ Steps(d, IF Asks(d) THEN NoDevice ELSE [device[d] EXCEPT !.pc = "in", !.via = "password"])

\* loginGoogle, handleOidcCallback and acceptInvite: a token pair, whatever the
\* company requires.
FederatedLogin(d) ==
    /\ Idle(d)
    /\ UNCHANGED <<mfa, required, generated, pending, spent, revived, confirmed>>
    /\ Steps(d, [NoDevice EXCEPT !.pc = "in", !.via = "federated"])

\* completeMfaChallenge: verifyMfaToken lets an account without an enabled
\* second factor in, and one that gives the code of its secret.  The token stays
\* good for further challenges.
ChallengeWithout(d) ==
    /\ Idle(d) /\ pending = "out"
    /\ ~mfa.enabled
    /\ UNCHANGED <<mfa, required, generated, pending, spent, revived, confirmed>>
    /\ Steps(d, [NoDevice EXCEPT !.pc = "in", !.via = "password", !.waived = ~Applies])

ChallengeTotp(d) ==
    /\ Idle(d) /\ pending = "out"
    /\ mfa.enabled
    /\ UNCHANGED <<mfa, required, generated, pending, spent, revived, confirmed>>
    /\ Steps(d, [NoDevice EXCEPT !.pc = "in", !.via = "password", !.proof = "totp"])

\* A backup code of the list read, which is then written back without it.
ChallengeCode(d, k) ==
    /\ Idle(d) /\ pending = "out"
    /\ mfa.enabled /\ k \in mfa.codes
    /\ UNCHANGED <<mfa, required, generated, pending, spent, revived, confirmed>>
    /\ Steps(d, [NoDevice EXCEPT !.pc = "useCode", !.read = mfa, !.code = k])

\* Mutant: the list is written back as it was read.
CodesLeftUnspliced(d) == device[d].read.codes
CodesLeft(d) == device[d].read.codes \ {device[d].code}

UseCode(d) ==
    /\ At(d, "useCode")
    /\ mfa.secret # 0
    /\ mfa' = [mfa EXCEPT !.codes = CodesLeft(d)]
    /\ spent' = spent \cup {device[d].code}
    /\ revived' = revived \cup (CodesLeft(d) \ mfa.codes)
    /\ UNCHANGED <<required, generated, pending, confirmed>>
    /\ Steps(d, [device[d] EXCEPT !.pc = "in", !.via = "password", !.proof = "code", !.read = NoMfa])

SignedIn(d) ==
    /\ At(d, "in")
    /\ UNCHANGED <<mfa, required, generated, pending, spent, revived, confirmed>>
    /\ Steps(d, NoDevice)

PendingExpires ==
    /\ pending = "out"
    /\ pending' = "none"
    /\ UNCHANGED <<mfa, required, generated, device, spent, revived, confirmed>>

\* An error (an update finds no row, say), or the end of the process.
DeviceBreaksOff(d) ==
    /\ ~Idle(d)
    /\ UNCHANGED <<mfa, required, generated, pending, spent, revived, confirmed>>
    /\ Steps(d, NoDevice)

----------------------------------------------------------------------------
(* Using the tokens *)

\* The tokens that JwtGuard takes, signed, not expired and of an active account:
\* the access tokens of the pairs, and that of a challenge, answered or not.
\* passed: the second factor was given for it, or did not apply.
Bearers == {[hasRole |-> TRUE, via |-> device[d].via,
             passed |-> device[d].proof # "none" \/ device[d].waived] : d \in {x \in Devices : At(x, "in")}}
           \cup {t \in {[hasRole |-> FALSE, via |-> "password", passed |-> FALSE]} : pending = "out"}

\* RolesGuard: the role in the token is among the required ones, if any are.
LetsThrough(t, requiresRole) == requiresRole => t.hasRole

SecondFactorNext ==
    \/ \E d \in Devices :
          \/ Setup(d) \/ EnableRead(d) \/ EnableWrite(d)
          \/ Disable(d)
          \/ RegenerateRead(d) \/ RegenerateWrite(d)
          \/ LoginRead(d) \/ LoginGate(d) \/ FederatedLogin(d)
          \/ ChallengeWithout(d) \/ ChallengeTotp(d)
          \/ \E k \in Codes : ChallengeCode(d, k)
          \/ UseCode(d) \/ SignedIn(d) \/ DeviceBreaksOff(d)
    \/ PendingExpires
    \/ \E b \in BOOLEAN : SetRequired(b)

SecondFactorSpec == SecondFactorInit /\ [][SecondFactorNext]_secondFactorVars

----------------------------------------------------------------------------
(* Properties *)

\* A password opens the routes that require a role only together with the
\* second factor, unless at some moment of its sign-in the account had none or
\* the company asked for none: although the company is read before the password
\* is checked and the row after, and although the token of a challenge passes
\* for an access token.  Routes without required roles are not covered, since
\* that token opens them, and neither are federated sign-ins.
NoWayAroundTheFactor ==
    \A t \in Bearers : t.via = "password" /\ LetsThrough(t, TRUE) => t.passed

\* A backup code is accepted again only by a challenge during which another call
\* wrote the row, or after an update computed from an older read put it back.
CodeWorksOnce ==
    [][\A d \in Devices : At(d, "useCode") /\ device'[d].pc = "in" /\ device[d].code \in spent =>
          device[d].crossed \/ device[d].code \in revived]_secondFactorVars

\* An enabled secret is one whose code its owner has shown, unless the row was
\* written between the check and the update that enables it.
EnabledIsConfirmed == mfa.enabled => mfa.secret \in confirmed
=============================================================================
