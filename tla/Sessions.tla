------------------------------ MODULE Sessions ------------------------------
(***************************************************************************)
(* The sessions of one account: the ways AuthService and                   *)
(* OidcFederationService sign in, the token pair they issue, and           *)
(* RefreshTokenService.  A sign-in reads the User row, awaits a password   *)
(* hash, an MFA check or an identity provider, and signs what it read; the *)
(* row is changed meanwhile by the actions of the module Accounts, which   *)
(* are single steps here.  Every row of RefreshToken is a family of its    *)
(* own, since no rotation ever adds a second one (see Refresh).            *)
(*                                                                         *)
(* All tokens are JWTs signed with one key, and verifyToken does not look  *)
(* at their type: the refresh token of a pair and the token of a challenge *)
(* authorise like an access token, on every route that asks for no role.   *)
(***************************************************************************)
EXTENDS Naturals, FiniteSets

CONSTANTS Tickets,    \* sessions that may be issued, a bound
          SignIns,    \* calls under way at the same time
          PlatformRoles

VARIABLES user,     \* active and platformRole of the User row
          session,  \* the RefreshToken row and the pair of tokens of a session
          signIn,   \* the calls
          challenge \* whether an mfa_pending token is out and not expired

sessionsVars == <<user, session, signIn, challenge>>

\* refresh: the row, "reused" when a live one was revoked as used before; tokens:
\* which of the pair are not expired (an access token lives minutes, the other
\* days); role: the claim in the access token.
Session == [refresh : {"none", "live", "revoked", "reused"}, tokens : {"both", "refresh", "none"},
            role : PlatformRoles]

\* row: the role the call read or grants; held: the account had that role, while
\* active, at some moment of the call; old: sessions live when an acceptance began.
SignInCall == [pc : {"idle", "password", "issue", "revoke", "accept"},
               row : PlatformRoles, held : BOOLEAN, old : SUBSET Tickets]
NoSignIn == [pc |-> "idle", row |-> CHOOSE r \in PlatformRoles : TRUE, held |-> FALSE, old |-> {}]

SessionsTypeOK == /\ user \in [active : BOOLEAN, role : PlatformRoles]
                  /\ session \in [Tickets -> Session]
                  /\ signIn \in [SignIns -> SignInCall]
                  /\ challenge \in {"none", "out"}

SessionsInit == /\ \E r \in PlatformRoles : user = [active |-> TRUE, role |-> r]
                /\ session = [s \in Tickets |-> [refresh |-> "none", tokens |-> "none", role |-> NoSignIn.row]]
                /\ signIn = [c \in SignIns |-> NoSignIn]
                /\ challenge = "none"

----------------------------------------------------------------------------

Issued == {s \in Tickets : session[s].refresh # "none"}
Live == {s \in Tickets : session[s].refresh = "live"}

\* What is stored is the hash of a random string, what the client gets is a
\* signed JWT; the hash of one is never the hash of the other.
StoredHash(s) == <<"random", s>>
HashOfClientToken(s) == <<"jwt", s>>
FindByToken(hash) == {s \in Issued : StoredHash(s) = hash}

\* Mutant: one row is updated instead of all.
RevokeFirst(S) == session' = [s \in Tickets |->
                     IF S # {} /\ s = (CHOOSE x \in S : TRUE) /\ s \in Live
                     THEN [session[s] EXCEPT !.refresh = "revoked"] ELSE session[s]]

Revoke(S) == session' = [s \in Tickets |->
                IF s \in S \cap Live THEN [session[s] EXCEPT !.refresh = "revoked"] ELSE session[s]]

\* verifyToken: a token of the account, whatever its type, is not expired, and the
\* account is active now.  The row of a refresh token is not looked at.
Authorised == /\ user.active
              /\ challenge = "out" \/ \E s \in Tickets : session[s].tokens # "none"

\* A call moves; the others remember the role the account has now.
Moves(c, rec) == signIn' = [signIn EXCEPT ![c] = rec]
Witnessed == [c \in SignIns |->
    IF signIn[c].pc \in {"password", "issue"} /\ user' = [active |-> TRUE, role |-> signIn[c].row]
    THEN [signIn[c] EXCEPT !.held = TRUE] ELSE signIn[c]]

----------------------------------------------------------------------------
(* Signing in *)

\* Mutant: whether the account is active is not asked.
AnyAccount(c) == TRUE

\* The check of the row that was read.
MaySignIn(c) == user.active

ReadsAccount(c, pc) ==
    /\ signIn[c].pc = "idle"
    /\ MaySignIn(c)
    /\ Moves(c, [NoSignIn EXCEPT !.pc = pc, !.row = user.role, !.held = user.active])
    /\ UNCHANGED <<user, session, challenge>>

\* loginPassword reads the user, then compares the hash and asks for the MFA status.
PasswordRead(c) == ReadsAccount(c, "password")

SecondFactorAsked(c) ==
    /\ signIn[c].pc = "password"
    /\ challenge' = "out"
    /\ Moves(c, NoSignIn)
    /\ UNCHANGED <<user, session>>

NoSecondFactor(c) ==
    /\ signIn[c].pc = "password"
    /\ Moves(c, [signIn[c] EXCEPT !.pc = "issue"])
    /\ UNCHANGED <<user, session, challenge>>

\* completeMfaChallenge, a call of its own with the token the first one got: the
\* code is checked, then the user is read again.
ChallengePassed(c) == challenge = "out" /\ ReadsAccount(c, "issue")

\* loginGoogle and handleOidcCallback, once they found or created the user.
FederatedRead(c) == ReadsAccount(c, "issue")

\* issueTokenPair: signs the row the call read, generateRefreshToken stores a
\* row in a new family.
IssueTokenPair(c, s) ==
    /\ signIn[c].pc = "issue"
    /\ s \notin Issued
    /\ session' = [session EXCEPT ![s] = [refresh |-> "live", tokens |-> "both", role |-> signIn[c].row]]
    /\ Moves(c, NoSignIn)
    /\ UNCHANGED <<user, challenge>>

----------------------------------------------------------------------------
(* acceptInvite of an account that was deactivated *)

AcceptRead(c, r) ==
    /\ signIn[c].pc = "idle"
    /\ ~user.active
    /\ Moves(c, [NoSignIn EXCEPT !.pc = "revoke", !.row = r, !.old = Live])
    /\ UNCHANGED <<user, session, challenge>>

\* revokeAllUserTokens, outside the transaction it is called in.
AcceptRevokes(c) ==
    /\ signIn[c].pc = "revoke"
    /\ Revoke(Live)
    /\ Moves(c, [signIn[c] EXCEPT !.pc = "accept"])
    /\ UNCHANGED <<user, challenge>>

AcceptTx(c) ==
    /\ signIn[c].pc = "accept"
    /\ user' = [active |-> TRUE, role |-> signIn[c].row]
    /\ signIn' = [Witnessed EXCEPT ![c].pc = "issue", ![c].held = TRUE]
    /\ UNCHANGED <<session, challenge>>

----------------------------------------------------------------------------
(* Sessions in use *)

\* rotateRefreshToken: no row has the hash of what the client presents, so the
\* call takes the branch for a token used before, revokes the family and fails;
\* the rotation below that branch is not reached.
Refresh(s) ==
    /\ session[s].tokens # "none"
    /\ FindByToken(HashOfClientToken(s)) = {}
    /\ session' = [session EXCEPT ![s].refresh = IF @ = "live" THEN "reused" ELSE @]
    /\ UNCHANGED <<user, signIn, challenge>>

\* logout: revokeRefreshToken by the hash of the token the client has.
Logout(t) ==
    /\ Authorised /\ t \in Issued
    /\ Revoke(FindByToken(HashOfClientToken(t)))
    /\ UNCHANGED <<user, signIn, challenge>>

LogoutAll ==
    /\ Authorised
    /\ Revoke(Live)
    /\ UNCHANGED <<user, signIn, challenge>>

\* The access token of a pair expires first.
TokenExpires(s) ==
    /\ session[s].tokens # "none"
    /\ session' = [session EXCEPT ![s].tokens = IF @ = "both" THEN "refresh" ELSE "none"]
    /\ UNCHANGED <<user, signIn, challenge>>

ChallengeExpires ==
    /\ challenge = "out"
    /\ challenge' = "none"
    /\ UNCHANGED <<user, session, signIn>>

\* What administrators and SCIM do to the row.
AccountChanges(active, r) ==
    /\ user' = [active |-> active, role |-> r]
    /\ user' # user
    /\ signIn' = Witnessed
    /\ UNCHANGED <<session, challenge>>

\* An error, or the end of the process.
SignInBreaksOff(c) ==
    /\ signIn[c].pc # "idle"
    /\ Moves(c, NoSignIn)
    /\ UNCHANGED <<user, session, challenge>>

SessionsNext ==
    \/ \E c \in SignIns :
          \/ PasswordRead(c) \/ SecondFactorAsked(c) \/ NoSecondFactor(c)
          \/ ChallengePassed(c) \/ FederatedRead(c)
          \/ \E s \in Tickets : IssueTokenPair(c, s)
          \/ \E r \in PlatformRoles : AcceptRead(c, r)
          \/ AcceptRevokes(c) \/ AcceptTx(c)
          \/ SignInBreaksOff(c)
    \/ \E s \in Tickets : Refresh(s) \/ Logout(s) \/ TokenExpires(s)
    \/ LogoutAll \/ ChallengeExpires
    \/ \E active \in BOOLEAN, r \in PlatformRoles : AccountChanges(active, r)

SessionsSpec == SessionsInit /\ [][SessionsNext]_sessionsVars

----------------------------------------------------------------------------
(* Properties *)

\* A token is signed with a role the account had, while it was active, at some
\* moment of the call that signed it, however the row changed during its awaits.
RoleWasHeld ==
    [][\A s \in Tickets : s \notin Issued /\ session'[s].refresh = "live" =>
          \E c \in SignIns : signIn[c].pc = "issue" /\ session'[s].role = signIn[c].row /\ signIn[c].held]_sessionsVars

\* When an invitation reactivates an account, the refresh tokens that were live
\* as the acceptance read the account are revoked, whatever ran in between.
OldSessionsAreRevoked ==
    [][\A c \in SignIns : signIn[c].pc = "accept" /\ signIn'[c].pc = "issue" =>
          signIn[c].old \cap Live = {}]_sessionsVars

\* "Refresh token reuse detected" (refresh-token.service.ts:99): a family is
\* ended as reused only if its token was rotated or revoked before.
RefreshIsReuse == \A s \in Tickets : session[s].refresh # "reused"
=============================================================================
