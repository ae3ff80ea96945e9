------------------------------ MODULE Accounts ------------------------------
(***************************************************************************)
(* The accounts of one company and the invitations to it: InvitationService*)
(* and AuthService.acceptInvite in src/src/auth, AdminService, ScimService *)
(* and the accounts a federated sign-in provisions.  Every endpoint checks *)
(* what it read and writes later, so a call is a slot of Admissions with   *)
(* what it read; an action runs from one await that matters to the next.   *)
(* Sessions and tokens are the module Sessions.                            *)
(***************************************************************************)
EXTENDS Naturals, FiniteSets

CONSTANTS Emails,           \* addresses, one User row each (@@unique companyId, email)
          Admissions,       \* calls under way at the same time
          Grants,           \* what invitations and updates grant: a role, and a membership or none
          MaxInvites,       \* bound on the invitations, the registration being number 1
          AdmissionFaults,  \* whether a call may break off
          Nobody

Roles == {"EMPLOYEE", "SYSTEM_ADMIN"}

ASSUME AccountsAssumption ==
    /\ Grants \subseteq [role : Roles, joins : BOOLEAN]
    /\ MaxInvites \in Nat \ {0}
    /\ AdmissionFaults \in BOOLEAN
    /\ Nobody \notin Emails
    /\ IsFiniteSet(Admissions)

VARIABLES account,     \* the User row of an address
          members,     \* addresses with a DepartmentMember row
          invitation,  \* the Invitation row of an address (@@unique companyId, email)
          issued,      \* number of the latest invitation
          call,        \* the calls
          wereAdmins,  \* addresses that may hold a token signed with SYSTEM_ADMIN
          open         \* addresses whose latest invitation was created and not used

accountsVars == <<account, members, invitation, issued, call, wereAdmins, open>>

Account == [status : {"absent", "active", "inactive"}, role : Roles]
NoAccount == [status |-> "absent", role |-> "EMPLOYEE"]

Invitation == [id : 0..MaxInvites, role : Roles, joins : BOOLEAN, fresh : BOOLEAN]
NoInvitation == [id |-> 0, role |-> "EMPLOYEE", joins |-> FALSE, fresh |-> FALSE]

\* actor: who deactivates; known: an acceptance found an account; invite: the
\* invitation a call creates or accepts, or the role and membership it grants.
Call == [pc : {"idle", "clear", "create", "accept", "setRole", "join", "deactivate", "reactivate"},
         actor : Emails \cup {Nobody}, email : Emails \cup {Nobody},
         known : BOOLEAN, invite : Invitation]
NoCall == [pc |-> "idle", actor |-> Nobody, email |-> Nobody, known |-> FALSE, invite |-> NoInvitation]

AccountsTypeOK == /\ account \in [Emails -> Account]
                  /\ members \subseteq Emails
                  /\ invitation \in [Emails -> Invitation]
                  /\ issued \in 1..MaxInvites
                  /\ call \in [Admissions -> Call]
                  /\ wereAdmins \subseteq Emails
                  /\ open \subseteq Emails

ActiveAdmins == {e \in Emails : account[e].status = "active" /\ account[e].role = "SYSTEM_ADMIN"}

\* After registerCompany: its administrator and nobody else.
AccountsInit == /\ \E a \in Emails :
                      /\ account = [e \in Emails |->
                            IF e = a THEN [status |-> "active", role |-> "SYSTEM_ADMIN"]
                                     ELSE NoAccount]
                      /\ wereAdmins = {a}
                /\ members = {}
                /\ invitation = [e \in Emails |-> NoInvitation]
                /\ issued = 1
                /\ call = [c \in Admissions |-> NoCall]
                /\ open = {}

----------------------------------------------------------------------------

\* JwtGuard and AdminGuard: the token says SYSTEM_ADMIN, as of its signature,
\* and the account is active now.
MayAdminister(a) == a \in wereAdmins /\ account[a].status = "active"

Begin(c, pc, actor, e, invite) ==
    /\ call[c] = NoCall
    /\ call' = [call EXCEPT ![c] = [pc |-> pc, actor |-> actor, email |-> e, invite |-> invite,
                                    known |-> pc = "accept" /\ account[e].status # "absent"]]
    /\ UNCHANGED <<account, members, invitation, issued, wereAdmins, open>>

Goto(c, pc) == call' = [call EXCEPT ![c].pc = pc]
End(c) == call' = [call EXCEPT ![c] = NoCall]

\* Whoever is an active administrator can sign in and hold a token that says so.
RemembersAdmins == wereAdmins' = wereAdmins \cup ActiveAdmins'

----------------------------------------------------------------------------
(* Invitations *)

\* InvitationService.create up to the checks.
Invite(c, a, e, g) ==
    /\ MayAdminister(a)
    /\ account[e].status # "active"
    /\ issued + Cardinality({d \in Admissions : call[d].pc \in {"clear", "create"}}) < MaxInvites
    /\ Begin(c, "clear", Nobody, e, [id |-> 0, role |-> g.role, joins |-> g.joins, fresh |-> TRUE])

\* Mutant: an account that is active by now ends the call after the delete.
GoesOnToCreateUnlessActive(c) ==
    IF account[call[c].email].status = "active" THEN End(c) ELSE Goto(c, "create")

GoesOnToCreate(c) == Goto(c, "create")

\* invitation.deleteMany by company and address.
ClearInvitation(c) ==
    /\ call[c].pc = "clear"
    /\ invitation' = [invitation EXCEPT ![call[c].email] = NoInvitation]
    /\ GoesOnToCreate(c)
    /\ UNCHANGED <<account, members, issued, wereAdmins, open>>

\* invitation.create, then the email; a row that exists makes it throw.
CreateInvitation(c) ==
    LET e == call[c].email IN
    /\ call[c].pc = "create"
    /\ invitation[e] = NoInvitation
    /\ issued' = issued + 1
    /\ invitation' = [invitation EXCEPT ![e] = [call[c].invite EXCEPT !.id = issued + 1]]
    /\ open' = open \cup {e}
    /\ End(c)
    /\ UNCHANGED <<account, members, wereAdmins>>

CreateCollides(c) ==
    /\ call[c].pc = "create"
    /\ invitation[call[c].email] # NoInvitation
    /\ End(c)
    /\ UNCHANGED <<account, members, invitation, issued, wereAdmins, open>>

\* expiresAt passes.
InvitationExpires(e) ==
    /\ invitation[e].fresh
    /\ invitation' = [invitation EXCEPT ![e].fresh = FALSE]
    /\ UNCHANGED <<account, members, issued, call, wereAdmins, open>>

\* acceptInvite up to the hash of the password: the invitation by its token,
\* its expiry, the account.
Accept(c, e) ==
    /\ invitation[e].fresh
    /\ account[e].status # "active"
    /\ Begin(c, "accept", Nobody, e, invitation[e])

\* Mutant: whatever invitation the address has is used up.
InvitationOfAddress(c) == invitation[call[c].email] # NoInvitation

\* The delete by id finds the invitation that was read.
InvitationIsThere(c) == invitation[call[c].email].id = call[c].invite.id

\* The transaction: the account is created or updated, the membership written,
\* the invitation deleted by its id.
AcceptCommits(c) ==
    LET e == call[c].email
        inv == call[c].invite IN
    /\ call[c].pc = "accept"
    /\ call[c].known \/ account[e].status = "absent"
    /\ InvitationIsThere(c)
    /\ account' = [account EXCEPT ![e] = [status |-> "active", role |-> inv.role]]
    /\ members' = IF inv.joins THEN members \cup {e} ELSE members
    /\ invitation' = [invitation EXCEPT ![e] = NoInvitation]
    /\ open' = open \ {e}
    /\ RemembersAdmins
    /\ End(c)
    /\ UNCHANGED issued

\* The address was taken, or the invitation is gone: the transaction rolls back.
AcceptRollsBack(c) ==
    LET e == call[c].email IN
    /\ call[c].pc = "accept"
    /\ \/ ~call[c].known /\ account[e].status # "absent"
       \/ ~InvitationIsThere(c)
    /\ End(c)
    /\ UNCHANGED <<account, members, invitation, issued, wereAdmins, open>>

----------------------------------------------------------------------------
(* Administration *)

\* updateUser: the role first, then the department, each when the body has it.
UpdateUser(c, a, e, g, pc) ==
    /\ MayAdminister(a)
    /\ account[e].status = "active"
    /\ pc = "join" => g.joins
    /\ Begin(c, pc, Nobody, e, [id |-> 0, role |-> g.role, joins |-> g.joins, fresh |-> FALSE])

SetRole(c) ==
    /\ call[c].pc = "setRole"
    /\ account' = [account EXCEPT ![call[c].email].role = call[c].invite.role]
    /\ RemembersAdmins
    /\ IF call[c].invite.joins THEN Goto(c, "join") ELSE End(c)
    /\ UNCHANGED <<members, invitation, issued, open>>

Join(c) ==
    /\ call[c].pc = "join"
    /\ members' = members \cup {call[c].email}
    /\ End(c)
    /\ UNCHANGED <<account, invitation, issued, wereAdmins, open>>

\* Mutant: administrators may deactivate themselves.
MayDeactivateAnyone(a, e) == account[e].status # "absent"

MayDeactivate(a, e) == account[e].status # "absent" /\ a # e

\* Mutant: the call is written as the status.
StatusIsTheCall(pc) == IF pc = "deactivate" THEN "inactive" ELSE pc

StatusAfter(pc) == IF pc = "deactivate" THEN "inactive" ELSE "active"

\* deactivateUser and reactivateUser: the checks, then the update.
Deactivate(c, a, e) ==
    /\ MayAdminister(a)
    /\ MayDeactivate(a, e)
    /\ Begin(c, "deactivate", a, e, NoInvitation)

Reactivate(c, a, e) ==
    /\ MayAdminister(a)
    /\ account[e].status = "inactive"
    /\ Begin(c, "reactivate", Nobody, e, NoInvitation)

SetActive(c) ==
    /\ call[c].pc \in {"deactivate", "reactivate"}
    /\ account' = [account EXCEPT ![call[c].email].status = StatusAfter(call[c].pc)]
    /\ RemembersAdmins
    /\ End(c)
    /\ UNCHANGED <<members, invitation, issued, open>>

----------------------------------------------------------------------------
(* Accounts from outside.  The token of a SCIM call was checked when it came *)
(* in, the write comes any time later; a federated sign-in found no account  *)
(* and creates one.  A row that exists makes either create throw.            *)

ScimCreate(e) ==
    /\ account[e].status = "absent"
    /\ account' = [account EXCEPT ![e] = [status |-> "active", role |-> "EMPLOYEE"]]
    /\ UNCHANGED <<members, invitation, issued, call, wereAdmins, open>>

ScimUpdate(e, status) ==
    /\ account[e].status # "absent"
    /\ account' = [account EXCEPT ![e].status = status]
    /\ RemembersAdmins
    /\ UNCHANGED <<members, invitation, issued, call, open>>

ScimDelete(e) == ScimUpdate(e, "inactive")

ScimRequest(e) == \/ ScimCreate(e)
                  \/ \E status \in {"active", "inactive"} : ScimUpdate(e, status)
                  \/ ScimDelete(e)

Provision(e) == ScimCreate(e)

----------------------------------------------------------------------------

\* An error, or the end of the process, at an await.  An invitation deleted
\* for a replacement that never comes is no longer counted as open.
CallBreaksOff(c) ==
    /\ AdmissionFaults
    /\ call[c].pc # "idle"
    /\ open' = IF call[c].pc = "create" THEN open \ {call[c].email} ELSE open
    /\ End(c)
    /\ UNCHANGED <<account, members, invitation, issued, wereAdmins>>

AccountsNext ==
    \/ \E c \in Admissions :
          \/ \E a \in Emails, e \in Emails :
                \/ \E g \in Grants : Invite(c, a, e, g)
                \/ \E g \in Grants, pc \in {"setRole", "join"} : UpdateUser(c, a, e, g, pc)
                \/ Deactivate(c, a, e)
                \/ Reactivate(c, a, e)
          \/ \E e \in Emails : Accept(c, e)
          \/ ClearInvitation(c)
          \/ CreateInvitation(c)
          \/ CreateCollides(c)
          \/ AcceptCommits(c)
          \/ AcceptRollsBack(c)
          \/ SetRole(c)
          \/ Join(c)
          \/ SetActive(c)
          \/ CallBreaksOff(c)
    \/ \E e \in Emails :
          \/ InvitationExpires(e)
          \/ ScimRequest(e)
          \/ Provision(e)

AccountsSpec == AccountsInit /\ [][AccountsNext]_accountsVars

----------------------------------------------------------------------------
(* Properties *)

\* An acceptance takes effect only by using up the invitation it read, and with
\* the role and the membership that invitation grants: of two acceptances of one
\* invitation, or an acceptance and a new invitation, one fails as a whole.
AcceptanceUsesInvitation ==
    [][\A c \in Admissions :
          LET e == call[c].email IN
          call[c].pc = "accept" /\ call'[c].pc = "idle" /\ <<account, members>>' # <<account, members>> =>
             /\ invitation[e] = [call[c].invite EXCEPT !.fresh = invitation[e].fresh]
             /\ invitation'[e] = NoInvitation
             /\ account'[e] = [status |-> "active", role |-> invitation[e].role]
             /\ invitation[e].joins => e \in members']_accountsVars

\* An invitation someone was sent is not lost when it is replaced: unless the
\* replacing call breaks off, the address has an invitation, or a call is about
\* to create it.
ReplacedNotLost ==
    \A e \in open : \/ invitation[e].id # 0
                    \/ \E c \in Admissions : call[c].pc = "create" /\ call[c].email = e

\* deactivateUser takes the last active administrator away only from a company
\* whose acting administrator is no administrator any more: "Cannot deactivate
\* yourself" is enough as long as the token is current.
LastAdminFallsToStaleToken ==
    [][\A c \in Admissions :
          call[c].pc = "deactivate" /\ account' # account /\ ActiveAdmins # {} /\ ActiveAdmins' = {}
             /\ call'[c].pc = "idle"
          => call[c].actor \notin ActiveAdmins]_accountsVars
=============================================================================
