--------------------------- MODULE AccountsProofs ---------------------------
(***************************************************************************)
(* Theorems about Accounts, for any addresses, any number of invitations   *)
(* and of calls under way at the same time.                                *)
(***************************************************************************)
EXTENDS Accounts, FiniteSetTheorems, TLAPS

\* A call is about an address; who deactivates is another one; an acceptance
\* has read an invitation that was sent, and while the address has it, that one
\* grants what was read.
CallIsRight(c) ==
    LET k == call[c] IN
    /\ k.pc # "idle" => k.email \in Emails
    /\ k.pc = "deactivate" => k.actor # k.email
    /\ k.pc = "accept" =>
          /\ k.invite.id \in 1..issued
          /\ invitation[k.email].id = k.invite.id =>
                /\ invitation[k.email].role = k.invite.role
                /\ invitation[k.email].joins = k.invite.joins

\* Invitations are numbered as they are issued; number 0 is none.
InvitationIsRight(e) == /\ invitation[e].id \in 0..issued
                        /\ invitation[e].id = 0 => invitation[e] = NoInvitation

\* The calls that may still issue an invitation have room to.
Pending == {d \in Admissions : call[d].pc \in {"clear", "create"}}
HasRoom == issued + Cardinality(Pending) <= MaxInvites

Inv == /\ AccountsTypeOK
       /\ \A c \in Admissions : CallIsRight(c)
       /\ \A e \in Emails : InvitationIsRight(e)
       /\ HasRoom
       /\ ReplacedNotLost

LEMMA PendingIsFinite == IsFiniteSet(Pending) /\ Cardinality(Pending) \in Nat
<1>1. Pending \subseteq Admissions
  BY DEF Pending
<1> QED
  BY <1>1, AccountsAssumption, FS_Subset, FS_CardinalityType DEF AccountsAssumption

LEMMA RoomStays ==
    ASSUME HasRoom, Pending' \subseteq Pending, issued' = issued, issued \in Nat
    PROVE  HasRoom'
<1>1. Cardinality(Pending') \in Nat /\ Cardinality(Pending') <= Cardinality(Pending)
  BY PendingIsFinite, FS_Subset, FS_CardinalityType
<1>2. Cardinality(Pending)' = Cardinality(Pending')
  OBVIOUS
<1> QED
  BY <1>1, PendingIsFinite, AccountsAssumption DEF HasRoom, AccountsAssumption

LEMMA NothingIsTyped == NoCall \in Call /\ NoInvitation \in Invitation /\ NoAccount \in Account
BY AccountsAssumption DEF AccountsAssumption, NoCall, Call, NoInvitation, Invitation, NoAccount, Account, Roles

LEMMA InitInv == AccountsInit => Inv
<1> SUFFICES ASSUME AccountsInit PROVE Inv
  OBVIOUS
<1>1. AccountsTypeOK
  BY NothingIsTyped, AccountsAssumption DEF AccountsInit, AccountsTypeOK, AccountsAssumption, Account, Roles
<1>2. \A c \in Admissions : CallIsRight(c)
  BY DEF AccountsInit, CallIsRight, NoCall
<1>3. \A e \in Emails : InvitationIsRight(e)
  BY DEF AccountsInit, InvitationIsRight, NoInvitation
<1>4. HasRoom
  <2>1. Pending = {}
    BY DEF AccountsInit, Pending, NoCall
  <2> QED
    BY <2>1, FS_EmptySet, AccountsAssumption DEF AccountsInit, HasRoom, AccountsAssumption
<1>5. ReplacedNotLost
  BY DEF AccountsInit, ReplacedNotLost
<1> QED
  BY <1>1, <1>2, <1>3, <1>4, <1>5 DEF Inv

----------------------------------------------------------------------------
(* A call begins *)

LEMMA BeginKeepsInv ==
    ASSUME Inv, NEW c \in Admissions, NEW e \in Emails, NEW actor \in Emails \cup {Nobody},
           NEW invite \in Invitation,
           NEW pc \in {"clear", "accept", "setRole", "join", "deactivate", "reactivate"},
           Begin(c, pc, actor, e, invite),
           pc = "clear" => issued + Cardinality(Pending) < MaxInvites,
           pc = "deactivate" => actor # e,
           pc = "accept" => invite = invitation[e] /\ invite.id # 0
    PROVE  Inv'
<1>1. /\ call[c].pc = "idle"
      /\ call' \in [Admissions -> Call]
      /\ call'[c].pc = pc /\ call'[c].email = e /\ call'[c].actor = actor /\ call'[c].invite = invite
      /\ \A x \in Admissions \ {c} : call'[x] = call[x]
      /\ UNCHANGED <<account, members, invitation, issued, wereAdmins, open>>
  BY DEF Begin, NoCall, Inv, AccountsTypeOK, Call
<1>2. AccountsTypeOK'
  BY <1>1 DEF Inv, AccountsTypeOK
<1>3. \A x \in Admissions : CallIsRight(x)'
  <2> SUFFICES ASSUME NEW x \in Admissions PROVE CallIsRight(x)'
    OBVIOUS
  <2>1. CASE x = c
    <3>1. pc = "accept" => invite.id \in 1..issued
      BY DEF Inv, InvitationIsRight, AccountsTypeOK
    <3> QED
      BY <2>1, <3>1, <1>1 DEF CallIsRight
  <2>2. CASE x # c
    BY <2>2, <1>1 DEF Inv, CallIsRight
  <2> QED
    BY <2>1, <2>2
<1>4. \A x \in Emails : InvitationIsRight(x)'
  BY <1>1 DEF Inv, InvitationIsRight
<1>5. HasRoom'
  <2>0. issued \in Nat /\ issued' = issued
    BY <1>1 DEF Inv, AccountsTypeOK
  <2>1. CASE pc = "clear"
    <3>1. Pending' = Pending \cup {c} /\ c \notin Pending
      BY <2>1, <1>1 DEF Pending
    <3>2. Cardinality(Pending') = Cardinality(Pending) + 1
      BY <3>1, PendingIsFinite, FS_AddElement
    <3>3. Cardinality(Pending)' = Cardinality(Pending')
      OBVIOUS
    <3> QED
      BY <2>0, <2>1, <3>2, <3>3, PendingIsFinite, AccountsAssumption DEF HasRoom, AccountsAssumption
  <2>2. CASE pc # "clear"
    <3>1. Pending' \subseteq Pending
      BY <2>2, <1>1 DEF Pending
    <3> QED
      BY <2>0, <3>1, RoomStays DEF Inv
  <2> QED
    BY <2>1, <2>2
<1>6. ReplacedNotLost'
  BY <1>1 DEF Inv, ReplacedNotLost
<1> QED
  BY <1>2, <1>3, <1>4, <1>5, <1>6 DEF Inv

LEMMA InviteStep ==
    ASSUME Inv, NEW c \in Admissions, NEW a \in Emails, NEW e \in Emails, NEW g \in Grants, Invite(c, a, e, g)
    PROVE  Inv'
<1> DEFINE invite == [id |-> 0, role |-> g.role, joins |-> g.joins, fresh |-> TRUE]
<1>1. invite \in Invitation
  BY AccountsAssumption DEF AccountsAssumption, Invitation
<1>2. Begin(c, "clear", Nobody, e, invite) /\ issued + Cardinality(Pending) < MaxInvites
  BY DEF Invite, Pending
<1> QED
  BY <1>1, <1>2, BeginKeepsInv

LEMMA UpdateStep ==
    ASSUME Inv, NEW c \in Admissions, NEW a \in Emails, NEW e \in Emails, NEW g \in Grants,
           NEW pc \in {"setRole", "join"}, UpdateUser(c, a, e, g, pc)
    PROVE  Inv'
<1> DEFINE invite == [id |-> 0, role |-> g.role, joins |-> g.joins, fresh |-> FALSE]
<1>1. invite \in Invitation
  BY AccountsAssumption DEF AccountsAssumption, Invitation
<1>2. Begin(c, pc, Nobody, e, invite)
  BY DEF UpdateUser
<1> QED
  BY <1>1, <1>2, BeginKeepsInv

LEMMA ActivityStep ==
    ASSUME Inv, NEW c \in Admissions, NEW a \in Emails, NEW e \in Emails,
           Deactivate(c, a, e) \/ Reactivate(c, a, e)
    PROVE  Inv'
<1>1. CASE Deactivate(c, a, e)
  BY <1>1, NothingIsTyped, BeginKeepsInv DEF Deactivate, MayDeactivate
<1>2. CASE Reactivate(c, a, e)
  BY <1>2, NothingIsTyped, BeginKeepsInv DEF Reactivate
<1> QED
  BY <1>1, <1>2

LEMMA AcceptStep ==
    ASSUME Inv, NEW c \in Admissions, NEW e \in Emails, Accept(c, e)
    PROVE  Inv'
<1>1. invitation[e] \in Invitation /\ invitation[e].id # 0
  BY DEF Accept, Inv, AccountsTypeOK, InvitationIsRight, NoInvitation
<1>2. Begin(c, "accept", Nobody, e, invitation[e])
  BY DEF Accept
<1> QED
  BY <1>1, <1>2, BeginKeepsInv

----------------------------------------------------------------------------
(* A call goes on *)

\* Without touching invitations: it ends, or joins a department.
LEMMA GoOnKeepsInv ==
    ASSUME Inv, NEW c \in Admissions, AccountsTypeOK',
           End(c) \/ (Goto(c, "join") /\ call[c].pc = "setRole"),
           UNCHANGED <<invitation, issued>>, open' \subseteq open,
           call[c].pc = "create" => call[c].email \notin open' \/ invitation[call[c].email] # NoInvitation
    PROVE  Inv'
<1>1. \A x \in Admissions \ {c} : call'[x] = call[x]
  BY DEF Inv, AccountsTypeOK, End, Goto
<1>2. \/ call'[c].pc = "idle"
      \/ call'[c].pc = "join" /\ call'[c].email = call[c].email /\ call[c].pc = "setRole"
  BY DEF Inv, AccountsTypeOK, End, Goto, NoCall, Call
<1>3. \A x \in Admissions : CallIsRight(x)'
  <2> TAKE x \in Admissions
  <2>1. CASE x = c
    BY <2>1, <1>2 DEF Inv, CallIsRight
  <2>2. CASE x # c
    BY <2>2, <1>1 DEF Inv, CallIsRight
  <2> QED
    BY <2>1, <2>2
<1>4. \A x \in Emails : InvitationIsRight(x)'
  BY DEF Inv, InvitationIsRight
<1>5. HasRoom'
  <2>1. Pending' \subseteq Pending
    BY <1>1, <1>2 DEF Pending
  <2> QED
    BY <2>1, RoomStays DEF Inv, AccountsTypeOK
<1>6. ReplacedNotLost'
  <2> SUFFICES ASSUME NEW e \in open', invitation[e].id = 0
               PROVE  \E x \in Admissions : call'[x].pc = "create" /\ call'[x].email = e
    BY DEF ReplacedNotLost
  <2>1. e \in open /\ e \in Emails
    BY DEF Inv, AccountsTypeOK
  <2>2. PICK x \in Admissions : call[x].pc = "create" /\ call[x].email = e
    BY <2>1 DEF Inv, ReplacedNotLost
  <2>3. x # c
    BY <2>1, <2>2 DEF Inv, InvitationIsRight
  <2> QED
    BY <2>2, <2>3, <1>1
<1> QED
  BY <1>3, <1>4, <1>5, <1>6 DEF Inv

LEMMA GoOnSteps ==
    ASSUME Inv, NEW c \in Admissions,
           \/ CreateCollides(c) \/ AcceptRollsBack(c) \/ CallBreaksOff(c)
           \/ SetRole(c) \/ Join(c) \/ SetActive(c)
    PROVE  Inv'
<1>1. call[c] \in Call /\ CallIsRight(c)
  BY DEF Inv, AccountsTypeOK
<1>2. End(c) => call' \in [Admissions -> Call]
  BY NothingIsTyped DEF Inv, AccountsTypeOK, End
<1>3. CASE CreateCollides(c) \/ AcceptRollsBack(c) \/ CallBreaksOff(c)
  <2>1. AccountsTypeOK'
    BY <1>2, <1>3 DEF CreateCollides, AcceptRollsBack, CallBreaksOff, Inv, AccountsTypeOK
  <2>2. CASE CreateCollides(c)
    BY <2>1, <2>2, GoOnKeepsInv DEF CreateCollides
  <2>3. CASE AcceptRollsBack(c)
    BY <2>1, <2>3, GoOnKeepsInv DEF AcceptRollsBack
  <2>4. CASE CallBreaksOff(c)
    BY <2>1, <2>4, GoOnKeepsInv DEF CallBreaksOff
  <2> QED
    BY <1>3, <2>2, <2>3, <2>4
<1>5. CASE SetRole(c)
  <2>0. call[c].invite.role \in Roles /\ ActiveAdmins' \subseteq Emails
    BY <1>1 DEF Call, Invitation, ActiveAdmins
  <2>1. account' \in [Emails -> Account] /\ wereAdmins' \subseteq Emails
    BY <2>0, <1>5 DEF SetRole, RemembersAdmins, Inv, AccountsTypeOK, Account
  <2>2. Goto(c, "join") => call' \in [Admissions -> Call]
    BY <1>1 DEF Goto, Inv, AccountsTypeOK, Call
  <2>3. AccountsTypeOK'
    BY <2>1, <2>2, <1>2, <1>5 DEF SetRole, Inv, AccountsTypeOK
  <2> QED
    BY <2>3, <1>5, GoOnKeepsInv DEF SetRole
<1>6. CASE Join(c)
  <2>1. AccountsTypeOK'
    BY <1>1, <1>2, <1>6 DEF Join, CallIsRight, Inv, AccountsTypeOK
  <2> QED
    BY <2>1, <1>6, GoOnKeepsInv DEF Join
<1>7. CASE SetActive(c)
  <2>0. ActiveAdmins' \subseteq Emails
    BY DEF ActiveAdmins
  <2>1. account' \in [Emails -> Account] /\ wereAdmins' \subseteq Emails
    BY <2>0, <1>7 DEF SetActive, StatusAfter, RemembersAdmins, Inv, AccountsTypeOK, Account
  <2>2. AccountsTypeOK'
    BY <2>1, <1>2, <1>7 DEF SetActive, Inv, AccountsTypeOK
  <2> QED
    BY <2>2, <1>7, GoOnKeepsInv DEF SetActive
<1> QED
  BY <1>3, <1>5, <1>6, <1>7

\* The invitation of an address goes: whoever read it finds none.
LEMMA ClearStep ==
    ASSUME Inv, NEW c \in Admissions, ClearInvitation(c)
    PROVE  Inv'
<1> DEFINE e == call[c].email
<1>1. /\ e \in Emails /\ call[c] \in Call /\ call[c].pc = "clear"
      /\ invitation' = [invitation EXCEPT ![e] = NoInvitation]
      /\ UNCHANGED <<account, members, issued, wereAdmins, open>>
  BY DEF ClearInvitation, Inv, AccountsTypeOK, CallIsRight
<1>2. /\ call'[c].pc = "create" /\ call'[c].email = e
      /\ \A x \in Admissions \ {c} : call'[x] = call[x]
      /\ call' \in [Admissions -> Call]
  BY <1>1 DEF ClearInvitation, GoesOnToCreate, Goto, Inv, AccountsTypeOK, Call
<1>3. AccountsTypeOK'
  BY <1>1, <1>2, NothingIsTyped DEF Inv, AccountsTypeOK
<1>4. invitation'[e] = NoInvitation /\ \A x \in Emails \ {e} : invitation'[x] = invitation[x]
  BY <1>1 DEF Inv, AccountsTypeOK
<1>5. \A x \in Admissions : CallIsRight(x)'
  <2> TAKE x \in Admissions
  <2>1. CASE x = c
    BY <2>1, <1>1, <1>2 DEF CallIsRight
  <2>2. CASE x # c
    <3>1. CallIsRight(x) /\ call'[x] = call[x] /\ issued' = issued
      BY <2>2, <1>1, <1>2 DEF Inv
    <3>2. CASE call[x].email = e
      <4>1. call[x].pc = "accept" => call[x].invite.id # invitation'[call[x].email].id
        BY <3>1, <3>2, <1>4 DEF CallIsRight, NoInvitation
      <4> QED
        BY <4>1, <3>1 DEF CallIsRight
    <3>3. CASE call[x].email # e
      BY <3>1, <3>3, <1>4 DEF CallIsRight
    <3> QED
      BY <3>2, <3>3
  <2> QED
    BY <2>1, <2>2
<1>6. \A x \in Emails : InvitationIsRight(x)'
  <2>1. issued \in Nat /\ NoInvitation.id = 0
    BY DEF Inv, AccountsTypeOK, NoInvitation
  <2> QED
    BY <2>1, <1>1, <1>4 DEF Inv, InvitationIsRight
<1>7. HasRoom'
  <2>1. Pending' \subseteq Pending
    BY <1>1, <1>2 DEF Pending
  <2> QED
    BY <2>1, <1>1, RoomStays DEF Inv, AccountsTypeOK
<1>8. ReplacedNotLost'
  <2> SUFFICES ASSUME NEW x \in open, x # e, invitation'[x].id = 0
               PROVE  \E d \in Admissions : call'[d].pc = "create" /\ call'[d].email = x
    BY <1>1, <1>2 DEF ReplacedNotLost
  <2>1. x \in Emails /\ invitation[x].id = 0
    BY <1>4 DEF Inv, AccountsTypeOK
  <2>2. PICK d \in Admissions : call[d].pc = "create" /\ call[d].email = x
    BY <2>1 DEF Inv, ReplacedNotLost
  <2> QED
    BY <2>2, <1>1, <1>2
<1> QED
  BY <1>3, <1>5, <1>6, <1>7, <1>8 DEF Inv

\* A new invitation has a number no acceptance has read.
LEMMA CreateStep ==
    ASSUME Inv, NEW c \in Admissions, CreateInvitation(c)
    PROVE  Inv'
<1> DEFINE e == call[c].email
           new == [call[c].invite EXCEPT !.id = issued + 1]
<1>1. /\ e \in Emails /\ call[c] \in Call /\ c \in Pending /\ issued \in Nat
      /\ issued' = issued + 1 /\ open' = open \cup {e}
      /\ UNCHANGED <<account, members, wereAdmins>>
  BY DEF CreateInvitation, Inv, AccountsTypeOK, CallIsRight, Pending
<1>2. /\ invitation'[e] = new /\ \A x \in Emails \ {e} : invitation'[x] = invitation[x]
      /\ new.id = issued + 1
  BY <1>1 DEF CreateInvitation, Inv, AccountsTypeOK, Call, Invitation
<1>3. call'[c] = NoCall /\ (\A x \in Admissions \ {c} : call'[x] = call[x]) /\ NoCall.pc = "idle"
  BY DEF CreateInvitation, End, Inv, AccountsTypeOK, NoCall
<1>4. issued + 1 <= MaxInvites /\ HasRoom'
  <2>1. Pending' = Pending \ {c}
    BY <1>3 DEF Pending
  <2>2. Cardinality(Pending') = Cardinality(Pending) - 1
    BY <2>1, <1>1, PendingIsFinite, FS_RemoveElement
  <2>3. Cardinality(Pending') \in Nat /\ Cardinality(Pending)' = Cardinality(Pending')
    BY <2>1, PendingIsFinite, FS_Subset, FS_CardinalityType
  <2> QED
    BY <2>2, <2>3, <1>1, PendingIsFinite, AccountsAssumption DEF Inv, HasRoom, AccountsAssumption
<1>5. AccountsTypeOK'
  <2>1. new \in Invitation
    BY <1>1, <1>4, AccountsAssumption DEF Call, Invitation, AccountsAssumption
  <2>2. call' \in [Admissions -> Call] /\ invitation' \in [Emails -> Invitation]
    BY <2>1, NothingIsTyped DEF CreateInvitation, End, Inv, AccountsTypeOK
  <2> QED
    BY <2>2, <1>1, <1>4, AccountsAssumption DEF Inv, AccountsTypeOK, AccountsAssumption
<1>6. \A x \in Admissions : CallIsRight(x)'
  <2> TAKE x \in Admissions
  <2>1. CASE x = c
    BY <2>1, <1>3 DEF CallIsRight
  <2>2. CASE x # c
    <3>1. CallIsRight(x) /\ call'[x] = call[x]
      BY <2>2, <1>3 DEF Inv
    <3>2. call[x].pc = "accept" => call[x].invite.id # issued + 1 /\ call[x].invite.id \in 1..issued'
      BY <3>1, <1>1 DEF CallIsRight
    <3>3. CASE call[x].email = e
      <4>1. call[x].pc = "accept" => call[x].invite.id # invitation'[call[x].email].id
        BY <3>2, <3>3, <1>2
      <4> QED
        BY <4>1, <3>1, <3>2 DEF CallIsRight
    <3>4. CASE call[x].email # e
      <4>1. call[x].pc = "accept" => call[x].email \in Emails \ {e}
        BY <3>1, <3>4 DEF CallIsRight
      <4>2. call[x].pc = "accept" => invitation'[call[x].email] = invitation[call[x].email]
        BY <4>1, <1>2
      <4> QED
        BY <4>2, <3>1, <3>2 DEF CallIsRight
    <3> QED
      BY <3>3, <3>4
  <2> QED
    BY <2>1, <2>2
<1>7. \A x \in Emails : InvitationIsRight(x)'
  <2> TAKE x \in Emails
  <2>1. CASE x = e
    BY <2>1, <1>1, <1>2 DEF InvitationIsRight
  <2>2. CASE x # e
    BY <2>2, <1>1, <1>2 DEF Inv, InvitationIsRight
  <2> QED
    BY <2>1, <2>2
<1>8. ReplacedNotLost'
  <2> SUFFICES ASSUME NEW x \in open', invitation'[x].id = 0
               PROVE  \E d \in Admissions : call'[d].pc = "create" /\ call'[d].email = x
    BY DEF ReplacedNotLost
  <2>1. x # e
    <3>1. invitation'[e].id # 0
      BY <1>1, <1>2
    <3> QED
      BY <3>1
  <2>2. x \in open /\ x \in Emails
    BY <2>1, <1>1 DEF Inv, AccountsTypeOK
  <2>3. PICK d \in Admissions : call[d].pc = "create" /\ call[d].email = x
    BY <2>1, <2>2, <1>2 DEF Inv, ReplacedNotLost
  <2> QED
    BY <2>1, <2>3, <1>3
<1> QED
  BY <1>4, <1>5, <1>6, <1>7, <1>8 DEF Inv

LEMMA CommitStep ==
    ASSUME Inv, NEW c \in Admissions, AcceptCommits(c)
    PROVE  Inv'
<1> DEFINE e == call[c].email
<1>1. /\ e \in Emails /\ call[c] \in Call /\ call[c].pc = "accept"
      /\ issued' = issued /\ open' = open \ {e}
  BY DEF AcceptCommits, Inv, AccountsTypeOK, CallIsRight
<1>2. invitation'[e] = NoInvitation /\ \A x \in Emails \ {e} : invitation'[x] = invitation[x]
  BY <1>1 DEF AcceptCommits, Inv, AccountsTypeOK
<1>3. call'[c] = NoCall /\ (\A x \in Admissions \ {c} : call'[x] = call[x]) /\ NoCall.pc = "idle"
  BY DEF AcceptCommits, End, Inv, AccountsTypeOK, NoCall
<1>4. AccountsTypeOK'
  <2>1. account' \in [Emails -> Account] /\ members' \subseteq Emails
    BY <1>1 DEF AcceptCommits, Inv, AccountsTypeOK, Account, Call, Invitation
  <2>2. call' \in [Admissions -> Call] /\ invitation' \in [Emails -> Invitation]
    BY NothingIsTyped DEF AcceptCommits, End, Inv, AccountsTypeOK
  <2>3. wereAdmins' \subseteq Emails
    BY DEF AcceptCommits, RemembersAdmins, ActiveAdmins, Inv, AccountsTypeOK
  <2> QED
    BY <2>1, <2>2, <2>3, <1>1 DEF Inv, AccountsTypeOK
<1>5. \A x \in Admissions : CallIsRight(x)'
  <2> TAKE x \in Admissions
  <2>1. CASE x = c
    BY <2>1, <1>3 DEF CallIsRight
  <2>2. CASE x # c
    <3>1. CallIsRight(x) /\ call'[x] = call[x] /\ issued' = issued
      BY <2>2, <1>1, <1>3 DEF Inv
    <3>2. CASE call[x].email = e
      <4>1. call[x].pc = "accept" => call[x].invite.id # invitation'[call[x].email].id
        BY <3>1, <3>2, <1>2 DEF CallIsRight, NoInvitation
      <4> QED
        BY <4>1, <3>1 DEF CallIsRight
    <3>3. CASE call[x].email # e
      BY <3>1, <3>3, <1>2 DEF CallIsRight
    <3> QED
      BY <3>2, <3>3
  <2> QED
    BY <2>1, <2>2
<1>6. \A x \in Emails : InvitationIsRight(x)'
  <2>1. issued \in Nat /\ NoInvitation.id = 0
    BY DEF Inv, AccountsTypeOK, NoInvitation
  <2> QED
    BY <2>1, <1>1, <1>2 DEF Inv, InvitationIsRight
<1>7. HasRoom'
  <2>1. Pending' \subseteq Pending
    BY <1>3 DEF Pending
  <2> QED
    BY <2>1, <1>1, RoomStays DEF Inv, AccountsTypeOK
<1>8. ReplacedNotLost'
  <2> SUFFICES ASSUME NEW x \in open, x # e, invitation'[x].id = 0
               PROVE  \E d \in Admissions : call'[d].pc = "create" /\ call'[d].email = x
    BY <1>1 DEF ReplacedNotLost
  <2>1. x \in Emails /\ invitation[x].id = 0
    BY <1>2 DEF Inv, AccountsTypeOK
  <2>2. PICK d \in Admissions : call[d].pc = "create" /\ call[d].email = x
    BY <2>1 DEF Inv, ReplacedNotLost
  <2> QED
    BY <2>2, <1>1, <1>3
<1> QED
  BY <1>4, <1>5, <1>6, <1>7, <1>8 DEF Inv

----------------------------------------------------------------------------
(* The rest *)

LEMMA OutsideSteps ==
    ASSUME Inv, NEW e \in Emails, InvitationExpires(e) \/ ScimRequest(e) \/ Provision(e)
    PROVE  Inv'
<1>1. UNCHANGED <<members, issued, call, open>>
  BY DEF InvitationExpires, ScimRequest, ScimCreate, ScimUpdate, ScimDelete, Provision
<1>2. account' \in [Emails -> Account] /\ wereAdmins' \subseteq Emails
  <2>1. CASE ScimCreate(e)
    BY <2>1 DEF ScimCreate, Inv, AccountsTypeOK, Account, Roles
  <2>2. CASE \E status \in {"active", "inactive"} : ScimUpdate(e, status)
    BY <2>2 DEF ScimUpdate, RemembersAdmins, ActiveAdmins, Inv, AccountsTypeOK, Account
  <2>3. CASE InvitationExpires(e)
    BY <2>3 DEF InvitationExpires, Inv, AccountsTypeOK
  <2> QED
    BY <2>1, <2>2, <2>3 DEF ScimRequest, ScimDelete, Provision
<1>3. /\ invitation' \in [Emails -> Invitation]
      /\ \A x \in Emails : /\ invitation'[x].id = invitation[x].id
                           /\ invitation'[x].role = invitation[x].role
                           /\ invitation'[x].joins = invitation[x].joins
                           /\ invitation[x].id = 0 => invitation'[x] = invitation[x]
  <2>1. CASE InvitationExpires(e)
    <3>1. invitation[e] \in Invitation /\ invitation[e].id # 0
      BY <2>1 DEF InvitationExpires, Inv, AccountsTypeOK, InvitationIsRight, NoInvitation
    <3> QED
      BY <2>1, <3>1 DEF InvitationExpires, Inv, AccountsTypeOK, Invitation
  <2>2. CASE UNCHANGED invitation
    BY <2>2 DEF Inv, AccountsTypeOK
  <2> QED
    BY <2>1, <2>2 DEF ScimRequest, ScimCreate, ScimUpdate, ScimDelete, Provision
<1>4. AccountsTypeOK'
  BY <1>1, <1>2, <1>3 DEF Inv, AccountsTypeOK
<1>5. \A x \in Admissions : CallIsRight(x)'
  BY <1>1, <1>3 DEF Inv, CallIsRight
<1>6. \A x \in Emails : InvitationIsRight(x)'
  BY <1>1, <1>3 DEF Inv, InvitationIsRight
<1>7. HasRoom'
  <2>1. Pending' \subseteq Pending
    BY <1>1 DEF Pending
  <2> QED
    BY <2>1, <1>1, RoomStays DEF Inv, AccountsTypeOK
<1>8. ReplacedNotLost'
  BY <1>1, <1>3 DEF Inv, AccountsTypeOK, ReplacedNotLost
<1> QED
  BY <1>4, <1>5, <1>6, <1>7, <1>8 DEF Inv

LEMMA StepInv == Inv /\ [AccountsNext]_accountsVars => Inv'
<1> SUFFICES ASSUME Inv, [AccountsNext]_accountsVars PROVE Inv'
  OBVIOUS
<1>1. CASE UNCHANGED accountsVars
  <2>1. HasRoom'
    BY <1>1, RoomStays DEF accountsVars, Pending, Inv, AccountsTypeOK
  <2> QED
    BY <1>1, <2>1 DEF accountsVars, Inv, AccountsTypeOK, CallIsRight, InvitationIsRight, ReplacedNotLost
<1>2. CASE AccountsNext
  BY <1>2, InviteStep, UpdateStep, ActivityStep, AcceptStep, GoOnSteps, ClearStep, CreateStep, CommitStep,
     OutsideSteps DEF AccountsNext
<1> QED
  BY <1>1, <1>2

LEMMA SpecInv == AccountsSpec => []Inv
BY InitInv, StepInv, PTL DEF AccountsSpec

----------------------------------------------------------------------------

\* Accounts, invitations and calls keep their types; no more invitations are
\* issued than the bound allows.
THEOREM AccountsTypes == AccountsSpec => []AccountsTypeOK
<1>1. Inv => AccountsTypeOK
  BY DEF Inv
<1> QED
  BY <1>1, SpecInv, PTL

\* InvitationService.create deletes and creates in two statements, yet a sent
\* invitation is lost only by a call that breaks off between them: a create that
\* collides meets the invitation of the call that won.
THEOREM ReplacementKeepsInvited == AccountsSpec => []ReplacedNotLost
<1>1. Inv => ReplacedNotLost
  BY DEF Inv
<1> QED
  BY <1>1, SpecInv, PTL

\* A step that changes an account and ends call c, past its first read, is a step of c.
LEMMA EndIsOwn ==
    ASSUME Inv, [AccountsNext]_accountsVars, NEW c \in Admissions,
           call[c].pc # "idle", call'[c].pc = "idle"
    PROVE  \/ CreateInvitation(c) \/ CreateCollides(c) \/ AcceptCommits(c) \/ AcceptRollsBack(c)
           \/ SetRole(c) \/ Join(c) \/ SetActive(c) \/ CallBreaksOff(c)
<1>1. \A d \in Admissions : d # c =>
         /\ ~CreateInvitation(d) /\ ~CreateCollides(d) /\ ~AcceptCommits(d) /\ ~AcceptRollsBack(d)
         /\ ~SetRole(d) /\ ~Join(d) /\ ~SetActive(d) /\ ~CallBreaksOff(d) /\ ~ClearInvitation(d)
  BY DEF Inv, AccountsTypeOK, End, Goto, GoesOnToCreate, CreateInvitation, CreateCollides, AcceptCommits,
     AcceptRollsBack, SetRole, Join, SetActive, CallBreaksOff, ClearInvitation
<1>2. ~ClearInvitation(c)
  BY DEF Inv, AccountsTypeOK, Call, ClearInvitation, GoesOnToCreate, Goto
<1>3. \A d \in Admissions : \A pc, actor, e, invite : ~Begin(d, pc, actor, e, invite)
  BY DEF Inv, AccountsTypeOK, Begin, NoCall
<1>4. call' # call
  OBVIOUS
<1> QED
  BY <1>1, <1>2, <1>3, <1>4 DEF AccountsNext, accountsVars, Invite, UpdateUser, Deactivate, Reactivate, Accept,
     InvitationExpires, ScimRequest, ScimCreate, ScimUpdate, ScimDelete, Provision

\* Of several acceptInvite, and new invitations, for one address only those take
\* effect that find the invitation they read, with the role it grants: the delete
\* by id in the transaction is enough.
THEOREM AcceptancesUseInvitations == AccountsSpec => AcceptanceUsesInvitation
<1> DEFINE P == \A c \in Admissions :
          LET e == call[c].email IN
          call[c].pc = "accept" /\ call'[c].pc = "idle" /\ <<account, members>>' # <<account, members>> =>
             /\ invitation[e] = [call[c].invite EXCEPT !.fresh = invitation[e].fresh]
             /\ invitation'[e] = NoInvitation
             /\ account'[e] = [status |-> "active", role |-> invitation[e].role]
             /\ invitation[e].joins => e \in members'
<1>1. ASSUME Inv, [AccountsNext]_accountsVars, NEW c \in Admissions,
             call[c].pc = "accept", call'[c].pc = "idle", <<account, members>>' # <<account, members>>
      PROVE  LET e == call[c].email IN
             /\ invitation[e] = [call[c].invite EXCEPT !.fresh = invitation[e].fresh]
             /\ invitation'[e] = NoInvitation
             /\ account'[e] = [status |-> "active", role |-> invitation[e].role]
             /\ invitation[e].joins => e \in members'
  <2>1. AcceptCommits(c)
    BY <1>1, EndIsOwn DEF CreateInvitation, CreateCollides, AcceptRollsBack, SetRole, Join, SetActive, CallBreaksOff
  <2>2. call[c].email \in Emails /\ call[c] \in Call /\ CallIsRight(c)
    BY <1>1 DEF Inv, AccountsTypeOK, CallIsRight
  <2>3. /\ invitation[call[c].email] \in Invitation
        /\ invitation[call[c].email].id = call[c].invite.id
        /\ invitation[call[c].email].role = call[c].invite.role
        /\ invitation[call[c].email].joins = call[c].invite.joins
    BY <1>1, <2>1, <2>2 DEF AcceptCommits, InvitationIsThere, CallIsRight, Inv, AccountsTypeOK
  <2>4. invitation[call[c].email] = [call[c].invite EXCEPT !.fresh = invitation[call[c].email].fresh]
    BY <2>2, <2>3 DEF Call, Invitation
  <2>5. /\ invitation'[call[c].email] = NoInvitation
        /\ account'[call[c].email] = [status |-> "active", role |-> call[c].invite.role]
        /\ call[c].invite.joins => call[c].email \in members'
    BY <1>1, <2>1, <2>2 DEF AcceptCommits, Inv, AccountsTypeOK
  <2> QED
    BY <2>3, <2>4, <2>5
<1>2. Inv /\ [AccountsNext]_accountsVars => [P]_accountsVars
  BY <1>1
<1> QED
  BY <1>2, SpecInv, PTL DEF AccountsSpec, AcceptanceUsesInvitation

\* deactivateUser leaves the company without an active administrator only when
\* the acting one, whose token is older, is an active administrator no more.
THEOREM LastAdminStays == AccountsSpec => LastAdminFallsToStaleToken
<1> DEFINE P == \A c \in Admissions :
          call[c].pc = "deactivate" /\ account' # account /\ ActiveAdmins # {} /\ ActiveAdmins' = {}
             /\ call'[c].pc = "idle"
          => call[c].actor \notin ActiveAdmins
<1>1. ASSUME Inv, [AccountsNext]_accountsVars, NEW c \in Admissions,
             call[c].pc = "deactivate", call'[c].pc = "idle", account' # account, ActiveAdmins' = {}
      PROVE  call[c].actor \notin ActiveAdmins
  <2>1. SetActive(c)
    BY <1>1, EndIsOwn DEF CreateInvitation, CreateCollides, AcceptCommits, AcceptRollsBack, SetRole, Join, CallBreaksOff
  <2>2. call[c].actor # call[c].email
    BY <1>1 DEF Inv, CallIsRight
  <2>3. \A e \in Emails : e # call[c].email => account'[e] = account[e]
    BY <1>1, <2>1 DEF SetActive, Inv, AccountsTypeOK
  <2> QED
    BY <1>1, <2>2, <2>3 DEF ActiveAdmins
<1>2. Inv /\ [AccountsNext]_accountsVars => [P]_accountsVars
  BY <1>1
<1> QED
  BY <1>2, SpecInv, PTL DEF AccountsSpec, LastAdminFallsToStaleToken
=============================================================================
