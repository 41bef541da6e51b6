------------------------- MODULE SharedWalletProofs -------------------------
(***************************************************************************)
(* Proofs about module SharedWallet, for every set of users, invitations   *)
(* and calls in flight.                                                    *)
(***************************************************************************)
EXTENDS SharedWallet, TLAPS

-----------------------------------------------------------------------------
(* Rows and calls. *)

InFlight == AcceptCalls \cup CancelCalls \cup RemoveCalls \cup RemovalsCounted

LEMMA NoneIsNoRow ==
  /\ None \notin Users /\ None \notin InFlight
  /\ None \notin InvitationRows /\ None \notin MembershipRows
BY NoneAssumption DEF InFlight

LEMMA RowTypes ==
  ASSUME TypeOK
  PROVE  /\ \A i \in Invitations : invitation[i] # None => invitation[i] \in InvitationRows
         /\ \A u \in Users : member[u] # None => member[u] \in MembershipRows
BY DEF TypeOK

(* What a call in flight holds, by its operation. *)
LEMMA CallTypes ==
  ASSUME NEW r \in InFlight
  PROVE  /\ r.op \in {"accept", "cancel", "remove", "counted"}
         /\ r.op = "accept" => r.user \in Users /\ r.invitation \in Invitations
         /\ r.op = "cancel" => r.invitation \in Invitations
         /\ r.op = "remove" => r.user \in Users
         /\ r.op = "counted" => r.user \in Users /\ r.othersLeft \in BOOLEAN
BY DEF InFlight, AcceptCalls, CancelCalls, RemoveCalls, RemovalsCounted

(* The rows a call found when it was checked are there. *)
Found(r) ==
  /\ r.op = "accept" => invitation[r.invitation] # None /\ r.user # Owner
  /\ r.op = "cancel" => invitation[r.invitation] # None
  /\ r.op \in {"remove", "counted"} => member[r.user] # None

CallsFound == \A c \in Calls : call[c] # None => Found(call[c])

Typed == TypeOK /\ CallsFound

(* No row is ever deleted. *)
RowsStay ==
  /\ \A i \in Invitations : invitation[i] # None => invitation'[i] # None
  /\ \A u \in Users : member[u] # None => member'[u] # None

(* A step that keeps the types and the rows keeps what the calls rely on,  *)
(* if it puts no call but a found one in the place of another.             *)
LEMMA CallsStayFound ==
  ASSUME Typed, RowsStay, NEW c \in Calls, NEW r \in InFlight \cup {None},
         call' = [call EXCEPT ![c] = r], r # None => Found(r)'
  PROVE  /\ CallsFound'
         /\ call' \in [Calls -> InFlight \cup {None}]
PROOF
<1>1. call' \in [Calls -> InFlight \cup {None}]
  BY DEF Typed, TypeOK, InFlight
<1>2. ASSUME NEW d \in Calls, call'[d] # None
      PROVE  Found(call[d])'
  <2>1. CASE d = c
    <3>1. call'[d] = r
      BY <2>1 DEF Typed, TypeOK
    <3>2. Found(r)'
      BY <1>2, <3>1
    <3> QED
      BY <3>1, <3>2 DEF Found
  <2>2. CASE d # c
    <3>1. call'[d] = call[d]
      BY <2>2 DEF Typed, TypeOK
    <3>2. call[d] \in InFlight /\ Found(call[d])
      BY <1>2, <3>1 DEF Typed, TypeOK, CallsFound, InFlight
    <3> QED
      BY <3>1, <3>2, CallTypes DEF Found, RowsStay
  <2> QED
    BY <2>1, <2>2
<1> QED
  BY <1>1, <1>2 DEF CallsFound

LEMMA IdleCallsStayFound ==
  ASSUME Typed, RowsStay, UNCHANGED call
  PROVE  CallsFound'
PROOF
<1>1. ASSUME NEW d \in Calls, call[d] # None
      PROVE  Found(call[d])'
  <2>1. call[d] \in InFlight /\ Found(call[d])
    BY <1>1 DEF Typed, TypeOK, CallsFound, InFlight
  <2> QED
    BY <2>1, CallTypes DEF Found, RowsStay
<1> QED
  BY <1>1 DEF CallsFound

-----------------------------------------------------------------------------
(* Type correctness. *)

(* A written row: the columns written keep the type of the row. *)
LEMMA RowWrites ==
  /\ \A row \in InvitationRows, x \in {"PENDING", "ACCEPTED", "REVOKED"} :
       [row EXCEPT !.status = x] \in InvitationRows
  /\ \A row \in InvitationRows, u \in Users :
       [row EXCEPT !.status = "ACCEPTED", !.acceptedBy = u] \in InvitationRows
  /\ \A row \in InvitationRows : [row EXCEPT !.isExpired = TRUE] \in InvitationRows
  /\ \A row \in MembershipRows, role \in Roles : [row EXCEPT !.role = role] \in MembershipRows
  /\ \A row \in MembershipRows : [row EXCEPT !.status = "LEFT"] \in MembershipRows
  /\ \A u \in Users, role \in Roles : Admission(u, role) \in MembershipRows
BY DEF InvitationRows, MembershipRows, Admission

(* The same writes under names, and the columns that matter later. *)
Expired(row)     == [row EXCEPT !.isExpired = TRUE]
Revoked(row)     == [row EXCEPT !.status = "REVOKED"]
Accepted(row, u) == [row EXCEPT !.status = "ACCEPTED", !.acceptedBy = u]

LEMMA RowColumns ==
  /\ \A row \in InvitationRows :
       /\ Expired(row) # None
       /\ Expired(row).status = row.status
       /\ Expired(row).acceptedBy = row.acceptedBy
  /\ \A row \in InvitationRows :
       /\ Revoked(row) # None
       /\ Revoked(row).status = "REVOKED"
       /\ Revoked(row).acceptedBy = row.acceptedBy
  /\ \A row \in InvitationRows, u \in Users :
       /\ Accepted(row, u) # None
       /\ Accepted(row, u).status = "ACCEPTED"
       /\ Accepted(row, u).acceptedBy = u
  /\ \A u \in Users, role \in Roles :
       /\ Admission(u, role) # None
       /\ Admission(u, role).status = "ACTIVE"
       /\ Admission(u, role).role = role
PROOF
<1>1. ASSUME NEW row \in InvitationRows, NEW u \in Users
      PROVE  /\ Expired(row) \in InvitationRows
             /\ Revoked(row) \in InvitationRows
             /\ Accepted(row, u) \in InvitationRows
  BY DEF InvitationRows, Expired, Revoked, Accepted
<1>2. ASSUME NEW row \in InvitationRows, NEW u \in Users
      PROVE  /\ Expired(row).status = row.status
             /\ Expired(row).acceptedBy = row.acceptedBy
             /\ Revoked(row).status = "REVOKED"
             /\ Revoked(row).acceptedBy = row.acceptedBy
             /\ Accepted(row, u).status = "ACCEPTED"
             /\ Accepted(row, u).acceptedBy = u
  BY DEF InvitationRows, Expired, Revoked, Accepted
<1>3. \A u \in Users, role \in Roles :
        /\ Admission(u, role) # None
        /\ Admission(u, role).status = "ACTIVE"
        /\ Admission(u, role).role = role
  <2>1. \A u \in Users, role \in Roles : Admission(u, role) \in MembershipRows
    BY RowWrites, Zenon
  <2>2. \A u \in Users, role \in Roles :
          Admission(u, role).status = "ACTIVE" /\ Admission(u, role).role = role
    BY DEF Admission
  <2> QED
    BY <2>1, <2>2, NoneIsNoRow
<1> QED
  BY <1>1, <1>2, <1>3, NoneIsNoRow, OwnerAssumption

LEMMA InvitationWrite ==
  ASSUME Typed, NEW i \in Invitations, NEW row \in InvitationRows,
         invitation' = [invitation EXCEPT ![i] = row]
  PROVE  /\ invitation' \in [Invitations -> InvitationRows \cup {None}]
         /\ \A j \in Invitations : invitation[j] # None => invitation'[j] # None
BY NoneIsNoRow DEF Typed, TypeOK

LEMMA MemberWrite ==
  ASSUME Typed, NEW u \in Users, NEW row \in MembershipRows,
         member' = [member EXCEPT ![u] = row]
  PROVE  /\ member' \in [Users -> MembershipRows \cup {None}]
         /\ \A v \in Users : member[v] # None => member'[v] # None
BY NoneIsNoRow DEF Typed, TypeOK

LEMMA InitTyped == Init => Typed
BY DEF Init, Typed, TypeOK, CallsFound

LEMMA InvitationTyped ==
  ASSUME Typed, InvitationStep
  PROVE  Typed'
PROOF
<1>1. ASSUME NEW i \in Invitations, NEW role \in Roles \cup {None},
             CreateInvitation(i, role)
      PROVE  Typed'
  <2> DEFINE row == [role |-> RoleOr(role, "MEMBER"), status |-> "PENDING",
                     isExpired |-> FALSE, acceptedBy |-> None]
  <2>1. RoleOr(role, "MEMBER") \in Roles
    BY DEF RoleOr, Roles
  <2>2. row \in InvitationRows
    BY <2>1 DEF InvitationRows
  <2>3. invitation' = [invitation EXCEPT ![i] = row]
    BY <1>1 DEF CreateInvitation
  <2> HIDE DEF row
  <2>4. RowsStay
    BY <1>1, <2>2, <2>3, InvitationWrite DEF CreateInvitation, RowsStay
  <2> QED
    BY <1>1, <2>2, <2>3, <2>4, InvitationWrite, IdleCallsStayFound
       DEF CreateInvitation, Typed, TypeOK
<1>2. ASSUME NEW i \in Invitations, Expire(i)
      PROVE  Typed'
  <2> DEFINE row == [invitation[i] EXCEPT !.isExpired = TRUE]
  <2>1. row \in InvitationRows
    BY <1>2, RowTypes, RowWrites DEF Expire, Typed
  <2>2. invitation' = [invitation EXCEPT ![i] = row]
    BY <1>2, Zenon DEF Expire
  <2> HIDE DEF row
  <2>3. RowsStay
    BY <1>2, <2>1, <2>2, InvitationWrite DEF Expire, RowsStay
  <2> QED
    BY <1>2, <2>1, <2>2, <2>3, InvitationWrite, IdleCallsStayFound
       DEF Expire, Typed, TypeOK
<1>3. ASSUME NEW i \in Invitations, NEW c \in Calls, CheckCancel(c, i)
      PROVE  Typed'
  <2> DEFINE r == [op |-> "cancel", invitation |-> i]
  <2>1. r \in InFlight /\ Found(r)'
    BY <1>3 DEF CancelCalls, InFlight, Found, CheckCancel
  <2>2. RowsStay
    BY <1>3 DEF CheckCancel, RowsStay
  <2>3. call' = [call EXCEPT ![c] = r]
    BY <1>3 DEF CheckCancel, Begin
  <2> HIDE DEF r
  <2> QED
    BY <1>3, <2>1, <2>2, <2>3, CallsStayFound DEF CheckCancel, Typed, TypeOK, InFlight
<1>4. ASSUME NEW i \in Invitations, NEW c \in Calls, NEW u \in Users,
             CheckAccept(c, u, i)
      PROVE  Typed'
  <2> DEFINE r == [op |-> "accept", user |-> u, invitation |-> i]
  <2>1. r \in InFlight /\ Found(r)'
    BY <1>4 DEF AcceptCalls, InFlight, Found, CheckAccept
  <2>2. RowsStay
    BY <1>4 DEF CheckAccept, RowsStay
  <2>3. call' = [call EXCEPT ![c] = r]
    BY <1>4 DEF CheckAccept, Begin
  <2> HIDE DEF r
  <2> QED
    BY <1>4, <2>1, <2>2, <2>3, CallsStayFound DEF CheckAccept, Typed, TypeOK, InFlight
<1> QED
  BY <1>1, <1>2, <1>3, <1>4 DEF InvitationStep

LEMMA MemberTyped ==
  ASSUME Typed, MemberStep
  PROVE  Typed'
PROOF
<1>1. ASSUME NEW u \in Users, NEW role \in Roles \cup {None}, UpdateMember(u, role)
      PROVE  Typed'
  <2> DEFINE row == [member[u] EXCEPT !.role = RoleOr(role, member[u].role)]
  <2>1. member[u] \in MembershipRows
    BY <1>1, RowTypes DEF UpdateMember, Typed
  <2>2. RoleOr(role, member[u].role) \in Roles
    BY <2>1 DEF RoleOr, MembershipRows
  <2>3. row \in MembershipRows
    BY <2>1, <2>2, RowWrites
  <2>4. member' = [member EXCEPT ![u] = row]
    BY <1>1, Zenon DEF UpdateMember
  <2> HIDE DEF row
  <2>5. RowsStay
    BY <1>1, <2>3, <2>4, MemberWrite DEF UpdateMember, RowsStay
  <2> QED
    BY <1>1, <2>3, <2>4, <2>5, MemberWrite, IdleCallsStayFound
       DEF UpdateMember, Typed, TypeOK
<1>2. ASSUME NEW u \in Users, NEW c \in Calls, CheckRemove(c, u)
      PROVE  Typed'
  <2> DEFINE r == [op |-> "remove", user |-> u]
  <2>1. r \in InFlight /\ Found(r)'
    BY <1>2 DEF RemoveCalls, InFlight, Found, CheckRemove
  <2>2. RowsStay
    BY <1>2 DEF CheckRemove, RowsStay
  <2>3. call' = [call EXCEPT ![c] = r]
    BY <1>2 DEF CheckRemove, Begin
  <2> HIDE DEF r
  <2> QED
    BY <1>2, <2>1, <2>2, <2>3, CallsStayFound DEF CheckRemove, Typed, TypeOK, InFlight
<1> QED
  BY <1>1, <1>2 DEF MemberStep

(* What a call in flight can rely on when it commits. *)
LEMMA CommittingCall ==
  ASSUME Typed, NEW c \in Calls, call[c] # None
  PROVE  /\ call[c].op = "accept" =>
              /\ call[c].user \in Users \ {Owner}
              /\ call[c].invitation \in Invitations
              /\ invitation[call[c].invitation] \in InvitationRows
         /\ call[c].op = "cancel" =>
              /\ call[c].invitation \in Invitations
              /\ invitation[call[c].invitation] \in InvitationRows
         /\ call[c].op \in {"remove", "counted"} =>
              /\ call[c].user \in Users
              /\ member[call[c].user] \in MembershipRows
         /\ call[c].op = "counted" => call[c].othersLeft \in BOOLEAN
PROOF
<1>1. call[c] \in InFlight
  BY DEF Typed, TypeOK, InFlight
<1>2. Found(call[c])
  BY DEF Typed, CallsFound
<1> QED
  BY <1>1, <1>2, CallTypes, RowTypes DEF Found, Typed

LEMMA CallTyped ==
  ASSUME Typed, CallStep
  PROVE  Typed'
PROOF
<1>1. ASSUME NEW c \in Calls, End(c), RowsStay
      PROVE  CallsFound' /\ call' \in [Calls -> InFlight \cup {None}]
  BY <1>1, CallsStayFound DEF End
<1>2. ASSUME NEW c \in Calls, CommitCancel(c)
      PROVE  Typed'
  <2> DEFINE i == call[c].invitation
             row == [invitation[i] EXCEPT !.status = "REVOKED"]
  <2>1. i \in Invitations /\ row \in InvitationRows
    BY <1>2, CommittingCall, RowWrites DEF CommitCancel
  <2>2. invitation' = [invitation EXCEPT ![i] = row]
    BY <1>2, Zenon DEF CommitCancel
  <2> HIDE DEF i, row
  <2>3. RowsStay
    BY <1>2, <2>1, <2>2, InvitationWrite DEF CommitCancel, RowsStay
  <2> QED
    BY <1>1, <1>2, <2>1, <2>2, <2>3, InvitationWrite
       DEF CommitCancel, Typed, TypeOK, InFlight
<1>3. ASSUME NEW c \in Calls, CommitAccept(c)
      PROVE  Typed'
  <2> DEFINE u == call[c].user
             i == call[c].invitation
             row == [invitation[i] EXCEPT !.status = "ACCEPTED", !.acceptedBy = u]
             entry == Admission(u, invitation[i].role)
  <2>1. /\ u \in Users /\ i \in Invitations
        /\ invitation[i] \in InvitationRows
        /\ row \in InvitationRows
    BY <1>3, CommittingCall, RowWrites DEF CommitAccept
  <2>2. entry \in MembershipRows
    BY <2>1, RowWrites DEF InvitationRows
  <2>3. CASE Claimed(i)
    <3>1. /\ invitation' = [invitation EXCEPT ![i] = row]
          /\ member' = [member EXCEPT ![u] = entry]
      BY <1>3, <2>3, Zenon DEF CommitAccept
    <3>2. /\ admitted' = admitted \cup {<<i, u>>}
          /\ isShared' \in BOOLEAN /\ overlapped' \in BOOLEAN
          /\ End(c) /\ UNCHANGED isArchived
      BY <1>3, <2>3 DEF CommitAccept, Typed, TypeOK
    <3> HIDE DEF i, u, row, entry
    <3>3. /\ invitation' \in [Invitations -> InvitationRows \cup {None}]
          /\ member' \in [Users -> MembershipRows \cup {None}]
          /\ RowsStay
      BY <2>1, <2>2, <3>1, InvitationWrite, MemberWrite DEF RowsStay
    <3> QED
      BY <1>1, <2>1, <3>2, <3>3 DEF Typed, TypeOK, InFlight
  <2>4. CASE ~Claimed(i)
    <3>1. UNCHANGED <<isArchived, isShared, invitation, member, admitted, overlapped>>
          /\ End(c)
      BY <1>3, <2>4 DEF CommitAccept
    <3> HIDE DEF i, u, row, entry
    <3>2. RowsStay
      BY <3>1 DEF RowsStay
    <3> QED
      BY <1>1, <3>1, <3>2 DEF Typed, TypeOK, InFlight
  <2> QED
    BY <2>3, <2>4
<1>4. ASSUME NEW c \in Calls, CountRemaining(c)
      PROVE  Typed'
  <2>1. /\ call[c].user \in Users
        /\ member[call[c].user] # None
        /\ OthersLeft(call[c].user) \in BOOLEAN
    BY <1>4, CommittingCall, NoneIsNoRow DEF CountRemaining, OthersLeft
  <2>2. PICK r : r = [op |-> "counted", user |-> call[c].user,
                      othersLeft |-> OthersLeft(call[c].user)]
    OBVIOUS
  <2>3. r \in InFlight /\ r.op = "counted" /\ r.user = call[c].user
    BY <2>1, <2>2 DEF RemovalsCounted, InFlight
  <2>4. Found(r)'
    BY <1>4, <2>1, <2>3 DEF CountRemaining, Found
  <2>5. RowsStay
    BY <1>4 DEF CountRemaining, RowsStay
  <2>6. call' = [call EXCEPT ![c] = r]
    BY <1>4, <2>2 DEF CountRemaining
  <2> QED
    BY <1>4, <2>3, <2>4, <2>5, <2>6, CallsStayFound
       DEF CountRemaining, Typed, TypeOK, InFlight
<1>5. ASSUME NEW c \in Calls, CommitRemove(c)
      PROVE  Typed'
  <2> DEFINE u == call[c].user
             row == [member[u] EXCEPT !.status = "LEFT"]
  <2>1. u \in Users /\ row \in MembershipRows
    BY <1>5, CommittingCall, RowWrites DEF CommitRemove
  <2>2. member' = [member EXCEPT ![u] = row]
    BY <1>5, Zenon DEF CommitRemove
  <2>3. isShared' \in BOOLEAN
    BY <1>5, CommittingCall DEF CommitRemove, Typed, TypeOK
  <2> HIDE DEF u, row
  <2>4. RowsStay
    BY <1>5, <2>1, <2>2, MemberWrite DEF CommitRemove, RowsStay
  <2> QED
    BY <1>1, <1>5, <2>1, <2>2, <2>3, <2>4, MemberWrite
       DEF CommitRemove, Typed, TypeOK, InFlight
<1>6. ASSUME NEW c \in Calls, Lose(c)
      PROVE  Typed'
  <2>1. RowsStay
    BY <1>6 DEF Lose, RowsStay
  <2> QED
    BY <1>1, <1>6, <2>1 DEF Lose, Typed, TypeOK, InFlight
<1> QED
  BY <1>2, <1>3, <1>4, <1>5, <1>6 DEF CallStep

LEMMA TypedStep == Typed /\ [Next]_vars => Typed'
PROOF
<1> SUFFICES ASSUME Typed, [Next]_vars PROVE Typed'
  OBVIOUS
<1>1. CASE WalletStep
  <2>1. RowsStay /\ UNCHANGED call
    BY <1>1 DEF WalletStep, SetArchived, RowsStay
  <2> QED
    BY <1>1, <2>1, IdleCallsStayFound DEF WalletStep, SetArchived, Typed, TypeOK
<1>2. CASE UNCHANGED vars
  <2>1. RowsStay /\ UNCHANGED call
    BY <1>2 DEF vars, RowsStay
  <2> QED
    BY <1>2, <2>1, IdleCallsStayFound DEF vars, Typed, TypeOK
<1> QED
  BY <1>1, <1>2, InvitationTyped, MemberTyped, CallTyped DEF Next

LEMMA TypedAlways == Spec => []Typed
PROOF
<1> QED
  BY InitTyped, TypedStep, PTL DEF Spec

(* Every reachable state has the types of the schema. *)
THEOREM TypeCorrectness == Spec => []TypeOK
PROOF
<1>1. Typed => TypeOK
  BY DEF Typed
<1> QED
  BY <1>1, TypedAlways, PTL

-----------------------------------------------------------------------------
(* One invitation, one member. *)

(* The invitation of an admission is spent and stays so: a cancellation    *)
(* that comes late writes REVOKED over ACCEPTED, never PENDING.            *)
AdmissionsAreSpent ==
  \A i \in Invitations, u \in Users :
    <<i, u>> \in admitted =>
      /\ invitation[i] # None
      /\ invitation[i].status # "PENDING"
      /\ invitation[i].acceptedBy = u

Admitted == AdmissionsAreSpent /\ MembersWereAdmitted

(* Who had joined stays, and nobody joins. *)
NobodyJoins ==
  /\ admitted' = admitted
  /\ \A i \in Invitations :
       invitation[i] # None =>
         /\ invitation'[i] # None
         /\ invitation'[i].acceptedBy = invitation[i].acceptedBy
         /\ invitation[i].status # "PENDING" => invitation'[i].status # "PENDING"
  /\ \A u \in Users : member'[u] # None => member[u] # None
  /\ ActiveMembers' \subseteq ActiveMembers

(* What an acceptance that claims its invitation does. *)
Joins(i, u) ==
  /\ invitation[i] # None
  /\ invitation[i].status = "PENDING"
  /\ u # Owner
  /\ admitted' = admitted \cup {<<i, u>>}
  /\ invitation'[i] # None
  /\ invitation'[i].status = "ACCEPTED"
  /\ invitation'[i].acceptedBy = u
  /\ member'[u] # None
  /\ member'[u].status = "ACTIVE"
  /\ member'[u].role = invitation[i].role
  /\ \A j \in Invitations \ {i} : invitation'[j] = invitation[j]
  /\ \A v \in Users \ {u} : member'[v] = member[v]

LEMMA InvitationStepJoins ==
  ASSUME Typed, InvitationStep
  PROVE  NobodyJoins
PROOF
<1>1. UNCHANGED <<member, admitted>>
  BY DEF InvitationStep, CreateInvitation, Expire, CheckCancel, CheckAccept
<1>2. ActiveMembers' = ActiveMembers
  BY <1>1 DEF ActiveMembers
<1>3. ASSUME NEW i \in Invitations, invitation[i] # None
      PROVE  /\ invitation'[i] # None
             /\ invitation'[i].acceptedBy = invitation[i].acceptedBy
             /\ invitation'[i].status = invitation[i].status
  <2>1. CASE invitation'[i] = invitation[i]
    BY <1>3, <2>1
  <2>2. ASSUME NEW j \in Invitations, NEW role \in Roles \cup {None},
               CreateInvitation(j, role)
        PROVE  invitation'[i] = invitation[i]
    BY <1>3, <2>2 DEF CreateInvitation, Typed, TypeOK
  <2>3. ASSUME NEW j \in Invitations, Expire(j)
        PROVE  \/ invitation'[i] = invitation[i]
               \/ invitation'[i] = Expired(invitation[i])
    BY <2>3 DEF Expire, Typed, TypeOK, Expired
  <2>4. CASE invitation'[i] = Expired(invitation[i])
    <3>1. invitation[i] \in InvitationRows
      BY <1>3, RowTypes DEF Typed
    <3> QED
      BY <2>4, <3>1, RowColumns
  <2>5. ASSUME NEW j \in Invitations, NEW c \in Calls,
               CheckCancel(c, j) \/ \E u \in Users : CheckAccept(c, u, j)
        PROVE  invitation'[i] = invitation[i]
    BY <2>5 DEF CheckCancel, CheckAccept
  <2> QED
    BY <2>1, <2>2, <2>3, <2>4, <2>5 DEF InvitationStep
<1> QED
  BY <1>1, <1>2, <1>3 DEF NobodyJoins

LEMMA MemberStepJoins ==
  ASSUME Typed, MemberStep
  PROVE  NobodyJoins
PROOF
<1>1. UNCHANGED <<invitation, admitted>>
  BY DEF MemberStep, UpdateMember, CheckRemove
<1>2. ASSUME NEW v \in Users, member'[v] # None
      PROVE  /\ member[v] # None
             /\ member'[v].status = member[v].status
  <2>1. CASE member'[v] = member[v]
    BY <1>2, <2>1
  <2>2. ASSUME NEW u \in Users, NEW role \in Roles \cup {None},
               UpdateMember(u, role), u = v
        PROVE  /\ member[v] # None
               /\ member'[v].status = member[v].status
    <3>1. member[v] \in MembershipRows
      BY <2>2, RowTypes DEF UpdateMember, Typed
    <3>2. member'[v] = [member[v] EXCEPT !.role = RoleOr(role, member[v].role)]
      BY <2>2 DEF UpdateMember, Typed, TypeOK
    <3> QED
      BY <3>1, <3>2, NoneIsNoRow DEF MembershipRows
  <2>3. ASSUME NEW u \in Users, NEW role \in Roles \cup {None},
               UpdateMember(u, role), u # v
        PROVE  member'[v] = member[v]
    BY <2>3 DEF UpdateMember, Typed, TypeOK
  <2>4. ASSUME NEW u \in Users, NEW c \in Calls, CheckRemove(c, u)
        PROVE  member'[v] = member[v]
    BY <2>4 DEF CheckRemove
  <2> QED
    BY <2>1, <2>2, <2>3, <2>4 DEF MemberStep
<1>3. ActiveMembers' \subseteq ActiveMembers
  BY <1>2 DEF ActiveMembers
<1> QED
  BY <1>1, <1>2, <1>3 DEF NobodyJoins

LEMMA CallStepJoins ==
  ASSUME Typed, CallStep
  PROVE  NobodyJoins \/ \E i \in Invitations, u \in Users : Joins(i, u)
PROOF
<1>1. ASSUME UNCHANGED <<invitation, member, admitted>>
      PROVE  NobodyJoins
  BY <1>1 DEF NobodyJoins, ActiveMembers
<1>2. ASSUME NEW c \in Calls, CommitCancel(c)
      PROVE  NobodyJoins
  <2>1. /\ call[c].invitation \in Invitations
        /\ invitation[call[c].invitation] \in InvitationRows
    BY <1>2, CommittingCall DEF CommitCancel
  <2>2. ASSUME NEW j \in Invitations, j # call[c].invitation
        PROVE  invitation'[j] = invitation[j]
    BY <1>2, <2>2 DEF CommitCancel, Typed, TypeOK
  <2>3. invitation'[call[c].invitation] = Revoked(invitation[call[c].invitation])
    BY <1>2, <2>1 DEF CommitCancel, Typed, TypeOK, Revoked
  <2>4. /\ invitation'[call[c].invitation] # None
        /\ invitation'[call[c].invitation].acceptedBy =
             invitation[call[c].invitation].acceptedBy
        /\ invitation'[call[c].invitation].status # "PENDING"
    BY <2>1, <2>3, RowColumns
  <2>5. UNCHANGED <<member, admitted>> /\ ActiveMembers' = ActiveMembers
    BY <1>2 DEF CommitCancel, ActiveMembers
  <2> QED
    BY <2>2, <2>4, <2>5 DEF NobodyJoins
<1>3. ASSUME NEW c \in Calls, CommitAccept(c)
      PROVE  NobodyJoins \/ Joins(call[c].invitation, call[c].user)
  <2>1. CASE ~Claimed(call[c].invitation)
    BY <1>1, <1>3, <2>1 DEF CommitAccept
  <2>2. CASE Claimed(call[c].invitation)
    <3>1. PICK i \in Invitations, u \in Users :
            /\ i = call[c].invitation /\ u = call[c].user
            /\ u # Owner /\ invitation[i] \in InvitationRows
      BY <1>3, CommittingCall DEF CommitAccept
    <3>2. /\ invitation' = [invitation EXCEPT ![i] = Accepted(invitation[i], u)]
          /\ member' = [member EXCEPT ![u] = Admission(u, invitation[i].role)]
      BY <1>3, <2>2, <3>1, Zenon DEF CommitAccept, Accepted
    <3>3. admitted' = admitted \cup {<<i, u>>} /\ invitation[i].status = "PENDING"
      BY <1>3, <2>2, <3>1 DEF CommitAccept, Claimed
    <3>4. /\ \A j \in Invitations \ {i} : invitation'[j] = invitation[j]
          /\ \A v \in Users \ {u} : member'[v] = member[v]
          /\ invitation'[i] = Accepted(invitation[i], u)
          /\ member'[u] = Admission(u, invitation[i].role)
      BY <3>2 DEF Typed, TypeOK
    <3>5. /\ invitation'[i] # None
          /\ invitation'[i].status = "ACCEPTED"
          /\ invitation'[i].acceptedBy = u
      BY <3>1, <3>4, RowColumns
    <3>6. /\ member'[u] # None
          /\ member'[u].status = "ACTIVE"
          /\ member'[u].role = invitation[i].role
      BY <3>1, <3>4, RowColumns DEF InvitationRows
    <3> QED
      BY <3>1, <3>3, <3>4, <3>5, <3>6, NoneIsNoRow DEF Joins
  <2> QED
    BY <2>1, <2>2
<1>4. ASSUME NEW c \in Calls, CommitAccept(c)
      PROVE  call[c].invitation \in Invitations /\ call[c].user \in Users
  BY <1>4, CommittingCall DEF CommitAccept
<1>5. ASSUME NEW c \in Calls, CommitRemove(c)
      PROVE  NobodyJoins
  <2>1. PICK u \in Users : u = call[c].user /\ member[u] \in MembershipRows
    BY <1>5, CommittingCall DEF CommitRemove
  <2>2. member' = [member EXCEPT ![u] = [member[u] EXCEPT !.status = "LEFT"]]
    BY <1>5, <2>1, Zenon DEF CommitRemove
  <2>3. /\ \A v \in Users \ {u} : member'[v] = member[v]
        /\ member'[u] = [member[u] EXCEPT !.status = "LEFT"]
    BY <2>2 DEF Typed, TypeOK
  <2>4. member[u] # None /\ member'[u].status = "LEFT"
    BY <2>1, <2>3, NoneIsNoRow DEF MembershipRows
  <2>5. ActiveMembers' \subseteq ActiveMembers
    BY <2>3, <2>4 DEF ActiveMembers
  <2> QED
    BY <1>5, <2>3, <2>4, <2>5 DEF CommitRemove, NobodyJoins
<1>6. ASSUME NEW c \in Calls, CountRemaining(c) \/ Lose(c)
      PROVE  NobodyJoins
  BY <1>1, <1>6 DEF CountRemaining, Lose
<1> QED
  BY <1>2, <1>3, <1>4, <1>5, <1>6 DEF CallStep

(* A step admits nobody, or one user by one PENDING invitation. *)
LEMMA StepJoins ==
  ASSUME Typed, [Next]_vars
  PROVE  NobodyJoins \/ \E i \in Invitations, u \in Users : Joins(i, u)
PROOF
<1>1. ASSUME UNCHANGED <<invitation, member, admitted>>
      PROVE  NobodyJoins
  BY <1>1 DEF NobodyJoins, ActiveMembers
<1>2. CASE WalletStep
  BY <1>1, <1>2 DEF WalletStep, SetArchived
<1>3. CASE UNCHANGED vars
  BY <1>1, <1>3 DEF vars
<1> QED
  BY <1>2, <1>3, InvitationStepJoins, MemberStepJoins, CallStepJoins DEF Next

LEMMA InitAdmitted == Init => Admitted
BY DEF Init, Admitted, AdmissionsAreSpent, MembersWereAdmitted

LEMMA AdmittedStep == Typed /\ Admitted /\ [Next]_vars => Admitted'
PROOF
<1> SUFFICES ASSUME Typed, Admitted, [Next]_vars PROVE Admitted'
  OBVIOUS
<1>1. CASE NobodyJoins
  BY <1>1 DEF NobodyJoins, Admitted, AdmissionsAreSpent, MembersWereAdmitted
<1>2. ASSUME NEW i \in Invitations, NEW u \in Users, Joins(i, u)
      PROVE  Admitted'
  <2>1. \A v \in Users : <<i, v>> \notin admitted
    BY <1>2 DEF Joins, Admitted, AdmissionsAreSpent
  <2>2. AdmissionsAreSpent'
    BY <1>2, <2>1 DEF Joins, Admitted, AdmissionsAreSpent
  <2>3. MembersWereAdmitted'
    BY <1>2 DEF Joins, Admitted, MembersWereAdmitted
  <2> QED
    BY <2>2, <2>3 DEF Admitted
<1> QED
  BY <1>1, <1>2, StepJoins

LEMMA AdmittedAlways == Spec => []Admitted
PROOF
<1> QED
  BY InitTyped, TypedStep, InitAdmitted, AdmittedStep, PTL DEF Spec

(* However many calls accept a code at once, and whoever cancels it        *)
(* meanwhile, it admits one user once (acceptInvitationAtomic).            *)
THEOREM AdmitsOneUserAlways == Spec => []AdmitsOneUser
PROOF
<1>1. Admitted => AdmitsOneUser
  BY DEF Admitted, AdmissionsAreSpent, AdmitsOneUser
<1> QED
  BY <1>1, AdmittedAlways, PTL

(* Every membership row is that of an admitted user, never of the owner. *)
THEOREM MembersWereAdmittedAlways == Spec => []MembersWereAdmitted
PROOF
<1>1. Admitted => MembersWereAdmitted
  BY DEF Admitted
<1> QED
  BY <1>1, AdmittedAlways, PTL

(* Nobody becomes an active member but by a PENDING invitation, which that *)
(* step spends and whose role is given.                                    *)
THEOREM JoinsByInvitationAlways == Spec => JoinsByInvitation
PROOF
<1> DEFINE Joining ==
      \A u \in Users \ ActiveMembers :
        u \in ActiveMembers' =>
          \E i \in Invitations :
            /\ invitation[i] # None /\ invitation[i].status = "PENDING"
            /\ invitation'[i].status = "ACCEPTED"
            /\ invitation'[i].acceptedBy = u
            /\ member'[u].role = invitation[i].role
<1>1. ASSUME Typed, [Next]_vars PROVE Joining
  <2>1. CASE NobodyJoins
    BY <2>1 DEF NobodyJoins
  <2>2. ASSUME NEW i \in Invitations, NEW u \in Users, Joins(i, u)
        PROVE  Joining
    BY <2>2 DEF Joins, ActiveMembers
  <2> QED
    BY <1>1, <2>1, <2>2, StepJoins
<1>2. Typed /\ [Next]_vars => [Joining]_vars
  BY <1>1
<1> QED
  BY <1>2, TypedAlways, PTL DEF Spec, JoinsByInvitation

-----------------------------------------------------------------------------
(* The flag isShared. *)

Counted(c) == call[c] # None /\ call[c].op = "counted"

(* As long as nothing overlapped, one removal at most has counted, what it *)
(* counted still holds, and the flag is right.                             *)
FlagKnown ==
  ~overlapped =>
    /\ isShared <=> ActiveMembers # {}
    /\ \A c, d \in Calls : Counted(c) /\ Counted(d) => c = d
    /\ \A c \in Calls :
         Counted(c) => (call[c].othersLeft <=> ActiveMembers \ {call[c].user} # {})

(* Neither a count nor a change of memberships. *)
Quiet ==
  /\ isShared' = isShared /\ overlapped' = overlapped
  /\ ActiveMembers' = ActiveMembers
  /\ \A c \in Calls : Counted(c)' => Counted(c) /\ call'[c] = call[c]

LEMMA QuietKeepsFlag ==
  ASSUME FlagKnown, Quiet
  PROVE  FlagKnown'
BY DEF FlagKnown, Quiet

LEMMA BeginIsQuiet ==
  ASSUME Typed, NEW c \in Calls, NEW r, r.op # "counted",
         call' = [call EXCEPT ![c] = r]
  PROVE  \A d \in Calls : Counted(d)' => Counted(d) /\ call'[d] = call[d]
PROOF
<1>1. call'[c] = r /\ \A d \in Calls \ {c} : call'[d] = call[d]
  BY DEF Typed, TypeOK
<1> QED
  BY <1>1 DEF Counted

LEMMA EndIsQuiet ==
  ASSUME Typed, NEW c \in Calls, End(c)
  PROVE  /\ ~Counted(c)'
         /\ \A d \in Calls : Counted(d)' => Counted(d) /\ call'[d] = call[d]
PROOF
<1>1. call'[c] = None /\ \A d \in Calls \ {c} : call'[d] = call[d]
  BY DEF End, Typed, TypeOK
<1> QED
  BY <1>1 DEF Counted

LEMMA NobodyRemoving ==
  ASSUME Typed, \A v \in Users : ~Removing(v)
  PROVE  \A c \in Calls : ~Counted(c)
PROOF
<1>1. ASSUME NEW c \in Calls, Counted(c)
      PROVE  FALSE
  <2>1. call[c].user \in Users
    BY <1>1, CommittingCall DEF Counted
  <2> QED
    BY <1>1, <2>1 DEF Counted, Removing
<1> QED
  BY <1>1

LEMMA InvitationStepIsQuiet ==
  ASSUME Typed, InvitationStep
  PROVE  Quiet
PROOF
<1>1. UNCHANGED <<isShared, overlapped, member>>
  BY DEF InvitationStep, CreateInvitation, Expire, CheckCancel, CheckAccept
<1>2. ActiveMembers' = ActiveMembers
  BY <1>1 DEF ActiveMembers
<1>3. ASSUME UNCHANGED call
      PROVE  Quiet
  BY <1>1, <1>2, <1>3 DEF Quiet, Counted
<1>4. ASSUME NEW i \in Invitations, NEW c \in Calls, CheckCancel(c, i)
      PROVE  Quiet
  BY <1>1, <1>2, <1>4, BeginIsQuiet DEF CheckCancel, Begin, Quiet
<1>5. ASSUME NEW i \in Invitations, NEW c \in Calls, NEW u \in Users,
             CheckAccept(c, u, i)
      PROVE  Quiet
  BY <1>1, <1>2, <1>5, BeginIsQuiet DEF CheckAccept, Begin, Quiet
<1> QED
  BY <1>3, <1>4, <1>5 DEF InvitationStep, CreateInvitation, Expire

LEMMA MemberStepIsQuiet ==
  ASSUME Typed, MemberStep
  PROVE  Quiet
PROOF
<1>1. ASSUME NEW u \in Users, NEW role \in Roles \cup {None}, UpdateMember(u, role)
      PROVE  Quiet
  <2>1. member[u] # None /\ member[u] \in MembershipRows
    BY <1>1, RowTypes DEF UpdateMember, Typed
  <2>2. PICK x : x = RoleOr(role, member[u].role)
    OBVIOUS
  <2>3. member' = [member EXCEPT ![u] = [member[u] EXCEPT !.role = x]]
    BY <1>1, <2>2 DEF UpdateMember
  <2>4. /\ member'[u] = [member[u] EXCEPT !.role = x]
        /\ \A v \in Users \ {u} : member'[v] = member[v]
    BY <2>3 DEF Typed, TypeOK
  <2>5. x \in Roles
    BY <2>1, <2>2 DEF RoleOr, MembershipRows
  <2>6. member'[u] \in MembershipRows /\ member'[u].status = member[u].status
    BY <2>1, <2>4, <2>5 DEF MembershipRows
  <2>7. ActiveMembers' = ActiveMembers
    BY <2>1, <2>4, <2>6, NoneIsNoRow DEF ActiveMembers
  <2> QED
    BY <1>1, <2>7 DEF UpdateMember, Quiet, Counted
<1>2. ASSUME NEW u \in Users, NEW c \in Calls, CheckRemove(c, u)
      PROVE  Quiet
  BY <1>2, BeginIsQuiet DEF CheckRemove, Begin, Quiet, ActiveMembers
<1> QED
  BY <1>1, <1>2 DEF MemberStep

LEMMA CallStepKeepsFlag ==
  ASSUME Typed, FlagKnown, CallStep
  PROVE  FlagKnown'
PROOF
<1>1. ASSUME NEW c \in Calls, End(c), UNCHANGED <<isShared, member, overlapped>>
      PROVE  FlagKnown'
  BY <1>1, EndIsQuiet, QuietKeepsFlag DEF Quiet, ActiveMembers
<1>2. ASSUME NEW c \in Calls, CommitCancel(c) \/ Lose(c)
      PROVE  FlagKnown'
  BY <1>1, <1>2 DEF CommitCancel, Lose
<1>3. ASSUME NEW c \in Calls, CommitAccept(c)
      PROVE  FlagKnown'
  <2>1. CASE ~Claimed(call[c].invitation)
    BY <1>1, <1>3, <2>1 DEF CommitAccept
  <2>2. CASE Claimed(call[c].invitation) /\ ~overlapped'
    <3>1. PICK u \in Users :
            /\ u = call[c].user
            /\ invitation[call[c].invitation] \in InvitationRows
      BY <1>3, CommittingCall DEF CommitAccept
    <3>2. PICK role : role = invitation[call[c].invitation].role
      OBVIOUS
    <3>3. member'[u] = Admission(u, role) /\ role \in Roles
      BY <1>3, <2>2, <3>1, <3>2 DEF CommitAccept, Typed, TypeOK, InvitationRows
    <3>4. u \in ActiveMembers'
      BY <3>3, RowColumns DEF ActiveMembers
    <3>5. isShared' = TRUE /\ End(c) /\ \A v \in Users : ~Removing(v)
      BY <1>3, <2>2 DEF CommitAccept
    <3>6. \A d \in Calls : ~Counted(d)'
      BY <3>5, NobodyRemoving, EndIsQuiet
    <3> QED
      BY <3>4, <3>5, <3>6 DEF FlagKnown
  <2> QED
    BY <2>1, <2>2 DEF FlagKnown
<1>4. ASSUME NEW c \in Calls, CountRemaining(c), ~overlapped'
      PROVE  FlagKnown'
  <2>1. /\ ~overlapped
        /\ \A v \in Users : ~Removing(v)
        /\ UNCHANGED <<isShared, member>>
    BY <1>4 DEF CountRemaining, Typed, TypeOK
  <2>2. PICK u : u = call[c].user
    OBVIOUS
  <2>3. PICK left : left = OthersLeft(u)
    OBVIOUS
  <2>4. call' = [call EXCEPT ![c] = [op |-> "counted", user |-> u, othersLeft |-> left]]
    BY <1>4, <2>2, <2>3 DEF CountRemaining
  <2>5. /\ call'[c].user = u /\ call'[c].othersLeft = left
        /\ \A d \in Calls \ {c} : call'[d] = call[d]
    BY <2>4 DEF Typed, TypeOK
  <2>6. \A d \in Calls : Counted(d)' => d = c
    BY <2>1, <2>5, NobodyRemoving DEF Counted
  <2>7. ActiveMembers' = ActiveMembers
    BY <2>1 DEF ActiveMembers
  <2> QED
    BY <2>1, <2>3, <2>5, <2>6, <2>7 DEF FlagKnown, OthersLeft
<1>5. ASSUME NEW c \in Calls, CommitRemove(c), ~overlapped'
      PROVE  FlagKnown'
  <2>1. PICK u \in Users : u = call[c].user /\ member[u] \in MembershipRows
    BY <1>5, CommittingCall DEF CommitRemove
  <2>2. PICK row : row = [member[u] EXCEPT !.status = "LEFT"]
    OBVIOUS
  <2>3. row.status = "LEFT"
    BY <2>1, <2>2 DEF MembershipRows
  <2>4. member' = [member EXCEPT ![u] = row]
    BY <1>5, <2>1, <2>2, Zenon DEF CommitRemove
  <2>5. ActiveMembers' = ActiveMembers \ {u}
    BY <2>3, <2>4 DEF ActiveMembers, Typed, TypeOK
  <2>6. /\ ~overlapped /\ Counted(c)
        /\ isShared' = (isShared /\ call[c].othersLeft)
        /\ End(c)
    BY <1>5 DEF CommitRemove, Counted
  <2>7. \A d \in Calls : ~Counted(d)'
    BY <2>6, EndIsQuiet DEF FlagKnown
  <2>8. isShared' <=> ActiveMembers' # {}
    BY <2>1, <2>5, <2>6 DEF FlagKnown
  <2> QED
    BY <2>7, <2>8 DEF FlagKnown
<1>6. ASSUME NEW c \in Calls, CountRemaining(c) \/ CommitRemove(c)
      PROVE  FlagKnown'
  BY <1>4, <1>5, <1>6 DEF FlagKnown
<1> QED
  BY <1>2, <1>3, <1>6 DEF CallStep

LEMMA InitFlagKnown == Init => FlagKnown
BY DEF Init, FlagKnown, ActiveMembers, Counted

LEMMA FlagKnownStep == Typed /\ FlagKnown /\ [Next]_vars => FlagKnown'
PROOF
<1> SUFFICES ASSUME Typed, FlagKnown, [Next]_vars PROVE FlagKnown'
  OBVIOUS
<1>1. CASE WalletStep
  <2>1. Quiet
    BY <1>1 DEF WalletStep, SetArchived, Quiet, ActiveMembers, Counted
  <2> QED
    BY <2>1, QuietKeepsFlag
<1>2. CASE UNCHANGED vars
  <2>1. Quiet
    BY <1>2 DEF vars, Quiet, ActiveMembers, Counted
  <2> QED
    BY <2>1, QuietKeepsFlag
<1> QED
  BY <1>1, <1>2, InvitationStepIsQuiet, MemberStepIsQuiet, QuietKeepsFlag,
     CallStepKeepsFlag DEF Next

(* isShared tells whether the wallet has an active member, as long as no   *)
(* membership changed between the count and the commit of a removal.       *)
THEOREM SharedUnlessOverlappedAlways == Spec => []SharedUnlessOverlapped
PROOF
<1>1. FlagKnown => SharedUnlessOverlapped
  BY DEF FlagKnown, SharedUnlessOverlapped
<1> QED
  BY <1>1, InitTyped, TypedStep, InitFlagKnown, FlagKnownStep, PTL DEF Spec

(* Both together: a code admits one user, and every membership row is that *)
(* of an admitted user and never of the owner.                             *)
THEOREM AdmissionsAreSoundAlways == Spec => []AdmissionsAreSound
PROOF
<1>1. AdmitsOneUser /\ MembersWereAdmitted => AdmissionsAreSound
  BY DEF AdmissionsAreSound
<1> QED
  BY <1>1, AdmitsOneUserAlways, MembersWereAdmittedAlways, PTL
=============================================================================
