---------------------------- MODULE SharedWallet ----------------------------
(***************************************************************************)
(* Invitations to one wallet and the memberships they lead to:             *)
(* modules/wallets/shared-wallet.service.ts and its repository.            *)
(*                                                                         *)
(* Unlike the services of module Ledger, these handlers check their        *)
(* conditions by queries of their own, then write in a transaction of the  *)
(* default isolation, read committed.  A call is therefore several steps:  *)
(* it is checked, then commits; removing a member counts who is left and   *)
(* clears the flag of the wallet in two statements, between which other    *)
(* calls commit.  What a call wrote is seen by others when it commits, and *)
(* a row it wrote is locked until then.  A call may be lost between two    *)
(* steps with the process; its transaction is rolled back.                 *)
(*                                                                         *)
(* Abstracted: codes, nicknames, limits (module Ledger has them) and       *)
(* notifications, whose failure is swallowed.                              *)
(***************************************************************************)
EXTENDS Naturals, FiniteSets

CONSTANTS Users,        \* who may call, the owner among them
          Owner,        \* the owner of the wallet
          Invitations,  \* ids of invitation rows
          Calls,        \* calls in flight at once
          None

ASSUME OwnerAssumption == Owner \in Users

Roles == {"MEMBER", "VIEWER"}

InvitationRows == [role : Roles, status : {"PENDING", "ACCEPTED", "REVOKED"},
                   isExpired : BOOLEAN, acceptedBy : Users \cup {None}]
MembershipRows == [role : Roles, status : {"ACTIVE", "LEFT"}]

AcceptCalls == [op : {"accept"}, user : Users, invitation : Invitations]
CancelCalls == [op : {"cancel"}, invitation : Invitations]
RemoveCalls == [op : {"remove"}, user : Users]
RemovalsCounted == [op : {"counted"}, user : Users, othersLeft : BOOLEAN]

ASSUME NoneAssumption ==
  None \notin Users \cup InvitationRows \cup MembershipRows \cup AcceptCalls
              \cup CancelCalls \cup RemoveCalls \cup RemovalsCounted

VARIABLES isArchived,   \* columns of the wallet
          isShared,
          invitation,   \* invitation[i]: its row, or None
          member,       \* member[u]: the membership row of u, or None
          call,         \* call[c]: what a call in flight has read, or None
          admitted,     \* auxiliary: <<i, u>> when i made u a member
          overlapped    \* auxiliary: a membership changed under a removal

vars == <<isArchived, isShared, invitation, member, call, admitted, overlapped>>

ActiveMembers == {u \in Users : member[u] # None /\ member[u].status = "ACTIVE"}

(* A removal of u has written the row of u and not yet committed. *)
Removing(u) == \E c \in Calls : /\ call[c] # None
                                /\ call[c].op = "counted"
                                /\ call[c].user = u

Begin(c, request) == call[c] = None /\ call' = [call EXCEPT ![c] = request]

End(c) == call' = [call EXCEPT ![c] = None]

-----------------------------------------------------------------------------
(* Invitations. *)

(* Mutant of RoleOr: an absent role is written as it came. *)
RoleAsSent(role, default) == role

(* The role of a request, or a default where it is absent. *)
RoleOr(role, default) == IF role = None THEN default ELSE role

CreateInvitation(i, role) ==
  /\ invitation[i] = None
  /\ ~isArchived
  /\ invitation' = [invitation EXCEPT ![i] =
                      [role |-> RoleOr(role, "MEMBER"), status |-> "PENDING",
                       isExpired |-> FALSE, acceptedBy |-> None]]
  /\ UNCHANGED <<isArchived, isShared, member, call, admitted, overlapped>>

(* The time expiresAt of the invitation passes. *)
Expire(i) ==
  /\ invitation[i] # None
  /\ ~invitation[i].isExpired
  /\ invitation' = [invitation EXCEPT ![i].isExpired = TRUE]
  /\ UNCHANGED <<isArchived, isShared, member, call, admitted, overlapped>>

CheckCancel(c, i) ==
  /\ invitation[i] # None
  /\ invitation[i].status = "PENDING"
  /\ Begin(c, [op |-> "cancel", invitation |-> i])
  /\ UNCHANGED <<isArchived, isShared, invitation, member, admitted, overlapped>>

(* updateInvitationStatus: whatever the status has become meanwhile. *)
CommitCancel(c) ==
  /\ call[c] # None
  /\ call[c].op = "cancel"
  /\ invitation' = [invitation EXCEPT ![call[c].invitation].status = "REVOKED"]
  /\ End(c)
  /\ UNCHANGED <<isArchived, isShared, member, admitted, overlapped>>

(* The checks of acceptInvitation. *)
CheckAccept(c, u, i) ==
  /\ invitation[i] # None
  /\ invitation[i].status = "PENDING"
  /\ ~isArchived
  /\ ~invitation[i].isExpired
  /\ u # Owner
  /\ u \notin ActiveMembers
  /\ Begin(c, [op |-> "accept", user |-> u, invitation |-> i])
  /\ UNCHANGED <<isArchived, isShared, invitation, member, admitted, overlapped>>

(* Mutant of Claimed: the status read before the transaction is trusted. *)
ClaimedAsChecked(i) == TRUE

(* The updateMany of acceptInvitationAtomic found the invitation PENDING. *)
Claimed(i) == invitation[i].status = "PENDING"

(* Mutant of Admission: a member who comes back keeps the old role. *)
AdmissionInOldRole(u, role) ==
  [role |-> IF member[u] = None THEN role ELSE member[u].role, status |-> "ACTIVE"]

(* The upsert of acceptInvitationAtomic. *)
Admission(u, role) == [role |-> role, status |-> "ACTIVE"]

(* acceptInvitationAtomic.  The archived flag and the expiry are not asked *)
(* about again.                                                            *)
CommitAccept(c) ==
  /\ call[c] # None
  /\ call[c].op = "accept"
  /\ LET u == call[c].user
         i == call[c].invitation
     IN  \/ /\ Claimed(i)
            /\ ~Removing(u)
            /\ invitation' = [invitation EXCEPT ![i].status = "ACCEPTED",
                                                ![i].acceptedBy = u]
            /\ member' = [member EXCEPT ![u] = Admission(u, invitation[i].role)]
            /\ isShared' = TRUE
            /\ admitted' = admitted \cup {<<i, u>>}
            /\ overlapped' = (overlapped \/ \E v \in Users : Removing(v))
         \/ /\ ~Claimed(i)
            /\ UNCHANGED <<isShared, invitation, member, admitted, overlapped>>
  /\ End(c)
  /\ UNCHANGED isArchived

-----------------------------------------------------------------------------
(* Members. *)

(* The owner edits a row, be its user a member or not. *)
UpdateMember(u, role) ==
  /\ member[u] # None
  /\ ~Removing(u)
  /\ member' = [member EXCEPT ![u].role = RoleOr(role, @)]
  /\ UNCHANGED <<isArchived, isShared, invitation, call, admitted, overlapped>>

(* removeMember by the owner asks for a row only, leaveWallet by the user  *)
(* for an ACTIVE one: the weaker check of the two.                         *)
CheckRemove(c, u) ==
  /\ member[u] # None
  /\ Begin(c, [op |-> "remove", user |-> u])
  /\ UNCHANGED <<isArchived, isShared, invitation, member, admitted, overlapped>>

(* Mutant of OthersLeft: counted before the row itself is written. *)
OthersLeftAndSelf(u) == ActiveMembers # {}

(* remainingActive > 0, counted after the row of u was written. *)
OthersLeft(u) == ActiveMembers \ {u} # {}

CountRemaining(c) ==
  /\ call[c] # None
  /\ call[c].op = "remove"
  /\ ~Removing(call[c].user)
  /\ overlapped' = (overlapped \/ \E v \in Users : Removing(v))
  /\ call' = [call EXCEPT ![c] = [op |-> "counted", user |-> call[c].user,
                                  othersLeft |-> OthersLeft(call[c].user)]]
  /\ UNCHANGED <<isArchived, isShared, invitation, member, admitted>>

CommitRemove(c) ==
  /\ call[c] # None
  /\ call[c].op = "counted"
  /\ member' = [member EXCEPT ![call[c].user].status = "LEFT"]
  /\ isShared' = (isShared /\ call[c].othersLeft)
  /\ End(c)
  /\ UNCHANGED <<isArchived, invitation, admitted, overlapped>>

-----------------------------------------------------------------------------
(* wallet.service.ts archive and restore, seen from here. *)
SetArchived(archived) ==
  /\ isArchived # archived
  /\ isArchived' = archived
  /\ UNCHANGED <<isShared, invitation, member, call, admitted, overlapped>>

(* The process dies in the middle of a call. *)
Lose(c) ==
  /\ call[c] # None
  /\ End(c)
  /\ UNCHANGED <<isArchived, isShared, invitation, member, admitted, overlapped>>

Init ==
  /\ isArchived = FALSE /\ isShared = FALSE
  /\ invitation = [i \in Invitations |-> None]
  /\ member = [u \in Users |-> None]
  /\ call = [c \in Calls |-> None]
  /\ admitted = {}
  /\ overlapped = FALSE

InvitationStep ==
  \E i \in Invitations :
    \/ \E role \in Roles \cup {None} : CreateInvitation(i, role)
    \/ Expire(i)
    \/ \E c \in Calls : CheckCancel(c, i)
    \/ \E c \in Calls, u \in Users : CheckAccept(c, u, i)

MemberStep ==
  \E u \in Users :
    \/ \E role \in Roles \cup {None} : UpdateMember(u, role)
    \/ \E c \in Calls : CheckRemove(c, u)

CallStep ==
  \E c \in Calls :
    \/ CommitCancel(c)
    \/ CommitAccept(c)
    \/ CountRemaining(c)
    \/ CommitRemove(c)
    \/ Lose(c)

WalletStep == \E archived \in BOOLEAN : SetArchived(archived)

Next == InvitationStep \/ MemberStep \/ CallStep \/ WalletStep

Spec == Init /\ [][Next]_vars

-----------------------------------------------------------------------------
(* What the invitations and memberships of module SharedWallet promise. *)

(* The rows have the columns of the schema, a call in flight holds what    *)
(* its handler read.                                                       *)
TypeOK ==
  /\ isArchived \in BOOLEAN /\ isShared \in BOOLEAN /\ overlapped \in BOOLEAN
  /\ invitation \in [Invitations -> InvitationRows \cup {None}]
  /\ member \in [Users -> MembershipRows \cup {None}]
  /\ call \in [Calls -> AcceptCalls \cup CancelCalls \cup RemoveCalls
                        \cup RemovalsCounted \cup {None}]
  /\ admitted \subseteq Invitations \X Users

(* An invitation code admits one user once, however many calls accept it   *)
(* at the same time (acceptInvitationAtomic claims the row by updateMany   *)
(* where PENDING), and the row names that user, revoked since or not.      *)
AdmitsOneUser ==
  \A i \in Invitations, u \in Users :
    <<i, u>> \in admitted => invitation[i] # None /\ invitation[i].acceptedBy = u

(* Whoever becomes an active member does so by an invitation that was      *)
(* PENDING, is spent by that step, and gives its role: no revoked or used  *)
(* code opens the wallet, whatever the caller had checked before.          *)
JoinsByInvitation ==
  [][\A u \in Users \ ActiveMembers :
       u \in ActiveMembers' =>
         \E i \in Invitations :
           /\ invitation[i] # None /\ invitation[i].status = "PENDING"
           /\ invitation'[i].status = "ACCEPTED"
           /\ invitation'[i].acceptedBy = u
           /\ member'[u].role = invitation[i].role]_vars

(* The owner never holds a membership row of his own wallet, which would   *)
(* let him be removed or limited: only members of the wallet have rows,    *)
(* and every one of them was admitted.                                     *)
MembersWereAdmitted ==
  \A u \in Users :
    member[u] # None => u # Owner /\ \E i \in Invitations : <<i, u>> \in admitted

(* Codes and memberships agree on who was let in: see AdmitsOneUser and    *)
(* MembersWereAdmitted.                                                    *)
AdmissionsAreSound == AdmitsOneUser /\ MembersWereAdmitted

(* isShared says whether the wallet has an active member, as long as no    *)
(* membership changed between the count and the commit of a removal: only  *)
(* such an overlap of removeMember with itself or with                     *)
(* acceptInvitationAtomic leaves the flag wrong.                           *)
SharedUnlessOverlapped ==
  ~overlapped => (isShared <=> ActiveMembers # {})
=============================================================================
