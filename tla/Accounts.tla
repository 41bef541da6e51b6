------------------------------ MODULE Accounts ------------------------------
(***************************************************************************)
(* The rows of users as far as signing in, roles and hand-overs read or    *)
(* write them.  password counts the passwords a user has had: 0 is none.   *)
(***************************************************************************)
EXTENDS Naturals, FiniteSets

CONSTANTS Users, Roles, None

VARIABLE account

AccountRows ==
    [role: Roles, isActive: BOOLEAN, isDeleted: BOOLEAN, password: Nat,
     hasEmail: BOOLEAN, hasPhone: BOOLEAN]

TypeOKAccounts == account \in [Users -> AccountRows \cup {None}]

\* AuthRepository.findById: a deleted user is not found.
Found(u) == account[u] # None /\ ~account[u].isDeleted

Live(u) == Found(u) /\ account[u].isActive

Member(r, email, phone) ==
    [role |-> r, isActive |-> TRUE, isDeleted |-> FALSE,
     password |-> IF email THEN 1 ELSE 0, hasEmail |-> email, hasPhone |-> phone]

\* The row of a deletion, by an administrator or by a hand-over.
Deleted(row) == [row EXCEPT !.isActive = FALSE, !.isDeleted = TRUE]
=============================================================================
