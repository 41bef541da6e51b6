------------------------------- MODULE Ledger -------------------------------
(***************************************************************************)
(* Wallets, income and expense transactions, and transfers between         *)
(* wallets: the services of modules/wallets, modules/transactions and      *)
(* modules/transfers over the database rows they keep.                     *)
(*                                                                         *)
(* Every handler below runs in one Serializable database transaction       *)
(* (runSerializable), so it is one action: it commits whole, or is refused *)
(* or aborted and changes nothing.  An action is enabled exactly when the  *)
(* handler would commit.  Ids of deleted rows may be used again: the model *)
(* of a fresh id.                                                          *)
(*                                                                         *)
(* Abstracted: names, dates inside a month, descriptions, receipts, caches *)
(* and notifications.  The category of a request is one the user may use,  *)
(* of the type of the transaction; a request with any other is refused.    *)
(***************************************************************************)
EXTENDS Integers, FiniteSets, FiniteSetsExt

CONSTANTS Users, Wallets, Txns, Transfers,   \* ids of the rows
          Currencies,
          Months,      \* the months a transaction may be dated in
          Amounts,     \* amounts of money, positive
          Balances,    \* balances an owner may declare, of either sign
          Limits,      \* monthly spending limits of members
          None         \* no row; no limit

ASSUME AmountsAssumption  == Amounts \subseteq Nat \ {0}
ASSUME BalancesAssumption == Balances \subseteq Int
ASSUME LimitsAssumption   == Limits \subseteq Nat
ASSUME IdsAssumption ==
  IsFiniteSet(Txns) /\ IsFiniteSet(Transfers) /\ Txns \cap Transfers = {}

TransactionTypes == {"INCOME", "EXPENSE"}
WalletTypes      == {"STANDARD", "SAVINGS_ACCOUNT"}
MemberRoles      == {"MEMBER", "VIEWER"}

WalletRows ==
  [owner : Users, type : WalletTypes, currency : Currencies, balance : Int,
   isArchived : BOOLEAN, isDefault : BOOLEAN]
TransactionRows ==
  [user : Users, wallet : Wallets, type : TransactionTypes, amount : Amounts,
   month : Months]
TransferRows ==
  [user : Users, source : Wallets, destination : Wallets, amount : Amounts]
MemberRows ==
  [role : MemberRoles, status : {"ACTIVE", "LEFT"}, limit : Limits \cup {None}]

ASSUME NoneAssumption ==
  None \notin WalletRows \cup TransactionRows \cup TransferRows \cup MemberRows
              \cup Limits \cup MemberRoles \cup {"OWNER"}
              \cup Currencies \cup Int

VARIABLES wallet,      \* wallet[w]: the row of wallet w, or None
          txn,         \* txn[t]: the row of transaction t, or None
          transfer,    \* transfer[x]: the row of transfer x, or None
          member,      \* member[<<w, u>>]: the membership row of u in w, or None
          declared     \* auxiliary: what the owners' declarations add up to

vars == <<wallet, txn, transfer, member, declared>>

-----------------------------------------------------------------------------
(* Who sees a wallet, and as what: findUserWalletRole, and the "owner or   *)
(* active member" condition of the wallet queries.                         *)

Exists(w) == wallet[w] # None

OwnedBy(u, w) == Exists(w) /\ wallet[w].owner = u

ActiveMember(u, w) == member[<<w, u>>] # None /\ member[<<w, u>>].status = "ACTIVE"

Role(u, w) ==
  IF ~Exists(w) THEN None
  ELSE IF OwnedBy(u, w) THEN "OWNER"
  ELSE IF ActiveMember(u, w) THEN member[<<w, u>>].role
  ELSE None

Visible(u, w) == Exists(w) /\ (OwnedBy(u, w) \/ ActiveMember(u, w))

TransactionVisible(u, t) ==
  /\ txn[t] # None
  /\ txn[t].user = u \/ Visible(u, txn[t].wallet)

-----------------------------------------------------------------------------
(* Effects of rows on balances. *)

Signed(type, amount) == IF type = "INCOME" THEN amount ELSE -amount

NoEffect == [w \in Wallets |-> 0]

(* adjustWalletBalance, direction APPLY; REVERSE subtracts it. *)
Adjustment(w, type, amount) ==
  [v \in Wallets |-> IF v = w THEN Signed(type, amount) ELSE 0]

(* debitWallet and incrementWallet. *)
Movement(source, destination, amount) ==
  [v \in Wallets |-> (IF v = destination THEN amount ELSE 0)
                     - (IF v = source THEN amount ELSE 0)]

TransactionEffect(row) ==
  IF row = None THEN NoEffect ELSE Adjustment(row.wallet, row.type, row.amount)

TransferEffect(row) ==
  IF row = None THEN NoEffect
  ELSE Movement(row.source, row.destination, row.amount)

(* Add delta[w] to the balance of every wallet w. *)
Increment(delta) ==
  wallet' = [w \in Wallets |->
               IF Exists(w) THEN [wallet[w] EXCEPT !.balance = @ + delta[w]]
               ELSE None]

Reversal(effect) == [w \in Wallets |-> -effect[w]]

Both(effect1, effect2) == [w \in Wallets |-> effect1[w] + effect2[w]]

-----------------------------------------------------------------------------
(* Wallets. *)

ActiveWallets(u) == {w \in Wallets : OwnedBy(u, w) /\ ~wallet[w].isArchived}

(* Mutant of ClearDefault: the old default wallet keeps its flag. *)
KeepDefault(u) == wallet

(* updateMany: no wallet of u is the default one any more. *)
ClearDefault(u) ==
  [w \in Wallets |-> IF OwnedBy(u, w) THEN [wallet[w] EXCEPT !.isDefault = FALSE]
                     ELSE wallet[w]]

(* An optional field of a request, None when it is absent, and what stays  *)
(* in the row then: the stored value, or the default of the column.        *)
Patched(field, stored) == IF field = None THEN stored ELSE field

(* The first active wallet of a user becomes the default one. *)
CreateWallet(u, w, type, currency, balance, isDefault) ==
  /\ ~Exists(w)
  /\ LET shouldBeDefault == isDefault \/ ActiveWallets(u) = {}
         others == IF shouldBeDefault THEN ClearDefault(u) ELSE wallet
     IN  wallet' = [others EXCEPT ![w] =
                      [owner |-> u, type |-> type, currency |-> currency,
                       balance |-> Patched(balance, 0), isArchived |-> FALSE,
                       isDefault |-> shouldBeDefault]]
  /\ declared' = [declared EXCEPT ![w] = @ + Patched(balance, 0)]
  /\ UNCHANGED <<txn, transfer, member>>

(* Mutant of UpdateWallet: an absent currency overwrites the stored one. *)
UpdateWalletWhole(u, w, currency, balance) ==
  /\ OwnedBy(u, w)
  /\ wallet' = [wallet EXCEPT ![w].currency = currency,
                              ![w].balance = Patched(balance, @)]
  /\ declared' = [declared EXCEPT ![w] =
                     @ + Patched(balance, wallet[w].balance) - wallet[w].balance]
  /\ UNCHANGED <<txn, transfer, member>>

(* The owner edits the wallet: archived or not, its balance and its        *)
(* currency are set to what the request says.                              *)
UpdateWallet(u, w, currency, balance) ==
  /\ OwnedBy(u, w)
  /\ wallet' = [wallet EXCEPT ![w].currency = Patched(currency, @),
                              ![w].balance = Patched(balance, @)]
  /\ declared' = [declared EXCEPT ![w] =
                     @ + Patched(balance, wallet[w].balance) - wallet[w].balance]
  /\ UNCHANGED <<txn, transfer, member>>

SetDefault(u, w) ==
  /\ OwnedBy(u, w)
  /\ ~wallet[w].isArchived
  /\ wallet[w].type # "SAVINGS_ACCOUNT"
  /\ wallet' = [ClearDefault(u) EXCEPT ![w].isDefault = TRUE]
  /\ UNCHANGED <<txn, transfer, member, declared>>

ArchiveWallet(u, w) ==
  /\ OwnedBy(u, w)
  /\ wallet[w].type # "SAVINGS_ACCOUNT"
  /\ ~wallet[w].isDefault
  /\ wallet' = [wallet EXCEPT ![w].isArchived = TRUE]
  /\ UNCHANGED <<txn, transfer, member, declared>>

RestoreWallet(u, w) ==
  /\ OwnedBy(u, w)
  /\ wallet[w].isArchived
  /\ LET hasDefault == \E v \in ActiveWallets(u) : wallet[v].isDefault
     IN  wallet' = [wallet EXCEPT ![w].isArchived = FALSE,
                                  ![w].isDefault = ~hasDefault]
  /\ UNCHANGED <<txn, transfer, member, declared>>

-----------------------------------------------------------------------------
(* Transactions. *)

(* getMemberSpentInDateRange over the month m. *)
Spent(u, w, m) ==
  LET expenses == {t \in Txns : /\ txn[t] # None
                                /\ txn[t].user = u
                                /\ txn[t].wallet = w
                                /\ txn[t].type = "EXPENSE"
                                /\ txn[t].month = m}
  IN  MapThenSumSet(LAMBDA t : txn[t].amount, expenses)

(* Mutant of WithinQuota: only what is spent already is compared. *)
WithinQuotaSoFar(u, w, m, type, added) ==
  type = "EXPENSE" /\ Role(u, w) = "MEMBER" /\ member[<<w, u>>].limit # None =>
    Spent(u, w, m) <= member[<<w, u>>].limit

(* A MEMBER with a limit may add this much to the spending of the month. *)
WithinQuota(u, w, m, type, added) ==
  type = "EXPENSE" /\ Role(u, w) = "MEMBER" /\ member[<<w, u>>].limit # None =>
    Spent(u, w, m) + added <= member[<<w, u>>].limit

(* Mutant of ValidRelations: an archived wallet takes transactions. *)
RelationsOfAnyWallet(u, w, type) ==
  /\ Visible(u, w)
  /\ ~(wallet[w].type = "SAVINGS_ACCOUNT" /\ type = "EXPENSE")

(* Mutant of ValidRelations: a savings book can be spent from. *)
RelationsOfUnlockedSavings(u, w, type) ==
  /\ Visible(u, w)
  /\ ~wallet[w].isArchived

(* ensureValidRelations: the wallet the transaction is, or will be, in. *)
ValidRelations(u, w, type) ==
  /\ Visible(u, w)
  /\ ~wallet[w].isArchived
  /\ ~(wallet[w].type = "SAVINGS_ACCOUNT" /\ type = "EXPENSE")

CreateTransaction(u, t, w, type, amount, m) ==
  /\ txn[t] = None
  /\ Role(u, w) \in {"OWNER", "MEMBER"}
  /\ WithinQuota(u, w, m, type, amount)
  /\ ValidRelations(u, w, type)
  /\ txn' = [txn EXCEPT ![t] = [user |-> u, wallet |-> w, type |-> type,
                                amount |-> amount, month |-> m]]
  /\ Increment(Adjustment(w, type, amount))
  /\ UNCHANGED <<transfer, member, declared>>

(* Mutant of CanUpdate: the role in the wallet the row leaves is not asked. *)
CanUpdateFromAnywhere(u, current, w, type, amount, m) ==
  LET netDelta == IF current.wallet = w /\ current.type = "EXPENSE"
                  THEN amount - current.amount ELSE amount
  IN  /\ Role(u, w) \in {"OWNER", "MEMBER"}
      /\ netDelta > 0 => WithinQuota(u, w, m, type, netDelta)

(* assertCanUpdateTransaction.  The quota is asked about only when the     *)
(* edit adds to what the caller spends in the wallet.                      *)
CanUpdate(u, current, w, type, amount, m) ==
  LET netDelta == IF current.wallet = w /\ current.type = "EXPENSE"
                  THEN amount - current.amount ELSE amount
  IN  /\ Role(u, w) \in {"OWNER", "MEMBER"}
      /\ current.wallet # w => Role(u, current.wallet) # "VIEWER"
      /\ netDelta > 0 => WithinQuota(u, w, m, type, netDelta)

(* Mutant of UpdateTransaction: a change of wallet alone moves no money. *)
UpdateTransactionInPlace(u, t, w, type, amount, m) ==
  /\ TransactionVisible(u, t)
  /\ LET current == txn[t]
         next == [current EXCEPT !.wallet = w, !.type = type,
                                 !.amount = amount, !.month = m]
     IN  /\ Visible(u, current.wallet)
         /\ current.user = u \/ OwnedBy(u, current.wallet)
         /\ CanUpdate(u, current, w, type, amount, m)
         /\ ValidRelations(u, w, type)
         /\ IF type # current.type \/ amount # current.amount
            THEN Increment(Both(Reversal(TransactionEffect(current)),
                                Adjustment(w, type, amount)))
            ELSE UNCHANGED wallet
         /\ txn' = [txn EXCEPT ![t] = next]
  /\ UNCHANGED <<transfer, member, declared>>

(* The edit reverses the old effect and applies the new one, when wallet,  *)
(* type or amount change.  Only the wallet the transaction goes to must be *)
(* active; the one it leaves need not be.                                  *)
UpdateTransaction(u, t, w, type, amount, m) ==
  /\ TransactionVisible(u, t)
  /\ LET current == txn[t]
         next == [current EXCEPT !.wallet = w, !.type = type,
                                 !.amount = amount, !.month = m]
         financialDataChanged == \/ w # current.wallet
                                 \/ type # current.type
                                 \/ amount # current.amount
     IN  /\ Visible(u, current.wallet)
         /\ current.user = u \/ OwnedBy(u, current.wallet)
         /\ CanUpdate(u, current, w, type, amount, m)
         /\ ValidRelations(u, w, type)
         /\ IF financialDataChanged
            THEN Increment(Both(Reversal(TransactionEffect(current)),
                                Adjustment(w, type, amount)))
            ELSE UNCHANGED wallet
         /\ txn' = [txn EXCEPT ![t] = next]
  /\ UNCHANGED <<transfer, member, declared>>

DeleteTransaction(u, t) ==
  /\ TransactionVisible(u, t)
  /\ LET w == txn[t].wallet
     IN  /\ Visible(u, w)
         /\ ~wallet[w].isArchived
         /\ Role(u, w) \in {"OWNER", "MEMBER"}
         /\ txn[t].user = u \/ OwnedBy(u, w)
  /\ Increment(Reversal(TransactionEffect(txn[t])))
  /\ txn' = [txn EXCEPT ![t] = None]
  /\ UNCHANGED <<transfer, member, declared>>

-----------------------------------------------------------------------------
(* Transfers between two wallets of one owner. *)

(* debitWallet: the balance covers the amount. *)
Covers(w, amount) == wallet[w].balance >= amount

CreateTransfer(u, x, source, destination, amount) ==
  /\ transfer[x] = None
  /\ source # destination
  /\ OwnedBy(u, source) /\ OwnedBy(u, destination)
  /\ ~wallet[source].isArchived /\ ~wallet[destination].isArchived
  /\ wallet[source].type # "SAVINGS_ACCOUNT"
  /\ wallet[source].currency = wallet[destination].currency
  /\ Covers(source, amount)
  /\ Increment(Movement(source, destination, amount))
  /\ transfer' = [transfer EXCEPT ![x] =
                    [user |-> u, source |-> source, destination |-> destination,
                     amount |-> amount]]
  /\ UNCHANGED <<txn, member, declared>>

(* Mutant of DeleteTransfer: the row goes, the money stays where it is. *)
ForgetTransfer(u, x) ==
  /\ transfer[x] # None
  /\ LET row == transfer[x]
     IN  /\ row.user = u
         /\ OwnedBy(u, row.source) /\ OwnedBy(u, row.destination)
         /\ ~wallet[row.source].isArchived /\ ~wallet[row.destination].isArchived
         /\ wallet[row.destination].type # "SAVINGS_ACCOUNT"
         /\ Covers(row.destination, row.amount)
  /\ transfer' = [transfer EXCEPT ![x] = None]
  /\ UNCHANGED <<wallet, txn, member, declared>>

DeleteTransfer(u, x) ==
  /\ transfer[x] # None
  /\ LET row == transfer[x]
     IN  /\ row.user = u
         /\ OwnedBy(u, row.source) /\ OwnedBy(u, row.destination)
         /\ ~wallet[row.source].isArchived /\ ~wallet[row.destination].isArchived
         /\ wallet[row.destination].type # "SAVINGS_ACCOUNT"
         /\ Covers(row.destination, row.amount)
  /\ Increment(Reversal(TransferEffect(transfer[x])))
  /\ transfer' = [transfer EXCEPT ![x] = None]
  /\ UNCHANGED <<txn, member, declared>>

-----------------------------------------------------------------------------
(* Members of a shared wallet, as far as transactions see them: the rows   *)
(* that joining, editing and leaving write.  The invitation protocol that  *)
(* leads to them is in module SharedWallet.                                *)

(* The upsert of acceptInvitationAtomic: a member who comes back keeps the *)
(* limit of the old row.  That the wallet is active and u is not yet a     *)
(* member was read before the database transaction and may be stale.       *)
JoinWallet(u, w, role) ==
  /\ Exists(w) /\ ~OwnedBy(u, w)
  /\ member' = [member EXCEPT ![<<w, u>>] =
                  [role |-> role, status |-> "ACTIVE",
                   limit |-> IF @ = None THEN None ELSE @.limit]]
  /\ UNCHANGED <<wallet, txn, transfer, declared>>

(* updateMember: the row of a member who has left may be edited too. *)
UpdateMember(o, u, w, role, limit) ==
  /\ OwnedBy(o, w)
  /\ member[<<w, u>>] # None
  /\ member' = [member EXCEPT ![<<w, u>>].role = role, ![<<w, u>>].limit = limit]
  /\ UNCHANGED <<wallet, txn, transfer, declared>>

(* removeMember by the owner, leaveWallet by the member. *)
LeaveWallet(u, w) ==
  /\ ActiveMember(u, w)
  /\ member' = [member EXCEPT ![<<w, u>>].status = "LEFT"]
  /\ UNCHANGED <<wallet, txn, transfer, declared>>

-----------------------------------------------------------------------------
Init ==
  /\ wallet = [w \in Wallets |-> None]
  /\ txn = [t \in Txns |-> None]
  /\ transfer = [x \in Transfers |-> None]
  /\ member = [wu \in Wallets \X Users |-> None]
  /\ declared = [w \in Wallets |-> 0]

WalletStep(u) ==
  \E w \in Wallets :
    \/ \E type \in WalletTypes, currency \in Currencies,
          balance \in Balances \cup {None}, isDefault \in BOOLEAN :
         CreateWallet(u, w, type, currency, balance, isDefault)
    \/ \E currency \in Currencies \cup {None}, balance \in Balances \cup {None} :
         UpdateWallet(u, w, currency, balance)
    \/ SetDefault(u, w)
    \/ ArchiveWallet(u, w)
    \/ RestoreWallet(u, w)

TransactionStep(u) ==
  \E t \in Txns :
    \/ \E w \in Wallets, type \in TransactionTypes, amount \in Amounts,
          m \in Months :
         \/ CreateTransaction(u, t, w, type, amount, m)
         \/ UpdateTransaction(u, t, w, type, amount, m)
    \/ DeleteTransaction(u, t)

TransferStep(u) ==
  \E x \in Transfers :
    \/ \E source, destination \in Wallets, amount \in Amounts :
         CreateTransfer(u, x, source, destination, amount)
    \/ DeleteTransfer(u, x)

MemberStep(u) ==
  \E w \in Wallets :
    \/ \E role \in MemberRoles : JoinWallet(u, w, role)
    \/ \E o \in Users, role \in MemberRoles, limit \in Limits \cup {None} :
         UpdateMember(o, u, w, role, limit)
    \/ LeaveWallet(u, w)

Next == \E u \in Users : \/ WalletStep(u)
                         \/ TransactionStep(u)
                         \/ TransferStep(u)
                         \/ MemberStep(u)

Spec == Init /\ [][Next]_vars

-----------------------------------------------------------------------------
(***************************************************************************)
(* What the services of module Ledger must guarantee, and the promise of   *)
(* module Book that they implement.                                        *)
(***************************************************************************)

(* Every row has the columns of its table. *)
TypeOK ==
  /\ wallet \in [Wallets -> WalletRows \cup {None}]
  /\ txn \in [Txns -> TransactionRows \cup {None}]
  /\ transfer \in [Transfers -> TransferRows \cup {None}]
  /\ member \in [Wallets \X Users -> MemberRows \cup {None}]
  /\ declared \in [Wallets -> Int]

(* The foreign keys of the schema: a row's wallets exist. *)
ReferencesOK ==
  /\ \A t \in Txns : txn[t] # None => Exists(txn[t].wallet)
  /\ \A x \in Transfers :
       transfer[x] # None => /\ Exists(transfer[x].source)
                             /\ Exists(transfer[x].destination)

-----------------------------------------------------------------------------
(* Rows and money. *)

BalanceOf(w) == IF Exists(w) THEN wallet[w].balance ELSE 0

(* A row of the books, seen through its effect on the wallets. *)
EffectOf(e) == IF e \in Txns THEN TransactionEffect(txn[e])
               ELSE TransferEffect(transfer[e])

RowEffects ==
  {NoEffect}
    \cup {Adjustment(w, type, amount) :
            w \in Wallets, type \in TransactionTypes, amount \in Amounts}
    \cup {Movement(v, w, amount) : v, w \in Wallets, amount \in Amounts}

B == INSTANCE Book WITH Entries  <- Txns \cup Transfers,
                        Effects  <- RowEffects,
                        Declared <- Balances \cup {0},
                        balance  <- [w \in Wallets |-> BalanceOf(w)],
                        entry    <- [e \in Txns \cup Transfers |-> EffectOf(e)]

(* Every handler of the three services is one entry of the abstract book:  *)
(* it replaces the effect of one row and moves the balances by exactly the *)
(* difference, or it is the owner's declaration of one balance.  This is   *)
(* the README's rule that every creation, edit or deletion adjusts the     *)
(* wallet in the same database transaction and that edits and deletions    *)
(* reverse what was applied before.                                        *)
BookSpec == B!Spec

(* Balance accounting: after any history of creations, edits, moves        *)
(* between wallets and deletions, each wallet holds what its owner         *)
(* declared plus the transactions and transfers that exist now.            *)
BalanceConserved == B!Conserved

-----------------------------------------------------------------------------
(* Default wallets. *)

(* At most one wallet of a user is the default one; no unique index of the *)
(* database says so.                                                       *)
OneDefault ==
  \A v, w \in Wallets :
    /\ Exists(v) /\ Exists(w)
    /\ wallet[v].owner = wallet[w].owner
    /\ wallet[v].isDefault /\ wallet[w].isDefault
    => v = w

DefaultIsActive ==
  \A w \in Wallets : Exists(w) /\ wallet[w].isDefault => ~wallet[w].isArchived

HasDefault ==
  \A u \in Users :
    ActiveWallets(u) # {} => \E w \in ActiveWallets(u) : wallet[w].isDefault

(* However wallets are created, archived, restored and chosen, a user with *)
(* an active wallet has exactly one default wallet, and it is active: what *)
(* quick entry, the assistant and imports rely on to pick a wallet.        *)
DefaultWallets == OneDefault /\ DefaultIsActive /\ HasDefault

-----------------------------------------------------------------------------
(* Savings wallets and archived wallets. *)

(* Money leaves a savings wallet only by settling its deposit: no history  *)
(* of creations and edits leaves an expense on one, or a transfer from it. *)
NoSavingsSpending ==
  /\ \A t \in Txns :
       txn[t] # None /\ txn[t].type = "EXPENSE" =>
         wallet[txn[t].wallet].type # "SAVINGS_ACCOUNT"
  /\ \A x \in Transfers :
       transfer[x] # None => wallet[transfer[x].source].type # "SAVINGS_ACCOUNT"

(* While a wallet is archived no transaction is added to it or edited in   *)
(* it; a transaction may only be moved out of it.  Transfers of an         *)
(* archived wallet stay as they are.                                       *)
Archived(w) == Exists(w) /\ wallet[w].isArchived

RowsOnlyLeaveArchived ==
  /\ \A t \in Txns :
       txn'[t] # None /\ Archived(txn'[t].wallet) => txn'[t] = txn[t]
  /\ \A x \in Transfers :
       transfer[x] # transfer'[x] =>
         \A row \in {transfer[x], transfer'[x]} \ {None} :
           ~Archived(row.source) /\ ~Archived(row.destination)

ArchivedOnlyLosesRows == [][RowsOnlyLeaveArchived]_vars

-----------------------------------------------------------------------------
(* Shared wallets. *)

(* Whatever u does with transactions and transfers, only wallets in which  *)
(* u is at that moment the owner or a MEMBER gain or lose money or rows:   *)
(* neither a VIEWER nor a member who has left moves anything, not even a   *)
(* transaction of their own.                                               *)
TouchedByStep(w) ==
  \/ wallet'[w] # wallet[w]
  \/ \E t \in Txns :
       /\ txn'[t] # txn[t]
       /\ \E row \in {txn[t], txn'[t]} \ {None} : row.wallet = w

OnlyWritersWrite ==
  \A u \in Users, w \in Wallets :
    Role(u, w) \notin {"OWNER", "MEMBER"} /\ TouchedByStep(w) =>
      ~(TransactionStep(u) \/ TransferStep(u))

RolesRespected == [][OnlyWritersWrite]_vars

(* A member's spending in a month of a wallet grows past their limit only  *)
(* when spending of another month of that wallet is re-dated into it:      *)
(* new expenses, larger ones, expenses made from income and expenses that  *)
(* come from another wallet are all counted against the limit.             *)
OverQuotaAfter(u, w, m) ==
  /\ Role(u, w) = "MEMBER"
  /\ member[<<w, u>>].limit # None
  /\ Spent(u, w, m)' > Spent(u, w, m)
  /\ Spent(u, w, m)' > member[<<w, u>>].limit

AdditionsWithinQuota ==
  \A u \in Users, w \in Wallets, m \in Months :
    /\ OverQuotaAfter(u, w, m)
    /\ \A n \in Months \ {m} : Spent(u, w, n)' >= Spent(u, w, n)
    => ~TransactionStep(u)

QuotaOfAdditions == [][AdditionsWithinQuota]_vars
=============================================================================
