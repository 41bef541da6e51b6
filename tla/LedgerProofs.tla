---------------------------- MODULE LedgerProofs ----------------------------
(***************************************************************************)
(* Proofs about module Ledger, for every set of users, wallets, rows,      *)
(* amounts, balances and limits.                                           *)
(***************************************************************************)
EXTENDS Ledger, Totals, TLAPS

-----------------------------------------------------------------------------
(* Rows and the operators that change them. *)

LEMMA NoneIsNoRow ==
  /\ None \notin WalletRows
  /\ None \notin TransactionRows
  /\ None \notin TransferRows
  /\ None \notin MemberRows
BY NoneAssumption

(* A delta of the balances: an amount of money for every wallet. *)
Deltas == [Wallets -> Int]

LEMMA AmountsAreIntegers == \A a \in Amounts : a \in Int /\ a > 0
BY AmountsAssumption

LEMMA EffectsAreDeltas ==
  /\ NoEffect \in Deltas
  /\ \A w \in Wallets, type \in TransactionTypes, a \in Amounts :
       Adjustment(w, type, a) \in Deltas
  /\ \A v, w \in Wallets, a \in Amounts : Movement(v, w, a) \in Deltas
  /\ \A d \in Deltas : Reversal(d) \in Deltas
  /\ \A d, e \in Deltas : Both(d, e) \in Deltas
BY AmountsAreIntegers
   DEF NoEffect, Adjustment, Signed, Movement, Reversal, Both, Deltas

(* Adding a delta to the balances leaves every other column as it is. *)
SameColumns(v, w) ==
  /\ v.owner = w.owner /\ v.type = w.type /\ v.currency = w.currency
  /\ v.isArchived = w.isArchived /\ v.isDefault = w.isDefault

OnlyBalancesChange ==
  \A w \in Wallets :
    /\ wallet'[w] = None <=> wallet[w] = None
    /\ Exists(w) => SameColumns(wallet'[w], wallet[w])

LEMMA IncrementLemma ==
  ASSUME TypeOK, NEW d \in Deltas, Increment(d)
  PROVE  /\ wallet' \in [Wallets -> WalletRows \cup {None}]
         /\ OnlyBalancesChange
         /\ \A w \in Wallets : Exists(w) => wallet'[w].balance = wallet[w].balance + d[w]
PROOF
<1>1. ASSUME NEW w \in Wallets, Exists(w)
      PROVE  /\ wallet'[w] = [wallet[w] EXCEPT !.balance = @ + d[w]]
             /\ wallet[w] \in WalletRows
             /\ wallet'[w] \in WalletRows
             /\ wallet'[w] # None
  BY <1>1, NoneIsNoRow DEF TypeOK, Increment, Exists, Deltas, WalletRows
<1>2. ASSUME NEW w \in Wallets, ~Exists(w)
      PROVE  wallet'[w] = None /\ wallet[w] = None
  BY <1>2 DEF Increment, Exists
<1>3. wallet' \in [Wallets -> WalletRows \cup {None}]
  BY <1>1, <1>2 DEF Increment, Exists
<1>4. OnlyBalancesChange
  BY <1>1, <1>2 DEF OnlyBalancesChange, SameColumns, WalletRows, Exists
<1>5. \A w \in Wallets : Exists(w) => wallet'[w].balance = wallet[w].balance + d[w]
  BY <1>1 DEF WalletRows
<1> QED
  BY <1>3, <1>4, <1>5

-----------------------------------------------------------------------------
(* Type correctness. *)

LEMMA RowEffectsAreDeltas ==
  ASSUME TypeOK
  PROVE  /\ \A t \in Txns : TransactionEffect(txn[t]) \in Deltas
         /\ \A x \in Transfers : TransferEffect(transfer[x]) \in Deltas
PROOF
<1>1. ASSUME NEW t \in Txns PROVE TransactionEffect(txn[t]) \in Deltas
  <2>1. txn[t] \in TransactionRows \cup {None}
    BY DEF TypeOK
  <2> QED
    BY <2>1, EffectsAreDeltas DEF TransactionEffect, TransactionRows
<1>2. ASSUME NEW x \in Transfers PROVE TransferEffect(transfer[x]) \in Deltas
  <2>1. transfer[x] \in TransferRows \cup {None}
    BY DEF TypeOK
  <2> QED
    BY <2>1, EffectsAreDeltas DEF TransferEffect, TransferRows
<1> QED
  BY <1>1, <1>2

LEMMA WalletTypeStep ==
  ASSUME TypeOK, NEW u \in Users, WalletStep(u)
  PROVE  TypeOK'
PROOF
<1>1. ASSUME NEW b \in Balances \cup {None}, NEW n \in Int
      PROVE  Patched(b, n) \in Int
  BY BalancesAssumption DEF Patched
<1>2. ASSUME NEW w \in Wallets, NEW type \in WalletTypes,
             NEW currency \in Currencies, NEW balance \in Balances \cup {None},
             NEW isDefault \in BOOLEAN,
             CreateWallet(u, w, type, currency, balance, isDefault)
      PROVE  TypeOK'
  <2> DEFINE default == isDefault \/ ActiveWallets(u) = {}
             row == [owner |-> u, type |-> type, currency |-> currency,
                     balance |-> Patched(balance, 0), isArchived |-> FALSE,
                     isDefault |-> default]
             others == IF default THEN ClearDefault(u) ELSE wallet
  <2>1. row \in WalletRows
    BY <1>1, SMT DEF WalletRows
  <2>2. others \in [Wallets -> WalletRows \cup {None}]
    BY ZenonT(40) DEF TypeOK, ClearDefault, OwnedBy, Exists, WalletRows
  <2>3. wallet' = [others EXCEPT ![w] = row]
    BY <1>2 DEF CreateWallet
  <2>4. declared' \in [Wallets -> Int]
    BY <1>1, <1>2 DEF CreateWallet, TypeOK
  <2> QED
    BY <1>2, <2>1, <2>2, <2>3, <2>4 DEF CreateWallet, TypeOK
<1>3. ASSUME NEW w \in Wallets, NEW currency \in Currencies \cup {None},
             NEW balance \in Balances \cup {None},
             UpdateWallet(u, w, currency, balance)
      PROVE  TypeOK'
  <2>1. wallet[w] \in WalletRows
    BY <1>3 DEF UpdateWallet, OwnedBy, Exists, TypeOK
  <2>2. /\ Patched(currency, wallet[w].currency) \in Currencies
        /\ Patched(balance, wallet[w].balance) \in Int
    BY <1>1, <2>1 DEF Patched, WalletRows
  <2>3. declared' \in [Wallets -> Int]
    BY <1>3, <2>1, <2>2 DEF UpdateWallet, TypeOK, WalletRows
  <2> QED
    BY <1>3, <2>1, <2>2, <2>3 DEF UpdateWallet, TypeOK, WalletRows
<1>4. ASSUME NEW w \in Wallets, SetDefault(u, w)
      PROVE  TypeOK'
  <2>1. ClearDefault(u) \in [Wallets -> WalletRows \cup {None}]
    BY DEF TypeOK, ClearDefault, OwnedBy, Exists, WalletRows
  <2>2. ClearDefault(u)[w] \in WalletRows
    BY <1>4 DEF SetDefault, ClearDefault, OwnedBy, Exists, TypeOK, WalletRows
  <2>3. wallet' = [ClearDefault(u) EXCEPT ![w].isDefault = TRUE]
    BY <1>4 DEF SetDefault
  <2>4. wallet' \in [Wallets -> WalletRows \cup {None}]
    BY <2>1, <2>2, <2>3 DEF WalletRows
  <2> QED
    BY <1>4, <2>4 DEF SetDefault, TypeOK
<1>5. ASSUME NEW w \in Wallets, ArchiveWallet(u, w)
      PROVE  TypeOK'
  <2>1. wallet[w] \in WalletRows
    BY <1>5 DEF ArchiveWallet, OwnedBy, Exists, TypeOK
  <2>2. [wallet[w] EXCEPT !.isArchived = TRUE] \in WalletRows
    BY <2>1 DEF WalletRows
  <2>3. wallet' = [wallet EXCEPT ![w] = [wallet[w] EXCEPT !.isArchived = TRUE]]
    BY <1>5 DEF ArchiveWallet, TypeOK
  <2> QED
    BY <1>5, <2>2, <2>3 DEF ArchiveWallet, TypeOK
<1>6. ASSUME NEW w \in Wallets, RestoreWallet(u, w)
      PROVE  TypeOK'
  <2>1. wallet[w] \in WalletRows
    BY <1>6 DEF RestoreWallet, OwnedBy, Exists, TypeOK
  <2> DEFINE hasDefault == \E v \in ActiveWallets(u) : wallet[v].isDefault
  <2>2. hasDefault \in BOOLEAN
    OBVIOUS
  <2>3. wallet' = [wallet EXCEPT ![w].isArchived = FALSE,
                                 ![w].isDefault = ~hasDefault]
    BY <1>6 DEF RestoreWallet
  <2> HIDE DEF hasDefault
  <2> DEFINE row == [wallet[w] EXCEPT !.isArchived = FALSE, !.isDefault = ~hasDefault]
  <2>4. row \in WalletRows
    BY <2>1, <2>2 DEF WalletRows
  <2>5. wallet' = [wallet EXCEPT ![w] = row]
    BY <2>1, <2>3, Zenon DEF TypeOK
  <2>6. wallet' \in [Wallets -> WalletRows \cup {None}]
    BY <2>4, <2>5 DEF TypeOK
  <2> QED
    BY <1>6, <2>6 DEF RestoreWallet, TypeOK
<1> QED
  BY <1>2, <1>3, <1>4, <1>5, <1>6 DEF WalletStep

LEMMA TransactionTypeStep ==
  ASSUME TypeOK, NEW u \in Users, TransactionStep(u)
  PROVE  TypeOK'
PROOF
<1>1. ASSUME NEW t \in Txns, NEW w \in Wallets, NEW type \in TransactionTypes,
             NEW a \in Amounts, NEW m \in Months,
             CreateTransaction(u, t, w, type, a, m)
      PROVE  TypeOK'
  <2>1. wallet' \in [Wallets -> WalletRows \cup {None}]
    BY <1>1, EffectsAreDeltas, IncrementLemma DEF CreateTransaction
  <2>2. txn' \in [Txns -> TransactionRows \cup {None}]
    BY <1>1 DEF CreateTransaction, TypeOK, TransactionRows
  <2> QED
    BY <1>1, <2>1, <2>2 DEF CreateTransaction, TypeOK
<1>2. ASSUME NEW t \in Txns, NEW w \in Wallets, NEW type \in TransactionTypes,
             NEW a \in Amounts, NEW m \in Months,
             UpdateTransaction(u, t, w, type, a, m)
      PROVE  TypeOK'
  <2> DEFINE d == Both(Reversal(TransactionEffect(txn[t])), Adjustment(w, type, a))
  <2>1. d \in Deltas
    BY EffectsAreDeltas, RowEffectsAreDeltas
  <2>2. Increment(d) \/ UNCHANGED wallet
    BY <1>2 DEF UpdateTransaction
  <2> HIDE DEF d
  <2>3. wallet' \in [Wallets -> WalletRows \cup {None}]
    BY <2>1, <2>2, IncrementLemma DEF TypeOK
  <2>4. txn[t] \in TransactionRows
    BY <1>2 DEF UpdateTransaction, TransactionVisible, TypeOK
  <2>5. txn' \in [Txns -> TransactionRows \cup {None}]
    BY <1>2, <2>4 DEF UpdateTransaction, TypeOK, TransactionRows
  <2> QED
    BY <1>2, <2>3, <2>5 DEF UpdateTransaction, TypeOK
<1>3. ASSUME NEW t \in Txns, DeleteTransaction(u, t)
      PROVE  TypeOK'
  <2>1. wallet' \in [Wallets -> WalletRows \cup {None}]
    BY <1>3, EffectsAreDeltas, RowEffectsAreDeltas, IncrementLemma
       DEF DeleteTransaction
  <2> QED
    BY <1>3, <2>1 DEF DeleteTransaction, TypeOK
<1> QED
  BY <1>1, <1>2, <1>3 DEF TransactionStep

LEMMA TransferTypeStep ==
  ASSUME TypeOK, NEW u \in Users, TransferStep(u)
  PROVE  TypeOK'
PROOF
<1>1. ASSUME NEW x \in Transfers, NEW source \in Wallets,
             NEW destination \in Wallets, NEW a \in Amounts,
             CreateTransfer(u, x, source, destination, a)
      PROVE  TypeOK'
  <2>1. wallet' \in [Wallets -> WalletRows \cup {None}]
    BY <1>1, EffectsAreDeltas, IncrementLemma DEF CreateTransfer
  <2>2. transfer' \in [Transfers -> TransferRows \cup {None}]
    BY <1>1 DEF CreateTransfer, TypeOK, TransferRows
  <2> QED
    BY <1>1, <2>1, <2>2 DEF CreateTransfer, TypeOK
<1>2. ASSUME NEW x \in Transfers, DeleteTransfer(u, x)
      PROVE  TypeOK'
  <2>1. wallet' \in [Wallets -> WalletRows \cup {None}]
    BY <1>2, EffectsAreDeltas, RowEffectsAreDeltas, IncrementLemma
       DEF DeleteTransfer
  <2> QED
    BY <1>2, <2>1 DEF DeleteTransfer, TypeOK
<1> QED
  BY <1>1, <1>2 DEF TransferStep

LEMMA MemberTypeStep ==
  ASSUME TypeOK, NEW u \in Users, MemberStep(u)
  PROVE  TypeOK'
PROOF
<1>1. ASSUME NEW w \in Wallets, NEW role \in MemberRoles, JoinWallet(u, w, role)
      PROVE  TypeOK'
  <2>1. member[<<w, u>>] \in MemberRows \cup {None}
    BY DEF TypeOK
  <2>2. [role |-> role, status |-> "ACTIVE",
         limit |-> IF member[<<w, u>>] = None THEN None ELSE member[<<w, u>>].limit]
          \in MemberRows
    BY <2>1 DEF MemberRows
  <2> QED
    BY <1>1, <2>2 DEF JoinWallet, TypeOK
<1>2. ASSUME NEW w \in Wallets, NEW o \in Users, NEW role \in MemberRoles,
             NEW limit \in Limits \cup {None}, UpdateMember(o, u, w, role, limit)
      PROVE  TypeOK'
  BY <1>2 DEF UpdateMember, TypeOK, MemberRows
<1>3. ASSUME NEW w \in Wallets, LeaveWallet(u, w)
      PROVE  TypeOK'
  BY <1>3 DEF LeaveWallet, ActiveMember, TypeOK, MemberRows
<1> QED
  BY <1>1, <1>2, <1>3 DEF MemberStep

LEMMA InitTypeOK == Init => TypeOK
BY DEF Init, TypeOK

LEMMA TypeStep == TypeOK /\ [Next]_vars => TypeOK'
PROOF
<1> SUFFICES ASSUME TypeOK, [Next]_vars PROVE TypeOK'
  OBVIOUS
<1>1. CASE UNCHANGED vars
  BY <1>1 DEF vars, TypeOK
<1>2. CASE Next
  BY <1>2, WalletTypeStep, TransactionTypeStep, TransferTypeStep, MemberTypeStep
     DEF Next
<1> QED
  BY <1>1, <1>2

(* Every row has the columns of its table. *)
THEOREM TypeCorrectness == Spec => []TypeOK
BY InitTypeOK, TypeStep, PTL DEF Spec

-----------------------------------------------------------------------------
(* What the handlers of other modules leave alone in a wallet. *)

LEMMA UnchangedColumns ==
  ASSUME UNCHANGED wallet
  PROVE  OnlyBalancesChange
BY DEF OnlyBalancesChange, SameColumns

LEMMA TransactionKeepsColumns ==
  ASSUME TypeOK, NEW u \in Users, TransactionStep(u)
  PROVE  OnlyBalancesChange
PROOF
<1>1. ASSUME NEW t \in Txns, NEW w \in Wallets, NEW type \in TransactionTypes,
             NEW a \in Amounts, NEW m \in Months,
             CreateTransaction(u, t, w, type, a, m)
      PROVE  OnlyBalancesChange
  BY <1>1, EffectsAreDeltas, IncrementLemma DEF CreateTransaction
<1>2. ASSUME NEW t \in Txns, NEW w \in Wallets, NEW type \in TransactionTypes,
             NEW a \in Amounts, NEW m \in Months,
             UpdateTransaction(u, t, w, type, a, m)
      PROVE  OnlyBalancesChange
  <2> DEFINE d == Both(Reversal(TransactionEffect(txn[t])), Adjustment(w, type, a))
  <2>1. d \in Deltas
    BY EffectsAreDeltas, RowEffectsAreDeltas
  <2>2. Increment(d) \/ UNCHANGED wallet
    BY <1>2 DEF UpdateTransaction
  <2> HIDE DEF d
  <2> QED
    BY <2>1, <2>2, IncrementLemma, UnchangedColumns
<1>3. ASSUME NEW t \in Txns, DeleteTransaction(u, t)
      PROVE  OnlyBalancesChange
  BY <1>3, EffectsAreDeltas, RowEffectsAreDeltas, IncrementLemma
     DEF DeleteTransaction
<1> QED
  BY <1>1, <1>2, <1>3 DEF TransactionStep

LEMMA TransferKeepsColumns ==
  ASSUME TypeOK, NEW u \in Users, TransferStep(u)
  PROVE  OnlyBalancesChange
PROOF
<1>1. ASSUME NEW x \in Transfers, NEW source \in Wallets,
             NEW destination \in Wallets, NEW a \in Amounts,
             CreateTransfer(u, x, source, destination, a)
      PROVE  OnlyBalancesChange
  BY <1>1, EffectsAreDeltas, IncrementLemma DEF CreateTransfer
<1>2. ASSUME NEW x \in Transfers, DeleteTransfer(u, x)
      PROVE  OnlyBalancesChange
  BY <1>2, EffectsAreDeltas, RowEffectsAreDeltas, IncrementLemma
     DEF DeleteTransfer
<1> QED
  BY <1>1, <1>2 DEF TransferStep

LEMMA MemberKeepsWallets ==
  ASSUME NEW u \in Users, MemberStep(u)
  PROVE  UNCHANGED <<wallet, txn, transfer, declared>>
BY DEF MemberStep, JoinWallet, UpdateMember, LeaveWallet

(* Wallets never disappear, and keep their owner and their type. *)
WalletsStay ==
  \A w \in Wallets :
    Exists(w) => /\ wallet'[w] # None
                 /\ wallet'[w].owner = wallet[w].owner
                 /\ wallet'[w].type = wallet[w].type

LEMMA WalletStepStays ==
  ASSUME TypeOK, NEW u \in Users, WalletStep(u)
  PROVE  WalletsStay /\ UNCHANGED <<txn, transfer, member>>
PROOF
<1>1. \A w \in Wallets : Exists(w) => wallet[w] \in WalletRows
  BY DEF TypeOK, Exists
<1>2. \A w \in Wallets :
        Exists(w) => /\ ClearDefault(u)[w] # None
                     /\ ClearDefault(u)[w] \in WalletRows
                     /\ ClearDefault(u)[w].owner = wallet[w].owner
                     /\ ClearDefault(u)[w].type = wallet[w].type
  BY <1>1, NoneIsNoRow DEF ClearDefault, OwnedBy, Exists, WalletRows
<1>3. ClearDefault(u) \in [Wallets -> WalletRows \cup {None}]
  BY DEF TypeOK, ClearDefault, OwnedBy, Exists, WalletRows
<1>4. ASSUME NEW w \in Wallets, NEW type \in WalletTypes,
             NEW currency \in Currencies, NEW balance \in Balances \cup {None},
             NEW isDefault \in BOOLEAN,
             CreateWallet(u, w, type, currency, balance, isDefault)
      PROVE  WalletsStay /\ UNCHANGED <<txn, transfer, member>>
  BY <1>4, <1>2, <1>3 DEF CreateWallet, WalletsStay, Exists, TypeOK
<1>5. ASSUME NEW w \in Wallets, NEW currency \in Currencies \cup {None},
             NEW balance \in Balances \cup {None},
             UpdateWallet(u, w, currency, balance)
      PROVE  WalletsStay /\ UNCHANGED <<txn, transfer, member>>
  <2>1. wallet[w] \in WalletRows
    BY <1>5, <1>1 DEF UpdateWallet, OwnedBy
  <2>2. TypeOK'
    BY <1>5, WalletTypeStep DEF WalletStep
  <2>3. \A v \in Wallets \ {w} : wallet'[v] = wallet[v]
    BY <1>5 DEF UpdateWallet, TypeOK
  <2>4. wallet'[w] = [wallet[w] EXCEPT !.currency = Patched(currency, @),
                                       !.balance = Patched(balance, @)]
    BY <1>5 DEF UpdateWallet, TypeOK
  <2>5. /\ wallet'[w] # None
        /\ wallet'[w].owner = wallet[w].owner
        /\ wallet'[w].type = wallet[w].type
    <3> DEFINE c == Patched(currency, wallet[w].currency)
               b == Patched(balance, wallet[w].balance)
    <3>1. wallet'[w] = [wallet[w] EXCEPT !.currency = c, !.balance = b]
      BY <2>1, <2>4 DEF WalletRows
    <3>2. c \in Currencies /\ b \in Int
      BY <2>1, BalancesAssumption DEF Patched, WalletRows
    <3> HIDE DEF c, b
    <3>3. wallet'[w] \in WalletRows
      BY <2>1, <3>1, <3>2 DEF WalletRows
    <3> QED
      BY <2>1, <3>1, <3>3, NoneIsNoRow DEF WalletRows
  <2> QED
    BY <1>5, <2>3, <2>5 DEF UpdateWallet, WalletsStay, Exists
<1>6. ASSUME NEW w \in Wallets, SetDefault(u, w)
      PROVE  WalletsStay /\ UNCHANGED <<txn, transfer, member>>
  <2>1. wallet' = [ClearDefault(u) EXCEPT ![w].isDefault = TRUE]
    BY <1>6 DEF SetDefault
  <2>2. Exists(w)
    BY <1>6 DEF SetDefault, OwnedBy
  <2>3. /\ wallet'[w] # None
        /\ wallet'[w].owner = wallet[w].owner
        /\ wallet'[w].type = wallet[w].type
    BY <1>2, <1>3, <2>1, <2>2, NoneIsNoRow DEF WalletRows
  <2> QED
    BY <1>6, <1>2, <1>3, <2>1, <2>3 DEF SetDefault, WalletsStay
<1>7. ASSUME NEW w \in Wallets, ArchiveWallet(u, w)
      PROVE  WalletsStay /\ UNCHANGED <<txn, transfer, member>>
  BY <1>7, <1>1, NoneIsNoRow
     DEF ArchiveWallet, WalletsStay, OwnedBy, Exists, TypeOK, WalletRows
<1>8. ASSUME NEW w \in Wallets, RestoreWallet(u, w)
      PROVE  WalletsStay /\ UNCHANGED <<txn, transfer, member>>
  <2> DEFINE hasDefault == \E v \in ActiveWallets(u) : wallet[v].isDefault
             row == [wallet[w] EXCEPT !.isArchived = FALSE, !.isDefault = ~hasDefault]
  <2>1. hasDefault \in BOOLEAN
    OBVIOUS
  <2>2. wallet' = [wallet EXCEPT ![w].isArchived = FALSE,
                                 ![w].isDefault = ~hasDefault]
    BY <1>8 DEF RestoreWallet
  <2> HIDE DEF hasDefault
  <2>3. wallet' = [wallet EXCEPT ![w] = row]
    BY <2>2, <1>1, <1>8, Zenon DEF RestoreWallet, OwnedBy, TypeOK
  <2>4. /\ row \in WalletRows
        /\ row.owner = wallet[w].owner
        /\ row.type = wallet[w].type
    BY <2>1, <1>1, <1>8 DEF RestoreWallet, OwnedBy, WalletRows
  <2> QED
    BY <1>8, <2>3, <2>4, NoneIsNoRow, ZenonT(40) DEF RestoreWallet, WalletsStay, Exists, TypeOK
<1> QED
  BY <1>4, <1>5, <1>6, <1>7, <1>8 DEF WalletStep

LEMMA WalletsStayLemma ==
  ASSUME OnlyBalancesChange
  PROVE  WalletsStay
BY DEF OnlyBalancesChange, SameColumns, WalletsStay, Exists

-----------------------------------------------------------------------------
(* Rows refer to wallets that exist, and none spends from a savings wallet. *)

SavingsInv == ReferencesOK /\ NoSavingsSpending

(* What SavingsInv says of one row. *)
TransactionOK(row) ==
  /\ Exists(row.wallet)
  /\ row.type = "EXPENSE" => wallet[row.wallet].type # "SAVINGS_ACCOUNT"

TransferOK(row) ==
  /\ Exists(row.source) /\ Exists(row.destination)
  /\ wallet[row.source].type # "SAVINGS_ACCOUNT"

LEMMA SavingsInvByRows ==
  SavingsInv <=> /\ \A t \in Txns : txn[t] # None => TransactionOK(txn[t])
                 /\ \A x \in Transfers : transfer[x] # None => TransferOK(transfer[x])
BY DEF SavingsInv, ReferencesOK, NoSavingsSpending, TransactionOK, TransferOK

(* A step that leaves every row as it is, deletes it, or replaces it by    *)
(* one in order.                                                           *)
LEMMA SavingsInvPreserved ==
  ASSUME TypeOK, SavingsInv, WalletsStay,
         \A t \in Txns : \/ txn'[t] \in {txn[t], None}
                         \/ txn'[t] \in TransactionRows /\ TransactionOK(txn'[t]),
         \A x \in Transfers : \/ transfer'[x] \in {transfer[x], None}
                              \/ /\ transfer'[x] \in TransferRows
                                 /\ TransferOK(transfer'[x])
  PROVE  SavingsInv'
PROOF
<1>1. ASSUME NEW t \in Txns, txn'[t] # None
      PROVE  TransactionOK(txn[t])'
  <2>1. CASE txn'[t] = txn[t]
    <3>1. txn[t] \in TransactionRows /\ TransactionOK(txn[t])
      BY <1>1, <2>1, SavingsInvByRows DEF TypeOK
    <3>2. txn[t].wallet \in Wallets
      BY <3>1 DEF TransactionRows
    <3> QED
      BY <2>1, <3>1, <3>2 DEF WalletsStay, TransactionOK, Exists
  <2>2. CASE txn'[t] \in TransactionRows /\ TransactionOK(txn'[t])
    <3>1. txn'[t].wallet \in Wallets
      BY <2>2 DEF TransactionRows
    <3> QED
      BY <2>2, <3>1 DEF WalletsStay, TransactionOK, Exists
  <2> QED
    BY <1>1, <2>1, <2>2
<1>2. ASSUME NEW x \in Transfers, transfer'[x] # None
      PROVE  TransferOK(transfer[x])'
  <2>1. CASE transfer'[x] = transfer[x]
    <3>1. transfer[x] \in TransferRows /\ TransferOK(transfer[x])
      BY <1>2, <2>1, SavingsInvByRows DEF TypeOK
    <3>2. transfer[x].source \in Wallets /\ transfer[x].destination \in Wallets
      BY <3>1 DEF TransferRows
    <3> QED
      BY <2>1, <3>1, <3>2 DEF WalletsStay, TransferOK, Exists
  <2>2. CASE transfer'[x] \in TransferRows /\ TransferOK(transfer'[x])
    <3>1. transfer'[x].source \in Wallets /\ transfer'[x].destination \in Wallets
      BY <2>2 DEF TransferRows
    <3> QED
      BY <2>2, <3>1 DEF WalletsStay, TransferOK, Exists
  <2> QED
    BY <1>2, <2>1, <2>2
<1> QED
  BY <1>1, <1>2
     DEF SavingsInv, ReferencesOK, NoSavingsSpending, TransactionOK, TransferOK, Exists

LEMMA SavingsInvStep == TypeOK /\ SavingsInv /\ [Next]_vars => SavingsInv'
PROOF
<1> SUFFICES ASSUME TypeOK, SavingsInv, [Next]_vars PROVE SavingsInv'
  OBVIOUS
<1>1. CASE UNCHANGED vars
  BY <1>1 DEF vars, SavingsInv, ReferencesOK, NoSavingsSpending, Exists
<1>2. ASSUME NEW u \in Users, WalletStep(u)
      PROVE  SavingsInv'
  BY <1>2, WalletStepStays, SavingsInvPreserved
<1>3. ASSUME NEW u \in Users, TransactionStep(u)
      PROVE  SavingsInv'
  <2>1. TypeOK' /\ WalletsStay
    BY <1>3, TransactionTypeStep, TransactionKeepsColumns, WalletsStayLemma
  <2>2. UNCHANGED transfer
    <3>1. \A t \in Txns, w \in Wallets, type \in TransactionTypes, a \in Amounts,
             m \in Months : CreateTransaction(u, t, w, type, a, m) => UNCHANGED transfer
      BY DEF CreateTransaction
    <3>2. \A t \in Txns, w \in Wallets, type \in TransactionTypes, a \in Amounts,
             m \in Months : UpdateTransaction(u, t, w, type, a, m) => UNCHANGED transfer
      BY DEF UpdateTransaction
    <3>3. \A t \in Txns : DeleteTransaction(u, t) => UNCHANGED transfer
      BY DEF DeleteTransaction
    <3> QED
      BY <1>3, <3>1, <3>2, <3>3 DEF TransactionStep
  <2>3. ASSUME NEW t \in Txns, NEW w \in Wallets, NEW type \in TransactionTypes,
               NEW a \in Amounts, NEW m \in Months,
               CreateTransaction(u, t, w, type, a, m)
        PROVE  SavingsInv'
    <3>1. TransactionOK(txn'[t])
      BY <2>3 DEF CreateTransaction, ValidRelations, Visible, TransactionOK, TypeOK
    <3>2. \A s \in Txns \ {t} : txn'[s] = txn[s]
      BY <2>3 DEF CreateTransaction, TypeOK
    <3>3. txn'[t] \in TransactionRows
      BY <2>3 DEF CreateTransaction, TypeOK, TransactionRows
    <3> QED
      BY <2>1, <2>2, <3>1, <3>2, <3>3, SavingsInvPreserved
  <2>4. ASSUME NEW t \in Txns, NEW w \in Wallets, NEW type \in TransactionTypes,
               NEW a \in Amounts, NEW m \in Months,
               UpdateTransaction(u, t, w, type, a, m)
        PROVE  SavingsInv'
    <3>1. txn[t] \in TransactionRows
      BY <2>4 DEF UpdateTransaction, TransactionVisible, TypeOK
    <3>2. txn'[t] = [txn[t] EXCEPT !.wallet = w, !.type = type,
                                   !.amount = a, !.month = m]
      BY <2>4 DEF UpdateTransaction, TypeOK
    <3>3. txn'[t] \in TransactionRows /\ txn'[t].wallet = w /\ txn'[t].type = type
      BY <3>1, <3>2 DEF TransactionRows
    <3>4. TransactionOK(txn'[t])
      BY <2>4, <3>3 DEF UpdateTransaction, ValidRelations, Visible, TransactionOK
    <3>5. \A s \in Txns \ {t} : txn'[s] = txn[s]
      BY <2>4 DEF UpdateTransaction, TypeOK
    <3> QED
      BY <2>1, <2>2, <3>3, <3>4, <3>5, SavingsInvPreserved
  <2>5. ASSUME NEW t \in Txns, DeleteTransaction(u, t)
        PROVE  SavingsInv'
    <3>1. \A s \in Txns : txn'[s] \in {txn[s], None}
      BY <2>5 DEF DeleteTransaction, TypeOK
    <3> QED
      BY <2>1, <2>2, <3>1, SavingsInvPreserved
  <2> QED
    BY <1>3, <2>3, <2>4, <2>5 DEF TransactionStep
<1>4. ASSUME NEW u \in Users, TransferStep(u)
      PROVE  SavingsInv'
  <2>1. TypeOK' /\ WalletsStay
    BY <1>4, TransferTypeStep, TransferKeepsColumns, WalletsStayLemma
  <2>2. UNCHANGED txn
    BY <1>4 DEF TransferStep, CreateTransfer, DeleteTransfer
  <2>3. ASSUME NEW x \in Transfers, NEW source \in Wallets,
               NEW destination \in Wallets, NEW a \in Amounts,
               CreateTransfer(u, x, source, destination, a)
        PROVE  SavingsInv'
    <3>1. TransferOK(transfer'[x])
      BY <2>3 DEF CreateTransfer, OwnedBy, TransferOK, TypeOK
    <3>2. transfer'[x] \in TransferRows
      BY <2>3 DEF CreateTransfer, TypeOK, TransferRows
    <3>3. \A y \in Transfers \ {x} : transfer'[y] = transfer[y]
      BY <2>3 DEF CreateTransfer, TypeOK
    <3> QED
      BY <2>1, <2>2, <3>1, <3>2, <3>3, SavingsInvPreserved
  <2>4. ASSUME NEW x \in Transfers, DeleteTransfer(u, x)
        PROVE  SavingsInv'
    <3>1. \A y \in Transfers : transfer'[y] \in {transfer[y], None}
      BY <2>4 DEF DeleteTransfer, TypeOK
    <3> QED
      BY <2>1, <2>2, <3>1, SavingsInvPreserved
  <2> QED
    BY <1>4, <2>3, <2>4 DEF TransferStep
<1>5. ASSUME NEW u \in Users, MemberStep(u)
      PROVE  SavingsInv'
  BY <1>5, MemberKeepsWallets
     DEF SavingsInv, ReferencesOK, NoSavingsSpending, Exists
<1> QED
  BY <1>1, <1>2, <1>3, <1>4, <1>5 DEF Next

LEMMA InitSavingsInv == Init => SavingsInv
BY DEF Init, SavingsInv, ReferencesOK, NoSavingsSpending

(* Money leaves a savings wallet only by settling its deposit.             *)
THEOREM NoSavingsSpendingAlways == Spec => []NoSavingsSpending
PROOF
<1>1. SavingsInv => NoSavingsSpending
  BY DEF SavingsInv
<1> QED
  BY <1>1, InitTypeOK, TypeStep, InitSavingsInv, SavingsInvStep, PTL DEF Spec

-----------------------------------------------------------------------------
(* A user with an active wallet has one default wallet, an active one.     *)

LEMMA DefaultWalletsUnfolded ==
  DefaultWallets <=>
    /\ \A v, w \in Wallets :
         /\ wallet[v] # None /\ wallet[w] # None
         /\ wallet[v].owner = wallet[w].owner
         /\ wallet[v].isDefault /\ wallet[w].isDefault
         => v = w
    /\ \A w \in Wallets :
         wallet[w] # None /\ wallet[w].isDefault => ~wallet[w].isArchived
    /\ \A u \in Users, w \in Wallets :
         wallet[w] # None /\ wallet[w].owner = u /\ ~wallet[w].isArchived =>
           \E v \in Wallets : /\ wallet[v] # None /\ wallet[v].owner = u
                             /\ ~wallet[v].isArchived /\ wallet[v].isDefault
BY DEF DefaultWallets, OneDefault, DefaultIsActive, HasDefault, ActiveWallets,
       OwnedBy, Exists

LEMMA DefaultWalletsUnfoldedNext ==
  DefaultWallets' <=>
    /\ \A v, w \in Wallets :
         /\ wallet'[v] # None /\ wallet'[w] # None
         /\ wallet'[v].owner = wallet'[w].owner
         /\ wallet'[v].isDefault /\ wallet'[w].isDefault
         => v = w
    /\ \A w \in Wallets :
         wallet'[w] # None /\ wallet'[w].isDefault => ~wallet'[w].isArchived
    /\ \A u \in Users, w \in Wallets :
         wallet'[w] # None /\ wallet'[w].owner = u /\ ~wallet'[w].isArchived =>
           \E v \in Wallets : /\ wallet'[v] # None /\ wallet'[v].owner = u
                             /\ ~wallet'[v].isArchived /\ wallet'[v].isDefault
BY DEF DefaultWallets, OneDefault, DefaultIsActive, HasDefault, ActiveWallets,
       OwnedBy, Exists

LEMMA DefaultWalletsSameColumns ==
  ASSUME DefaultWallets, OnlyBalancesChange
  PROVE  DefaultWallets'
BY DefaultWalletsUnfolded, DefaultWalletsUnfoldedNext
   DEF OnlyBalancesChange, SameColumns, Exists

LEMMA ClearDefaultLemma ==
  ASSUME TypeOK, NEW u \in Users
  PROVE  /\ ClearDefault(u) \in [Wallets -> WalletRows \cup {None}]
         /\ \A w \in Wallets : OwnedBy(u, w) =>
              /\ ClearDefault(u)[w] # None
              /\ ClearDefault(u)[w] \in WalletRows
              /\ ClearDefault(u)[w].owner = u
              /\ ClearDefault(u)[w].isArchived = wallet[w].isArchived
              /\ ClearDefault(u)[w].isDefault = FALSE
         /\ \A w \in Wallets : ~OwnedBy(u, w) => ClearDefault(u)[w] = wallet[w]
PROOF
<1>1. \A w \in Wallets : Exists(w) => wallet[w] \in WalletRows
  BY DEF TypeOK, Exists
<1>2. ClearDefault(u) \in [Wallets -> WalletRows \cup {None}]
  BY DEF TypeOK, ClearDefault, OwnedBy, Exists, WalletRows
<1> QED
  BY <1>1, <1>2, NoneIsNoRow DEF ClearDefault, OwnedBy, WalletRows

(* The step of a user's new default wallet: it is active and the others   *)
(* lose the flag.                                                          *)
LEMMA NewDefaultLemma ==
  ASSUME TypeOK, DefaultWallets, NEW u \in Users, NEW w \in Wallets,
         wallet[w] = None \/ wallet[w].owner = u,
         wallet'[w] # None, wallet'[w].owner = u,
         wallet'[w].isArchived = FALSE, wallet'[w].isDefault = TRUE,
         \A v \in Wallets \ {w} : wallet'[v] = ClearDefault(u)[v]
  PROVE  DefaultWallets'
PROOF
<1>1. \A v \in Wallets \ {w} :
        wallet[v] # None /\ wallet[v].owner = u =>
          /\ wallet'[v] # None
          /\ wallet'[v].owner = u
          /\ wallet'[v].isArchived = wallet[v].isArchived
          /\ wallet'[v].isDefault = FALSE
  <2> SUFFICES ASSUME NEW v \in Wallets \ {w}, OwnedBy(u, v)
               PROVE  /\ wallet'[v] # None
                      /\ wallet'[v].owner = u
                      /\ wallet'[v].isArchived = wallet[v].isArchived
                      /\ wallet'[v].isDefault = FALSE
    BY DEF OwnedBy, Exists
  <2> DEFINE cleared == ClearDefault(u)[v]
  <2>1. wallet'[v] = cleared
    OBVIOUS
  <2>2. /\ cleared # None
        /\ cleared.owner = u
        /\ cleared.isArchived = wallet[v].isArchived
        /\ cleared.isDefault = FALSE
    BY ClearDefaultLemma, ZenonT(40)
  <2> HIDE DEF cleared
  <2> QED
    BY <2>1, <2>2
<1>2. \A v \in Wallets \ {w} :
        ~(wallet[v] # None /\ wallet[v].owner = u) => wallet'[v] = wallet[v]
  <2> SUFFICES ASSUME NEW v \in Wallets \ {w}, ~OwnedBy(u, v)
               PROVE  wallet'[v] = wallet[v]
    BY DEF OwnedBy, Exists
  <2>1. wallet'[v] = ClearDefault(u)[v]
    OBVIOUS
  <2> QED
    BY <2>1, ClearDefaultLemma
<1>3. ASSUME NEW v \in Wallets, NEW x \in Wallets,
             wallet'[v] # None, wallet'[x] # None,
             wallet'[v].owner = wallet'[x].owner,
             wallet'[v].isDefault, wallet'[x].isDefault
      PROVE  v = x
  <2>1. CASE wallet'[v].owner = u
    <3>1. \A y \in Wallets \ {w} :
            wallet'[y] # None /\ wallet'[y].owner = u => wallet'[y].isDefault = FALSE
      BY <1>1, <1>2
    <3> QED
      BY <1>3, <2>1, <3>1
  <2>2. CASE wallet'[v].owner # u
    <3>1. v # w /\ x # w
      BY <1>3, <2>2
    <3>2. wallet'[v] = wallet[v] /\ wallet'[x] = wallet[x]
      BY <1>1, <1>2, <1>3, <2>2, <3>1
    <3>3. wallet[v] # None /\ wallet[x] # None
      BY <1>3, <3>2
    <3> QED
      BY <1>3, <3>2, <3>3, DefaultWalletsUnfolded
  <2> QED
    BY <2>1, <2>2
<1>4. ASSUME NEW v \in Wallets, wallet'[v] # None, wallet'[v].isDefault
      PROVE  ~wallet'[v].isArchived
  <2>1. CASE v = w
    BY <2>1
  <2>2. CASE v # w
    <3>1. wallet'[v] = wallet[v]
      BY <1>1, <1>2, <1>4, <2>2
    <3> QED
      BY <1>4, <3>1, DefaultWalletsUnfolded
  <2> QED
    BY <2>1, <2>2
<1>5. ASSUME NEW o \in Users, NEW v \in Wallets,
             wallet'[v] # None, wallet'[v].owner = o, ~wallet'[v].isArchived
      PROVE  \E x \in Wallets : /\ wallet'[x] # None /\ wallet'[x].owner = o
                               /\ ~wallet'[x].isArchived /\ wallet'[x].isDefault
  <2>1. CASE o = u
    BY <2>1
  <2>2. CASE o # u
    <3>1. v # w /\ wallet'[v] = wallet[v]
      BY <1>1, <1>2, <1>5, <2>2
    <3>2. PICK x \in Wallets : /\ wallet[x] # None /\ wallet[x].owner = o
                              /\ ~wallet[x].isArchived /\ wallet[x].isDefault
      BY <1>5, <3>1, DefaultWalletsUnfolded
    <3>3. x # w /\ wallet'[x] = wallet[x]
      BY <1>2, <2>2, <3>2
    <3> QED
      BY <3>2, <3>3
  <2> QED
    BY <2>1, <2>2
<1> QED
  BY <1>3, <1>4, <1>5, DefaultWalletsUnfoldedNext

LEMMA DefaultWalletsStep == TypeOK /\ DefaultWallets /\ [Next]_vars => DefaultWallets'
PROOF
<1> SUFFICES ASSUME TypeOK, DefaultWallets, [Next]_vars PROVE DefaultWallets'
  OBVIOUS
<1>0. \A w \in Wallets : Exists(w) => wallet[w] \in WalletRows
  BY DEF TypeOK, Exists
<1>1. CASE UNCHANGED vars
  BY <1>1, UnchangedColumns, DefaultWalletsSameColumns DEF vars
<1>2. ASSUME NEW u \in Users, NEW w \in Wallets, NEW type \in WalletTypes,
             NEW currency \in Currencies, NEW balance \in Balances \cup {None},
             NEW isDefault \in BOOLEAN,
             CreateWallet(u, w, type, currency, balance, isDefault)
      PROVE  DefaultWallets'
  <2> DEFINE default == isDefault \/ ActiveWallets(u) = {}
             others == IF default THEN ClearDefault(u) ELSE wallet
             row == [owner |-> u, type |-> type, currency |-> currency,
                     balance |-> Patched(balance, 0), isArchived |-> FALSE,
                     isDefault |-> default]
  <2>1. default \in BOOLEAN /\ Patched(balance, 0) \in Int
    <3>1. default \in BOOLEAN
      OBVIOUS
    <3>2. Patched(balance, 0) \in Int
      BY BalancesAssumption DEF Patched
    <3> QED
      BY <3>1, <3>2
  <2>2. wallet' = [others EXCEPT ![w] = row]
    BY <1>2 DEF CreateWallet
  <2>3. others \in [Wallets -> WalletRows \cup {None}]
    BY ClearDefaultLemma DEF TypeOK
  <2>4. wallet[w] = None
    BY <1>2 DEF CreateWallet, Exists
  <2>5. CASE default
    <3>1. \A v \in Wallets \ {w} : wallet'[v] = ClearDefault(u)[v]
      BY <2>2, <2>3, <2>5
    <3> HIDE DEF others
    <3>2. wallet'[w] = row
      BY <2>2, <2>3
    <3> HIDE DEF default
    <3>3. row \in WalletRows
      BY <2>1 DEF WalletRows
    <3>4. /\ wallet'[w] # None
          /\ wallet'[w].owner = u
          /\ wallet'[w].isArchived = FALSE
          /\ wallet'[w].isDefault = TRUE
      <4> HIDE DEF row
      <4>1. row.owner = u /\ row.isArchived = FALSE /\ row.isDefault = default
        BY DEF row
      <4> QED
        BY <2>1, <2>5, <3>2, <3>3, <4>1, NoneIsNoRow
    <3> QED
      BY <2>4, <3>1, <3>4, NewDefaultLemma
  <2>6. CASE ~default
    <3>1. \A v \in Wallets \ {w} : wallet'[v] = wallet[v]
      BY <2>2, <2>3, <2>6
    <3>2. \E v \in Wallets : /\ wallet[v] # None /\ wallet[v].owner = u
                             /\ ~wallet[v].isArchived /\ wallet[v].isDefault
      BY <2>6 DEF DefaultWallets, HasDefault, ActiveWallets, OwnedBy, Exists
    <3> HIDE DEF others
    <3>3. wallet'[w] = row
      BY <2>2, <2>3
    <3> HIDE DEF default
    <3>4. row \in WalletRows
      BY <2>1 DEF WalletRows
    <3>5. /\ wallet'[w] # None
          /\ wallet'[w].owner = u
          /\ wallet'[w].isDefault = FALSE
      <4> HIDE DEF row
      <4>1. row.owner = u /\ row.isDefault = default
        BY DEF row
      <4> QED
        BY <2>1, <2>6, <3>3, <3>4, <4>1, NoneIsNoRow
    <3> QED
      BY <2>4, <3>1, <3>2, <3>5, DefaultWalletsUnfolded, DefaultWalletsUnfoldedNext
  <2> QED
    BY <2>5, <2>6
<1>3. ASSUME NEW u \in Users, NEW w \in Wallets, NEW currency \in Currencies \cup {None},
             NEW balance \in Balances \cup {None},
             UpdateWallet(u, w, currency, balance)
      PROVE  DefaultWallets'
  <2> DEFINE c == Patched(currency, wallet[w].currency)
             b == Patched(balance, wallet[w].balance)
  <2>1. wallet[w] \in WalletRows
    BY <1>0, <1>3 DEF UpdateWallet, OwnedBy
  <2>2. \A v \in Wallets \ {w} : wallet'[v] = wallet[v]
    BY <1>3 DEF UpdateWallet, TypeOK
  <2>3. wallet'[w] = [wallet[w] EXCEPT !.currency = c, !.balance = b]
    BY <1>3, <2>1 DEF UpdateWallet, TypeOK, WalletRows
  <2>4. c \in Currencies /\ b \in Int
    BY <2>1, BalancesAssumption DEF Patched, WalletRows
  <2> HIDE DEF c, b
  <2>5. wallet'[w] \in WalletRows
    BY <2>1, <2>3, <2>4 DEF WalletRows
  <2>6. /\ wallet'[w].owner = wallet[w].owner
        /\ wallet'[w].isArchived = wallet[w].isArchived
        /\ wallet'[w].isDefault = wallet[w].isDefault
    BY <2>1, <2>3 DEF WalletRows
  <2> QED
    BY <2>1, <2>2, <2>5, <2>6, NoneIsNoRow,
       DefaultWalletsUnfolded, DefaultWalletsUnfoldedNext
<1>4. ASSUME NEW u \in Users, NEW w \in Wallets, SetDefault(u, w)
      PROVE  DefaultWallets'
  <2>1. wallet' = [ClearDefault(u) EXCEPT ![w].isDefault = TRUE]
    BY <1>4 DEF SetDefault
  <2>2. OwnedBy(u, w) /\ ~wallet[w].isArchived
    BY <1>4 DEF SetDefault
  <2>3. /\ wallet'[w] # None
        /\ wallet'[w].owner = u
        /\ wallet'[w].isArchived = FALSE
        /\ wallet'[w].isDefault = TRUE
    <3>1. /\ ClearDefault(u)[w] \in WalletRows
          /\ ClearDefault(u)[w].owner = u
          /\ ClearDefault(u)[w].isArchived = FALSE
      <4>1. wallet[w] \in WalletRows
        BY <1>0, <2>2 DEF OwnedBy
      <4>2. wallet[w].isArchived = FALSE
        BY <2>2, <4>1 DEF WalletRows
      <4> QED
        BY <2>2, <4>2, ClearDefaultLemma
    <3>2. wallet'[w] = [ClearDefault(u)[w] EXCEPT !.isDefault = TRUE]
      BY <2>1, ClearDefaultLemma
    <3>3. wallet'[w] \in WalletRows
      BY <3>1, <3>2 DEF WalletRows
    <3> QED
      BY <3>1, <3>2, <3>3, NoneIsNoRow DEF WalletRows
  <2>4. \A v \in Wallets \ {w} : wallet'[v] = ClearDefault(u)[v]
    BY <2>1, ClearDefaultLemma
  <2> QED
    BY <2>2, <2>3, <2>4, NewDefaultLemma DEF OwnedBy
<1>5. ASSUME NEW u \in Users, NEW w \in Wallets, ArchiveWallet(u, w)
      PROVE  DefaultWallets'
  <2>1. wallet[w] \in WalletRows /\ ~wallet[w].isDefault
    BY <1>0, <1>5 DEF ArchiveWallet, OwnedBy
  <2>2. \A v \in Wallets \ {w} : wallet'[v] = wallet[v]
    BY <1>5 DEF ArchiveWallet, TypeOK
  <2>3. wallet'[w] = [wallet[w] EXCEPT !.isArchived = TRUE]
    BY <1>5 DEF ArchiveWallet, TypeOK
  <2>4. /\ wallet'[w] # None
        /\ wallet'[w].owner = wallet[w].owner
        /\ wallet'[w].isArchived = TRUE
        /\ wallet'[w].isDefault = wallet[w].isDefault
        /\ wallet[w] # None
    BY <2>1, <2>3, NoneIsNoRow DEF WalletRows
  <2> QED
    BY <2>1, <2>2, <2>4, DefaultWalletsUnfolded, DefaultWalletsUnfoldedNext
<1>6. ASSUME NEW u \in Users, NEW w \in Wallets, RestoreWallet(u, w)
      PROVE  DefaultWallets'
  <2> DEFINE hasDefault == \E v \in ActiveWallets(u) : wallet[v].isDefault
             row == [wallet[w] EXCEPT !.isArchived = FALSE, !.isDefault = ~hasDefault]
  <2>1. hasDefault \in BOOLEAN
    OBVIOUS
  <2>2. hasDefault <=> \E v \in Wallets : /\ wallet[v] # None /\ wallet[v].owner = u
                                          /\ ~wallet[v].isArchived /\ wallet[v].isDefault
    BY DEF ActiveWallets, OwnedBy, Exists
  <2>3. /\ wallet[w] \in WalletRows /\ wallet[w].owner = u
        /\ wallet[w] # None /\ wallet[w].isArchived
    BY <1>0, <1>6 DEF RestoreWallet, OwnedBy, Exists
  <2>4. wallet' = [wallet EXCEPT ![w].isArchived = FALSE,
                                 ![w].isDefault = ~hasDefault]
    BY <1>6 DEF RestoreWallet
  <2> HIDE DEF hasDefault
  <2>5. wallet' = [wallet EXCEPT ![w] = row]
    BY <2>3, <2>4, Zenon DEF TypeOK
  <2>6. row \in WalletRows
    BY <2>1, <2>3 DEF WalletRows
  <2>7. /\ wallet'[w] # None
        /\ wallet'[w].owner = u
        /\ wallet'[w].isArchived = FALSE
        /\ wallet'[w].isDefault = ~hasDefault
    BY <2>1, <2>3, <2>5, <2>6, NoneIsNoRow DEF WalletRows, TypeOK
  <2>8. \A v \in Wallets \ {w} : wallet'[v] = wallet[v]
    BY <2>5 DEF TypeOK
  <2> HIDE DEF row
  <2>9. CASE hasDefault
    <3>1. wallet'[w].isDefault = FALSE
      BY <2>7, <2>9
    <3> QED
      BY <2>2, <2>3, <2>7, <2>8, <2>9, <3>1,
         DefaultWalletsUnfolded, DefaultWalletsUnfoldedNext
  <2>10. CASE ~hasDefault
    <3>1. \A v \in Wallets : wallet[v] # None /\ wallet[v].owner = u => ~wallet[v].isDefault
      BY <2>2, <2>10, DefaultWalletsUnfolded
    <3>2. \A v \in Wallets \ {w} :
            wallet'[v] # None /\ wallet'[v].owner = u => ~wallet'[v].isDefault
      BY <2>8, <3>1
    <3>3. \A v, x \in Wallets :
            /\ wallet'[v] # None /\ wallet'[x] # None
            /\ wallet'[v].owner = wallet'[x].owner
            /\ wallet'[v].isDefault /\ wallet'[x].isDefault
            => v = x
      BY <2>7, <2>8, <3>2, DefaultWalletsUnfolded
    <3>4. \A v \in Wallets :
            wallet'[v] # None /\ wallet'[v].isDefault => ~wallet'[v].isArchived
      BY <2>7, <2>8, DefaultWalletsUnfolded
    <3>5. wallet'[w].isDefault = TRUE
      BY <2>7, <2>10
    <3>6. ASSUME NEW o \in Users, NEW v \in Wallets,
                 wallet'[v] # None, wallet'[v].owner = o, ~wallet'[v].isArchived
          PROVE  \E x \in Wallets : /\ wallet'[x] # None /\ wallet'[x].owner = o
                                   /\ ~wallet'[x].isArchived /\ wallet'[x].isDefault
      <4>1. CASE o = u
        BY <2>7, <3>5, <4>1
      <4>2. CASE o # u
        <5>1. v # w /\ wallet'[v] = wallet[v]
          BY <2>7, <2>8, <3>6, <4>2
        <5>2. PICK x \in Wallets : /\ wallet[x] # None /\ wallet[x].owner = o
                                  /\ ~wallet[x].isArchived /\ wallet[x].isDefault
          BY <3>6, <5>1, DefaultWalletsUnfolded
        <5>3. x # w
          BY <2>3, <4>2, <5>2
        <5> QED
          BY <2>8, <5>2, <5>3
      <4> QED
        BY <4>1, <4>2
    <3> QED
      BY <3>3, <3>4, <3>6, DefaultWalletsUnfoldedNext
  <2> QED
    BY <2>9, <2>10
<1>7. ASSUME NEW u \in Users, TransactionStep(u) \/ TransferStep(u)
      PROVE  DefaultWallets'
  BY <1>7, TransactionKeepsColumns, TransferKeepsColumns, DefaultWalletsSameColumns
<1>8. ASSUME NEW u \in Users, MemberStep(u)
      PROVE  DefaultWallets'
  BY <1>8, MemberKeepsWallets, UnchangedColumns, DefaultWalletsSameColumns
<1> QED
  BY <1>1, <1>2, <1>3, <1>4, <1>5, <1>6, <1>7, <1>8 DEF Next, WalletStep

LEMMA InitDefaultWallets == Init => DefaultWallets
BY DefaultWalletsUnfolded DEF Init

(* A user with an active wallet has exactly one default wallet, an active one. *)
THEOREM DefaultWalletsAlways == Spec => []DefaultWallets
BY InitTypeOK, TypeStep, InitDefaultWallets, DefaultWalletsStep, PTL DEF Spec

-----------------------------------------------------------------------------
(* The ledger implements the account book. *)

LEMMA PostLemma ==
  ASSUME NEW e \in Txns \cup Transfers, NEW f \in RowEffects,
         EffectOf(e)' = f,
         \A g \in (Txns \cup Transfers) \ {e} : EffectOf(g)' = EffectOf(g),
         \A w \in Wallets : BalanceOf(w)' = BalanceOf(w) + f[w] - EffectOf(e)[w],
         UNCHANGED declared
  PROVE  B!Post(e)
PROOF
<1> DEFINE Rows == Txns \cup Transfers
           before == [g \in Rows |-> EffectOf(g)]
           after == [g \in Rows |-> EffectOf(g)']
<1>1. after = [before EXCEPT ![e] = f]
  OBVIOUS
<1>2. [g \in Txns \cup Transfers |-> EffectOf(g)]'
        \in {[[g \in Txns \cup Transfers |-> EffectOf(g)] EXCEPT ![e] = effect] :
              effect \in RowEffects}
  BY <1>1
<1>3. /\ ([g \in Txns \cup Transfers |-> EffectOf(g)]')[e] = f
      /\ [g \in Txns \cup Transfers |-> EffectOf(g)][e] = EffectOf(e)
  OBVIOUS
<1>4. [w \in Wallets |-> BalanceOf(w)]' =
        [w \in Wallets |-> BalanceOf(w) + f[w] - EffectOf(e)[w]]
  OBVIOUS
<1> QED
  BY <1>2, <1>3, <1>4 DEF B!Post

LEMMA DeclareLemma ==
  ASSUME NEW w \in Wallets, NEW b \in Balances \cup {0},
         BalanceOf(w)' = b,
         \A v \in Wallets \ {w} : BalanceOf(v)' = BalanceOf(v),
         declared' = [declared EXCEPT ![w] = @ + b - BalanceOf(w)],
         UNCHANGED <<txn, transfer>>
  PROVE  B!Declare(w, b)
PROOF
<1>1. \A e \in Txns \cup Transfers : EffectOf(e)' = EffectOf(e)
  BY DEF EffectOf, TransactionEffect, TransferEffect
<1> QED
  BY <1>1 DEF B!Declare

(* Balances move by a delta that touches no missing wallet. *)
LEMMA BalancesMove ==
  ASSUME TypeOK, NEW d \in Deltas, Increment(d),
         \A w \in Wallets : ~Exists(w) => d[w] = 0
  PROVE  \A w \in Wallets : BalanceOf(w)' = BalanceOf(w) + d[w]
PROOF
<1> TAKE w \in Wallets
<1>1. CASE Exists(w)
  BY <1>1, IncrementLemma DEF OnlyBalancesChange, BalanceOf, Exists
<1>2. CASE ~Exists(w)
  <2>1. wallet'[w] = None /\ d[w] = 0
    BY <1>2, IncrementLemma DEF OnlyBalancesChange, Exists
  <2> QED
    BY <1>2, <2>1 DEF BalanceOf, Exists
<1> QED
  BY <1>1, <1>2

LEMMA RowEffectsLemma ==
  ASSUME TypeOK, ReferencesOK
  PROVE  /\ \A t \in Txns : /\ EffectOf(t) = TransactionEffect(txn[t])
                            /\ EffectOf(t) \in Deltas
                            /\ \A w \in Wallets : ~Exists(w) => EffectOf(t)[w] = 0
         /\ \A x \in Transfers : /\ EffectOf(x) = TransferEffect(transfer[x])
                                 /\ EffectOf(x) \in Deltas
                                 /\ \A w \in Wallets : ~Exists(w) => EffectOf(x)[w] = 0
PROOF
<1>1. ASSUME NEW t \in Txns
      PROVE  /\ EffectOf(t) = TransactionEffect(txn[t])
             /\ EffectOf(t) \in Deltas
             /\ \A w \in Wallets : ~Exists(w) => EffectOf(t)[w] = 0
  <2>1. EffectOf(t) = TransactionEffect(txn[t])
    BY DEF EffectOf
  <2>2. ASSUME NEW w \in Wallets, ~Exists(w)
        PROVE  EffectOf(t)[w] = 0
    <3>1. CASE txn[t] = None
      BY <2>1, <3>1 DEF TransactionEffect, NoEffect
    <3>2. CASE txn[t] # None
      <4>1. txn[t] \in TransactionRows /\ txn[t].wallet # w
        BY <2>2, <3>2 DEF TypeOK, ReferencesOK
      <4> QED
        BY <2>1, <3>2, <4>1 DEF TransactionEffect, Adjustment
    <3> QED
      BY <3>1, <3>2
  <2> QED
    BY <2>1, <2>2, RowEffectsAreDeltas
<1>2. ASSUME NEW x \in Transfers
      PROVE  /\ EffectOf(x) = TransferEffect(transfer[x])
             /\ EffectOf(x) \in Deltas
             /\ \A w \in Wallets : ~Exists(w) => EffectOf(x)[w] = 0
  <2>1. EffectOf(x) = TransferEffect(transfer[x])
    BY IdsAssumption DEF EffectOf
  <2>2. ASSUME NEW w \in Wallets, ~Exists(w)
        PROVE  EffectOf(x)[w] = 0
    <3>1. CASE transfer[x] = None
      BY <2>1, <3>1 DEF TransferEffect, NoEffect
    <3>2. CASE transfer[x] # None
      <4>1. transfer[x].source # w /\ transfer[x].destination # w
        BY <2>2, <3>2 DEF ReferencesOK
      <4> QED
        BY <2>1, <3>2, <4>1 DEF TransferEffect, Movement
    <3> QED
      BY <3>1, <3>2
  <2> QED
    BY <2>1, <2>2, RowEffectsAreDeltas
<1> QED
  BY <1>1, <1>2

(* A step that changes one transaction, and the balances by the difference *)
(* its effect makes, posts an entry.                                       *)
LEMMA TransactionPosts ==
  ASSUME TypeOK, ReferencesOK, NEW t \in Txns, NEW f \in RowEffects,
         f \in Deltas, NEW d \in Deltas,
         \A w \in Wallets : ~Exists(w) => f[w] = 0,
         \A w \in Wallets : d[w] = f[w] - TransactionEffect(txn[t])[w],
         Increment(d),
         txn' = [txn EXCEPT ![t] = txn'[t]],
         TransactionEffect(txn'[t]) = f,
         UNCHANGED <<transfer, declared>>
  PROVE  B!Post(t)
PROOF
<1>1. EffectOf(t) = TransactionEffect(txn[t]) /\ EffectOf(t) \in Deltas
  BY RowEffectsLemma
<1>2. \A w \in Wallets : ~Exists(w) => d[w] = 0
  BY <1>1, RowEffectsLemma
<1>3. \A w \in Wallets : BalanceOf(w)' = BalanceOf(w) + d[w]
  BY <1>2, BalancesMove
<1>4. \A w \in Wallets : BalanceOf(w) \in Int /\ f[w] \in Int /\ EffectOf(t)[w] \in Int
  BY <1>1 DEF BalanceOf, Exists, TypeOK, WalletRows, Deltas
<1>5. \A w \in Wallets : BalanceOf(w)' = BalanceOf(w) + f[w] - EffectOf(t)[w]
  BY <1>1, <1>3, <1>4
<1>6. EffectOf(t)' = f
  BY DEF EffectOf
<1>7. ASSUME NEW g \in (Txns \cup Transfers) \ {t}
      PROVE  EffectOf(g)' = EffectOf(g)
  <2>1. g \in Txns => txn'[g] = txn[g]
    BY DEF TypeOK
  <2> QED
    BY <2>1 DEF EffectOf
<1> QED
  BY <1>5, <1>6, <1>7, PostLemma

LEMMA TransferPosts ==
  ASSUME TypeOK, ReferencesOK, NEW x \in Transfers, NEW f \in RowEffects,
         f \in Deltas, NEW d \in Deltas,
         \A w \in Wallets : ~Exists(w) => f[w] = 0,
         \A w \in Wallets : d[w] = f[w] - TransferEffect(transfer[x])[w],
         Increment(d),
         transfer' = [transfer EXCEPT ![x] = transfer'[x]],
         TransferEffect(transfer'[x]) = f,
         UNCHANGED <<txn, declared>>
  PROVE  B!Post(x)
PROOF
<1>1. EffectOf(x) = TransferEffect(transfer[x]) /\ EffectOf(x) \in Deltas
  BY RowEffectsLemma
<1>2. \A w \in Wallets : ~Exists(w) => d[w] = 0
  BY <1>1, RowEffectsLemma
<1>3. \A w \in Wallets : BalanceOf(w)' = BalanceOf(w) + d[w]
  BY <1>2, BalancesMove
<1>4. \A w \in Wallets : BalanceOf(w) \in Int /\ f[w] \in Int /\ EffectOf(x)[w] \in Int
  BY <1>1 DEF BalanceOf, Exists, TypeOK, WalletRows, Deltas
<1>5. \A w \in Wallets : BalanceOf(w)' = BalanceOf(w) + f[w] - EffectOf(x)[w]
  BY <1>1, <1>3, <1>4
<1>6. EffectOf(x)' = f
  BY IdsAssumption DEF EffectOf
<1>7. ASSUME NEW g \in (Txns \cup Transfers) \ {x}
      PROVE  EffectOf(g)' = EffectOf(g)
  <2>1. g \in Transfers => transfer'[g] = transfer[g]
    BY DEF TypeOK
  <2> QED
    BY <2>1 DEF EffectOf
<1> QED
  BY <1>5, <1>6, <1>7, PostLemma

(* A step that moves no money and changes no row's effect is no step of    *)
(* the book.                                                               *)
LEMMA StutterLemma ==
  ASSUME \A w \in Wallets : BalanceOf(w)' = BalanceOf(w),
         \A e \in Txns \cup Transfers : EffectOf(e)' = EffectOf(e),
         UNCHANGED declared
  PROVE  UNCHANGED B!vars
BY DEF B!vars

LEMMA RowEffectsIntro ==
  /\ NoEffect \in RowEffects
  /\ \A w \in Wallets, type \in TransactionTypes, a \in Amounts :
       Adjustment(w, type, a) \in RowEffects
  /\ \A v, w \in Wallets, a \in Amounts : Movement(v, w, a) \in RowEffects
BY DEF RowEffects

LEMMA TransactionBookStep ==
  ASSUME TypeOK, ReferencesOK, NEW u \in Users, TransactionStep(u)
  PROVE  B!Next \/ UNCHANGED B!vars
PROOF
<1>1. ASSUME NEW t \in Txns, B!Post(t)
      PROVE  B!Next
  BY <1>1 DEF B!Next
<1>2. ASSUME NEW t \in Txns, NEW w \in Wallets, NEW type \in TransactionTypes,
             NEW a \in Amounts, NEW m \in Months,
             CreateTransaction(u, t, w, type, a, m)
      PROVE  B!Post(t)
  <2> DEFINE f == Adjustment(w, type, a)
  <2>1. f \in RowEffects /\ f \in Deltas
    BY RowEffectsIntro, EffectsAreDeltas
  <2>2. \A v \in Wallets : ~Exists(v) => f[v] = 0
    BY <1>2 DEF CreateTransaction, ValidRelations, Visible, Adjustment
  <2>3. \A v \in Wallets : TransactionEffect(txn[t])[v] = 0
    BY <1>2 DEF CreateTransaction, TransactionEffect, NoEffect
  <2>4. \A v \in Wallets : f[v] = f[v] - TransactionEffect(txn[t])[v]
    BY <2>1, <2>3 DEF Deltas
  <2>5. /\ txn' = [txn EXCEPT ![t] = txn'[t]]
        /\ txn'[t] = [user |-> u, wallet |-> w, type |-> type, amount |-> a, month |-> m]
    BY <1>2 DEF CreateTransaction, TypeOK
  <2>6. txn'[t] # None
    BY <2>5, NoneIsNoRow DEF TransactionRows
  <2>7. TransactionEffect(txn'[t]) = f
    BY <2>5, <2>6 DEF TransactionEffect
  <2>8. Increment(f) /\ UNCHANGED <<transfer, declared>>
    BY <1>2 DEF CreateTransaction
  <2> HIDE DEF f
  <2> QED
    BY <2>1, <2>2, <2>4, <2>5, <2>7, <2>8, TransactionPosts
<1>3. ASSUME NEW t \in Txns, NEW w \in Wallets, NEW type \in TransactionTypes,
             NEW a \in Amounts, NEW m \in Months,
             UpdateTransaction(u, t, w, type, a, m)
      PROVE  B!Post(t) \/ UNCHANGED B!vars
  <2> DEFINE f == Adjustment(w, type, a)
             old == TransactionEffect(txn[t])
             d == Both(Reversal(old), f)
             next == [txn[t] EXCEPT !.wallet = w, !.type = type,
                                    !.amount = a, !.month = m]
             changed == \/ w # txn[t].wallet
                        \/ type # txn[t].type
                        \/ a # txn[t].amount
  <2>1. /\ f \in RowEffects /\ f \in Deltas
        /\ old \in Deltas
        /\ d \in Deltas
    BY RowEffectsIntro, EffectsAreDeltas, RowEffectsAreDeltas
  <2>2. \A v \in Wallets : ~Exists(v) => f[v] = 0
    BY <1>3 DEF UpdateTransaction, ValidRelations, Visible, Adjustment
  <2>3. \A v \in Wallets : d[v] = f[v] - old[v]
    <3> HIDE DEF f, old
    <3> QED
      BY <2>1 DEF Both, Reversal, Deltas
  <2>4. txn[t] \in TransactionRows
    BY <1>3 DEF UpdateTransaction, TransactionVisible, TypeOK
  <2>5. txn' = [txn EXCEPT ![t] = next] /\ UNCHANGED <<transfer, declared>>
    BY <1>3 DEF UpdateTransaction
  <2>6. txn'[t] = next /\ txn' = [txn EXCEPT ![t] = txn'[t]]
    BY <2>5 DEF TypeOK
  <2>7. /\ next \in TransactionRows
        /\ next.wallet = w /\ next.type = type /\ next.amount = a
    BY <2>4 DEF TransactionRows
  <2>8. TransactionEffect(txn'[t]) = f
    <3> HIDE DEF next
    <3> QED
      BY <2>6, <2>7, NoneIsNoRow DEF TransactionEffect
  <2>9. CASE changed
    <3>1. Increment(d)
      BY <1>3, <2>9 DEF UpdateTransaction
    <3> HIDE DEF f, old, d, next
    <3>2. \A v \in Wallets : d[v] = f[v] - TransactionEffect(txn[t])[v]
      BY <2>3 DEF old
    <3> QED
      BY <2>1, <2>2, <2>5, <2>6, <2>8, <3>1, <3>2, TransactionPosts
  <2>10. CASE ~changed
    <3>1. UNCHANGED wallet
      BY <1>3, <2>10 DEF UpdateTransaction
    <3>2. old = f
      BY <2>4, <2>10, NoneIsNoRow DEF TransactionEffect
    <3>3. \A e \in Txns \cup Transfers : EffectOf(e)' = EffectOf(e)
      <4> SUFFICES ASSUME NEW e \in Txns \cup Transfers PROVE EffectOf(e)' = EffectOf(e)
        OBVIOUS
      <4>1. CASE e = t
        <5>1. EffectOf(e)' = TransactionEffect(txn'[t])
          BY <4>1 DEF EffectOf
        <5>2. EffectOf(e) = old
          BY <4>1 DEF EffectOf
        <5> QED
          BY <5>1, <5>2, <2>8, <3>2
      <4>2. CASE e # t
        <5>1. e \in Txns => txn'[e] = txn[e]
          BY <2>5, <4>2 DEF TypeOK
        <5>2. transfer' = transfer
          BY <2>5
        <5> HIDE DEF next, f, old
        <5> QED
          BY <5>1, <5>2 DEF EffectOf
      <4> QED
        BY <4>1, <4>2
    <3>4. \A v \in Wallets : BalanceOf(v)' = BalanceOf(v)
      BY <3>1 DEF BalanceOf, Exists
    <3>5. declared' = declared
      BY <2>5
    <3> QED
      BY <3>3, <3>4, <3>5, StutterLemma
  <2> QED
    BY <2>9, <2>10
<1>4. ASSUME NEW t \in Txns, DeleteTransaction(u, t)
      PROVE  B!Post(t)
  <2> DEFINE d == Reversal(TransactionEffect(txn[t]))
  <2>1. NoEffect \in RowEffects /\ NoEffect \in Deltas /\ d \in Deltas
    BY RowEffectsIntro, EffectsAreDeltas, RowEffectsAreDeltas
  <2>2. \A v \in Wallets : NoEffect[v] = 0
    BY DEF NoEffect
  <2>3. \A v \in Wallets : d[v] = NoEffect[v] - TransactionEffect(txn[t])[v]
    BY <2>2, RowEffectsAreDeltas DEF Reversal, Deltas
  <2>4. txn' = [txn EXCEPT ![t] = txn'[t]] /\ txn'[t] = None
    BY <1>4 DEF DeleteTransaction, TypeOK
  <2>5. TransactionEffect(txn'[t]) = NoEffect
    BY <2>4 DEF TransactionEffect
  <2>6. Increment(d) /\ UNCHANGED <<transfer, declared>>
    BY <1>4 DEF DeleteTransaction
  <2> HIDE DEF d
  <2> QED
    BY <2>1, <2>2, <2>3, <2>4, <2>5, <2>6, TransactionPosts
<1> QED
  BY <1>1, <1>2, <1>3, <1>4 DEF TransactionStep

LEMMA TransferBookStep ==
  ASSUME TypeOK, ReferencesOK, NEW u \in Users, TransferStep(u)
  PROVE  B!Next
PROOF
<1>1. ASSUME NEW x \in Transfers, B!Post(x)
      PROVE  B!Next
  BY <1>1 DEF B!Next
<1>2. ASSUME NEW x \in Transfers, NEW source \in Wallets,
             NEW destination \in Wallets, NEW a \in Amounts,
             CreateTransfer(u, x, source, destination, a)
      PROVE  B!Post(x)
  <2> DEFINE f == Movement(source, destination, a)
  <2>1. f \in RowEffects /\ f \in Deltas
    BY RowEffectsIntro, EffectsAreDeltas
  <2>2. \A v \in Wallets : ~Exists(v) => f[v] = 0
    BY <1>2 DEF CreateTransfer, OwnedBy, Movement
  <2>3. \A v \in Wallets : TransferEffect(transfer[x])[v] = 0
    BY <1>2 DEF CreateTransfer, TransferEffect, NoEffect
  <2>4. \A v \in Wallets : f[v] = f[v] - TransferEffect(transfer[x])[v]
    <3> HIDE DEF f
    <3> QED
      BY <2>1, <2>3 DEF Deltas
  <2>5. /\ transfer' = [transfer EXCEPT ![x] = transfer'[x]]
        /\ transfer'[x] = [user |-> u, source |-> source,
                           destination |-> destination, amount |-> a]
    BY <1>2 DEF CreateTransfer, TypeOK
  <2>6. transfer'[x] # None
    BY <2>5, NoneIsNoRow DEF TransferRows
  <2>7. TransferEffect(transfer'[x]) = f
    BY <2>5, <2>6 DEF TransferEffect
  <2>8. Increment(f) /\ UNCHANGED <<txn, declared>>
    BY <1>2 DEF CreateTransfer
  <2> HIDE DEF f
  <2> QED
    BY <2>1, <2>2, <2>4, <2>5, <2>7, <2>8, TransferPosts
<1>3. ASSUME NEW x \in Transfers, DeleteTransfer(u, x)
      PROVE  B!Post(x)
  <2> DEFINE d == Reversal(TransferEffect(transfer[x]))
  <2>1. NoEffect \in RowEffects /\ NoEffect \in Deltas /\ d \in Deltas
    BY RowEffectsIntro, EffectsAreDeltas, RowEffectsAreDeltas
  <2>2. \A v \in Wallets : NoEffect[v] = 0
    BY DEF NoEffect
  <2>3. \A v \in Wallets : d[v] = NoEffect[v] - TransferEffect(transfer[x])[v]
    BY <2>2, RowEffectsAreDeltas DEF Reversal, Deltas
  <2>4. transfer' = [transfer EXCEPT ![x] = transfer'[x]] /\ transfer'[x] = None
    BY <1>3 DEF DeleteTransfer, TypeOK
  <2>5. TransferEffect(transfer'[x]) = NoEffect
    BY <2>4 DEF TransferEffect
  <2>6. Increment(d) /\ UNCHANGED <<txn, declared>>
    BY <1>3 DEF DeleteTransfer
  <2> HIDE DEF d
  <2> QED
    BY <2>1, <2>2, <2>3, <2>4, <2>5, <2>6, TransferPosts
<1> QED
  BY <1>1, <1>2, <1>3 DEF TransferStep

LEMMA ClearDefaultKeepsBalances ==
  ASSUME TypeOK, NEW u \in Users, NEW w \in Wallets
  PROVE  /\ ClearDefault(u)[w] = None <=> wallet[w] = None
         /\ Exists(w) => ClearDefault(u)[w].balance = wallet[w].balance
PROOF
<1>1. CASE OwnedBy(u, w)
  <2>1. wallet[w] \in WalletRows /\ wallet[w] # None
    BY <1>1 DEF OwnedBy, Exists, TypeOK
  <2>2. ClearDefault(u)[w] = [wallet[w] EXCEPT !.isDefault = FALSE]
    BY <1>1 DEF ClearDefault
  <2>3. ClearDefault(u)[w] \in WalletRows
    BY <1>1, ClearDefaultLemma
  <2> QED
    BY <2>1, <2>2, <2>3, NoneIsNoRow DEF WalletRows
<1>2. CASE ~OwnedBy(u, w)
  BY <1>2, ClearDefaultLemma
<1> QED
  BY <1>1, <1>2

LEMMA UnchangedEffects ==
  ASSUME UNCHANGED <<txn, transfer>>
  PROVE  \A e \in Txns \cup Transfers : EffectOf(e)' = EffectOf(e)
BY DEF EffectOf

LEMMA WalletBookStep ==
  ASSUME TypeOK, NEW u \in Users, WalletStep(u)
  PROVE  B!Next \/ UNCHANGED B!vars
PROOF
<1>0. UNCHANGED <<txn, transfer, member>>
  BY WalletStepStays
<1>1. ASSUME NEW w \in Wallets, NEW b \in Balances \cup {0}, B!Declare(w, b)
      PROVE  B!Next
  BY <1>1 DEF B!Next
<1>2. ASSUME NEW w \in Wallets, NEW type \in WalletTypes,
             NEW currency \in Currencies, NEW balance \in Balances \cup {None},
             NEW isDefault \in BOOLEAN,
             CreateWallet(u, w, type, currency, balance, isDefault)
      PROVE  B!Next
  <2> DEFINE default == isDefault \/ ActiveWallets(u) = {}
             others == IF default THEN ClearDefault(u) ELSE wallet
             b == Patched(balance, 0)
             row == [owner |-> u, type |-> type, currency |-> currency,
                     balance |-> b, isArchived |-> FALSE, isDefault |-> default]
  <2>1. default \in BOOLEAN
    OBVIOUS
  <2>2. b \in Balances \cup {0} /\ b \in Int
    BY BalancesAssumption DEF Patched
  <2>3. others \in [Wallets -> WalletRows \cup {None}]
    BY ClearDefaultLemma DEF TypeOK
  <2>4. wallet' = [others EXCEPT ![w] = row]
    BY <1>2 DEF CreateWallet
  <2>5. ASSUME NEW v \in Wallets \ {w} PROVE BalanceOf(v)' = BalanceOf(v)
    <3>1. wallet'[v] = others[v]
      BY <2>3, <2>4
    <3>2. CASE default
      BY <3>1, <3>2, ClearDefaultKeepsBalances DEF BalanceOf, Exists
    <3>3. CASE ~default
      BY <3>1, <3>3 DEF BalanceOf, Exists
    <3> QED
      BY <3>2, <3>3
  <2>6. BalanceOf(w)' = b /\ BalanceOf(w) = 0
    <3> HIDE DEF others, default
    <3>1. wallet'[w] = row
      BY <2>3, <2>4
    <3> HIDE DEF b
    <3>2. row \in WalletRows /\ row.balance = b
      BY <2>1, <2>2 DEF WalletRows
    <3> HIDE DEF row
    <3> QED
      BY <1>2, <3>1, <3>2, NoneIsNoRow DEF CreateWallet, BalanceOf, Exists
  <2>7. declared' = [declared EXCEPT ![w] = @ + b]
    BY <1>2 DEF CreateWallet
  <2>8. declared' = [declared EXCEPT ![w] = @ + b - BalanceOf(w)]
    <3> HIDE DEF b
    <3>1. declared[w] \in Int
      BY DEF TypeOK
    <3> QED
      BY <2>2, <2>6, <2>7, <3>1
  <2> HIDE DEF b
  <2>9. B!Declare(w, b)
    BY <1>0, <2>2, <2>5, <2>6, <2>8, DeclareLemma
  <2> QED
    BY <1>1, <2>2, <2>9
<1>3. ASSUME NEW w \in Wallets, NEW currency \in Currencies \cup {None},
             NEW balance \in Balances \cup {None},
             UpdateWallet(u, w, currency, balance)
      PROVE  B!Next \/ UNCHANGED B!vars
  <2> DEFINE c == Patched(currency, wallet[w].currency)
             b == Patched(balance, wallet[w].balance)
  <2>1. wallet[w] \in WalletRows /\ wallet[w] # None
    BY <1>3 DEF UpdateWallet, OwnedBy, Exists, TypeOK
  <2>2. \A v \in Wallets \ {w} : wallet'[v] = wallet[v]
    BY <1>3 DEF UpdateWallet, TypeOK
  <2>3. wallet'[w] = [wallet[w] EXCEPT !.currency = c, !.balance = b]
    BY <1>3, <2>1 DEF UpdateWallet, TypeOK, WalletRows
  <2>4. c \in Currencies /\ b \in Int /\ wallet[w].balance \in Int
    BY <2>1, BalancesAssumption DEF Patched, WalletRows
  <2>5. declared' = [declared EXCEPT ![w] = @ + b - wallet[w].balance]
    BY <1>3 DEF UpdateWallet
  <2>6. \A v \in Wallets \ {w} : BalanceOf(v)' = BalanceOf(v)
    BY <2>2 DEF BalanceOf, Exists
  <2>7. BalanceOf(w)' = b /\ BalanceOf(w) = wallet[w].balance
    <3> HIDE DEF c, b
    <3>1. wallet'[w] \in WalletRows /\ wallet'[w].balance = b
      BY <2>1, <2>3, <2>4 DEF WalletRows
    <3> QED
      BY <2>1, <3>1, NoneIsNoRow DEF BalanceOf, Exists
  <2>8. CASE balance = None
    <3>1. b = wallet[w].balance
      BY <2>8 DEF Patched
    <3>2. declared' = declared
      <4> HIDE DEF b
      <4>1. declared \in [Wallets -> Int]
        BY DEF TypeOK
      <4> QED
        BY <2>4, <2>5, <3>1, <4>1
    <3>3. \A v \in Wallets : BalanceOf(v)' = BalanceOf(v)
      BY <2>6, <2>7, <3>1
    <3> QED
      BY <1>0, <3>2, <3>3, UnchangedEffects, StutterLemma
  <2>9. CASE balance # None
    <3>1. b \in Balances \cup {0}
      BY <2>9 DEF Patched
    <3> HIDE DEF b
    <3>2. declared' = [declared EXCEPT ![w] = @ + b - BalanceOf(w)]
      BY <2>5, <2>7
    <3>3. B!Declare(w, b)
      BY <1>0, <2>6, <2>7, <3>1, <3>2, DeclareLemma
    <3> QED
      BY <1>1, <3>1, <3>3
  <2> QED
    BY <2>8, <2>9
<1>4. ASSUME \A w \in Wallets : BalanceOf(w)' = BalanceOf(w), UNCHANGED declared
      PROVE  UNCHANGED B!vars
  BY <1>0, <1>4, UnchangedEffects, StutterLemma
<1>5. ASSUME NEW w \in Wallets, SetDefault(u, w)
      PROVE  UNCHANGED B!vars
  <2>1. wallet' = [ClearDefault(u) EXCEPT ![w].isDefault = TRUE]
    BY <1>5 DEF SetDefault
  <2>2. ClearDefault(u)[w] \in WalletRows /\ wallet[w] # None
    BY <1>5, ClearDefaultLemma DEF SetDefault, OwnedBy, Exists
  <2>3. wallet'[w] = [ClearDefault(u)[w] EXCEPT !.isDefault = TRUE]
    BY <2>1, ClearDefaultLemma
  <2>4. wallet'[w] \in WalletRows /\ wallet'[w].balance = ClearDefault(u)[w].balance
    BY <2>2, <2>3 DEF WalletRows
  <2>5. BalanceOf(w)' = BalanceOf(w)
    BY <2>2, <2>4, NoneIsNoRow, ClearDefaultKeepsBalances DEF BalanceOf, Exists
  <2>6. ASSUME NEW v \in Wallets \ {w} PROVE BalanceOf(v)' = BalanceOf(v)
    <3>1. wallet'[v] = ClearDefault(u)[v]
      BY <2>1, ClearDefaultLemma
    <3> QED
      BY <3>1, ClearDefaultKeepsBalances DEF BalanceOf, Exists
  <2> QED
    BY <1>4, <1>5, <2>5, <2>6 DEF SetDefault
<1>6. ASSUME NEW w \in Wallets, ArchiveWallet(u, w)
      PROVE  UNCHANGED B!vars
  <2>1. wallet[w] \in WalletRows
    BY <1>6 DEF ArchiveWallet, OwnedBy, Exists, TypeOK
  <2>2. wallet'[w] = [wallet[w] EXCEPT !.isArchived = TRUE]
    BY <1>6 DEF ArchiveWallet, TypeOK
  <2>3. \A v \in Wallets \ {w} : wallet'[v] = wallet[v]
    BY <1>6 DEF ArchiveWallet, TypeOK
  <2>4. wallet'[w] \in WalletRows /\ wallet'[w].balance = wallet[w].balance
    BY <2>1, <2>2 DEF WalletRows
  <2>5. \A v \in Wallets : BalanceOf(v)' = BalanceOf(v)
    BY <2>1, <2>3, <2>4, NoneIsNoRow DEF BalanceOf, Exists
  <2> QED
    BY <1>4, <1>6, <2>5 DEF ArchiveWallet
<1>7. ASSUME NEW w \in Wallets, RestoreWallet(u, w)
      PROVE  UNCHANGED B!vars
  <2> DEFINE hasDefault == \E v \in ActiveWallets(u) : wallet[v].isDefault
             row == [wallet[w] EXCEPT !.isArchived = FALSE, !.isDefault = ~hasDefault]
  <2>1. hasDefault \in BOOLEAN
    OBVIOUS
  <2>2. wallet[w] \in WalletRows
    BY <1>7 DEF RestoreWallet, OwnedBy, Exists, TypeOK
  <2>3. wallet' = [wallet EXCEPT ![w].isArchived = FALSE,
                                 ![w].isDefault = ~hasDefault]
    BY <1>7 DEF RestoreWallet
  <2> HIDE DEF hasDefault
  <2>4. wallet' = [wallet EXCEPT ![w] = row]
    BY <2>2, <2>3, Zenon DEF TypeOK
  <2>5. row \in WalletRows /\ row.balance = wallet[w].balance
    BY <2>1, <2>2 DEF WalletRows
  <2> HIDE DEF row
  <2>6. wallet'[w] = row /\ \A v \in Wallets \ {w} : wallet'[v] = wallet[v]
    BY <2>4 DEF TypeOK
  <2>7. \A v \in Wallets : BalanceOf(v)' = BalanceOf(v)
    BY <2>2, <2>5, <2>6, NoneIsNoRow DEF BalanceOf, Exists
  <2> QED
    BY <1>4, <1>7, <2>7 DEF RestoreWallet
<1> QED
  BY <1>2, <1>3, <1>5, <1>6, <1>7 DEF WalletStep

LEMMA InitBook == Init => B!Init
PROOF
<1> SUFFICES ASSUME Init PROVE B!Init
  OBVIOUS
<1>1. \A w \in Wallets : BalanceOf(w) = 0
  BY DEF Init, BalanceOf, Exists
<1>2. \A e \in Txns \cup Transfers : EffectOf(e) = NoEffect
  BY DEF Init, EffectOf, TransactionEffect, TransferEffect
<1>3. declared = [w \in Wallets |-> 0]
  BY DEF Init
<1> QED
  BY <1>1, <1>2, <1>3 DEF B!Init, B!NoEffect, NoEffect

LEMMA BookStep == TypeOK /\ SavingsInv /\ [Next]_vars => [B!Next]_(B!vars)
PROOF
<1> SUFFICES ASSUME TypeOK, ReferencesOK, [Next]_vars PROVE B!Next \/ UNCHANGED B!vars
  BY DEF SavingsInv
<1>1. CASE UNCHANGED vars
  <2>1. UNCHANGED <<txn, transfer>> /\ UNCHANGED declared
    BY <1>1 DEF vars
  <2>2. \A w \in Wallets : BalanceOf(w)' = BalanceOf(w)
    BY <1>1 DEF vars, BalanceOf, Exists
  <2> QED
    BY <2>1, <2>2, UnchangedEffects, StutterLemma
<1>2. ASSUME NEW u \in Users, MemberStep(u)
      PROVE  UNCHANGED B!vars
  <2>1. UNCHANGED <<wallet, txn, transfer, declared>>
    BY <1>2, MemberKeepsWallets
  <2>2. \A w \in Wallets : BalanceOf(w)' = BalanceOf(w)
    BY <2>1 DEF BalanceOf, Exists
  <2> QED
    BY <2>1, <2>2, UnchangedEffects, StutterLemma
<1> QED
  BY <1>1, <1>2, WalletBookStep, TransactionBookStep, TransferBookStep DEF Next

(* Every handler of the ledger is one entry of the abstract account book,  *)
(* one declaration of a balance, or nothing at all to it.                  *)
THEOREM LedgerImplementsBook == Spec => BookSpec
PROOF
<1>1. TypeOK /\ SavingsInv /\ [Next]_vars => [B!Next]_(B!vars)
  BY BookStep
<1>2. Spec => [](TypeOK /\ SavingsInv)
  BY InitTypeOK, TypeStep, InitSavingsInv, SavingsInvStep, PTL DEF Spec
<1> QED
  BY <1>1, <1>2, InitBook, PTL DEF Spec, BookSpec, B!Spec

-----------------------------------------------------------------------------
(* Balance accounting follows from the abstract book alone. *)

Rows == Txns \cup Transfers

EffectsOn(w) == [e \in Rows |-> EffectOf(e)[w]]

Typing ==
  /\ \A e \in Rows, w \in Wallets : EffectOf(e)[w] \in Int
  /\ \A w \in Wallets : BalanceOf(w) \in Int /\ declared[w] \in Int
  /\ declared \in [Wallets -> Int]

AddsUp(w) == BalanceOf(w) = declared[w] + Total(EffectsOn(w), Rows)

LEMMA RowsFinite == IsFiniteSet(Rows)
BY IdsAssumption, FS_Union DEF Rows

LEMMA TypingLemma == TypeOK /\ SavingsInv => Typing
PROOF
<1> SUFFICES ASSUME TypeOK, ReferencesOK PROVE Typing
  BY DEF SavingsInv
<1>1. \A e \in Rows, w \in Wallets : EffectOf(e)[w] \in Int
  BY RowEffectsLemma DEF Rows, Deltas
<1>2. \A w \in Wallets : BalanceOf(w) \in Int
  BY DEF TypeOK, BalanceOf, Exists, WalletRows
<1> QED
  BY <1>1, <1>2 DEF TypeOK, Typing

(* The sum of the book, one wallet at a time.                              *)
IsBookSum(g, w) ==
  g = [s \in SUBSET Rows |-> IF s = {} THEN 0
         ELSE [e \in Rows |-> EffectOf(e)][CHOOSE x \in s : TRUE][w]
                + g[s \ {CHOOSE x \in s : TRUE}]]

LEMMA BookTotal ==
  ASSUME NEW w \in Wallets
  PROVE  (CHOOSE g : IsBookSum(g, w))[Rows] = Total(EffectsOn(w), Rows)
PROOF
<1> PICK f : f = EffectsOn(w)
  OBVIOUS
<1>1. \A s \in SUBSET Rows : s # {} =>
        f[Chosen(s)] = [e \in Rows |-> EffectOf(e)][CHOOSE x \in s : TRUE][w]
  BY ChosenIn DEF EffectsOn, Chosen
<1>2. \A g : IsBookSum(g, w) <=> SumsOf(g, f, Rows)
  <2> TAKE g
  <2>1. \A s \in SUBSET Rows :
          (IF s = {} THEN 0 ELSE f[Chosen(s)] + g[s \ {Chosen(s)}])
          = (IF s = {} THEN 0
             ELSE [e \in Rows |-> EffectOf(e)][CHOOSE x \in s : TRUE][w]
                    + g[s \ {CHOOSE x \in s : TRUE}])
    BY <1>1 DEF Chosen
  <2> QED
    BY <2>1 DEF SumsOf, IsBookSum
<1>3. \E g : SumsOf(g, f, Rows)
  BY RowsFinite, SumsExist
<1>4. SumsOf(CHOOSE g : IsBookSum(g, w), f, Rows)
  BY <1>2, <1>3
<1> QED
  BY <1>4, RowsFinite, TotalIs

LEMMA ConservedMeans == B!Conserved <=> \A w \in Wallets : AddsUp(w)
PROOF
<1>1. B!Conserved <=>
        \A w \in Wallets : [v \in Wallets |-> BalanceOf(v)][w]
                            = declared[w] + (CHOOSE g : IsBookSum(g, w))[Rows]
  BY DEF B!Conserved, B!MapThenSumSet, B!MapThenFoldSet, IsBookSum, Rows
<1> QED
  BY <1>1, BookTotal DEF AddsUp

LEMMA PostKeepsSums ==
  ASSUME Typing, Typing', NEW e \in Rows, B!Post(e), NEW w \in Wallets, AddsUp(w)
  PROVE  AddsUp(w)'
PROOF
<1>1. \A g \in Rows \ {e} : EffectOf(g)' = EffectOf(g)
  BY DEF B!Post, Rows
<1>2. BalanceOf(w)' = BalanceOf(w) + EffectOf(e)'[w] - EffectOf(e)[w]
  BY DEF B!Post, Rows
<1>3. declared'[w] = declared[w]
  BY DEF B!Post
<1> PICK f : f = EffectsOn(w)
  OBVIOUS
<1> PICK h : h = EffectsOn(w)'
  OBVIOUS
<1>4. \A g \in Rows : f[g] \in Int /\ h[g] \in Int
  BY DEF Typing, EffectsOn
<1>5. \A g \in Rows \ {e} : f[g] = h[g]
  BY <1>1 DEF EffectsOn
<1>6. Total(h, Rows) = Total(f, Rows) - f[e] + h[e]
  BY <1>4, <1>5, RowsFinite, TotalChange
<1>7. f[e] = EffectOf(e)[w] /\ h[e] = EffectOf(e)'[w]
  BY DEF EffectsOn
<1>8. Total(f, Rows) \in Int
  BY <1>4, RowsFinite, TotalInteger
<1>9. BalanceOf(w) = declared[w] + Total(f, Rows) /\ BalanceOf(w) \in Int /\ declared[w] \in Int
  BY DEF AddsUp, Typing
<1>10. BalanceOf(w)' = declared'[w] + Total(h, Rows)
  BY <1>2, <1>3, <1>4, <1>6, <1>7, <1>8, <1>9
<1> QED
  BY <1>10 DEF AddsUp

LEMMA DeclareKeepsSums ==
  ASSUME Typing, Typing', NEW v \in Wallets, NEW b \in Balances \cup {0}, B!Declare(v, b),
         NEW w \in Wallets, AddsUp(w)
  PROVE  AddsUp(w)'
PROOF
<1>1. \A g \in Rows : EffectOf(g)' = EffectOf(g)
  BY DEF B!Declare, Rows
<1> PICK f : f = EffectsOn(w)
  OBVIOUS
<1>2. EffectsOn(w)' = f
  BY <1>1 DEF EffectsOn
<1>3. BalanceOf(w)' = (IF w = v THEN b ELSE BalanceOf(w))
  BY DEF B!Declare
<1>4. declared'[w] = (IF w = v THEN declared[w] + b - BalanceOf(w) ELSE declared[w])
  BY DEF B!Declare, Typing
<1>5. Total(f, Rows) \in Int
  BY RowsFinite, TotalInteger DEF Typing, EffectsOn
<1>6. BalanceOf(w) = declared[w] + Total(f, Rows) /\ BalanceOf(w) \in Int /\ declared[w] \in Int
  BY DEF AddsUp, Typing
<1>7. b \in Int
  BY BalancesAssumption
<1>8. BalanceOf(w)' = declared'[w] + Total(f, Rows)
  BY <1>3, <1>4, <1>5, <1>6, <1>7
<1> QED
  BY <1>2, <1>8 DEF AddsUp

LEMMA ConservedInit == Init => \A w \in Wallets : AddsUp(w)
PROOF
<1> SUFFICES ASSUME Init, NEW w \in Wallets PROVE AddsUp(w)
  OBVIOUS
<1>1. BalanceOf(w) = 0 /\ declared[w] = 0
  BY DEF Init, BalanceOf, Exists
<1> PICK f : f = EffectsOn(w)
  OBVIOUS
<1>2. \A e \in Rows : f[e] = 0
  <2>1. \A e \in Rows : EffectOf(e) = NoEffect
    BY DEF Init, EffectOf, TransactionEffect, TransferEffect, Rows
  <2> QED
    BY <2>1 DEF EffectsOn, NoEffect
<1>3. Total(f, Rows) = 0
  BY <1>2, RowsFinite, TotalZero
<1> QED
  BY <1>1, <1>3 DEF AddsUp

LEMMA ConservedStep ==
  Typing /\ Typing' /\ (\A w \in Wallets : AddsUp(w)) /\ [B!Next]_(B!vars)
    => (\A w \in Wallets : AddsUp(w))'
PROOF
<1> SUFFICES ASSUME Typing, Typing', \A w \in Wallets : AddsUp(w), [B!Next]_(B!vars),
                    NEW w \in Wallets
             PROVE  AddsUp(w)'
  OBVIOUS
<1>1. CASE \E e \in Rows : B!Post(e)
  BY <1>1, PostKeepsSums
<1>2. CASE \E v \in Wallets, b \in Balances \cup {0} : B!Declare(v, b)
  BY <1>2, DeclareKeepsSums
<1>3. CASE UNCHANGED B!vars
  <2>1. \A g \in Rows : EffectOf(g)' = EffectOf(g)
    BY <1>3 DEF B!vars, Rows
  <2>2. BalanceOf(w)' = BalanceOf(w) /\ declared'[w] = declared[w]
    BY <1>3 DEF B!vars
  <2>3. EffectsOn(w)' = EffectsOn(w)
    BY <2>1 DEF EffectsOn
  <2> QED
    BY <2>2, <2>3 DEF AddsUp
<1> QED
  BY <1>1, <1>2, <1>3 DEF B!Next, Rows

(* Whatever was created, edited, moved between wallets and deleted, every  *)
(* wallet holds what its owner declared plus the rows that exist now.      *)
THEOREM BalancesAlwaysConserved == Spec => []BalanceConserved
PROOF
<1>1. TypeOK /\ SavingsInv /\ [Next]_vars => [B!Next]_(B!vars)
  BY BookStep
<1>2. Spec => [](TypeOK /\ SavingsInv)
  BY InitTypeOK, TypeStep, InitSavingsInv, SavingsInvStep, PTL DEF Spec
<1>3. (\A w \in Wallets : AddsUp(w)) => BalanceConserved
  BY ConservedMeans DEF BalanceConserved
<1> QED
  BY <1>1, <1>2, <1>3, TypingLemma, ConservedInit, ConservedStep, PTL DEF Spec

-----------------------------------------------------------------------------
(* Archived wallets. *)

LEMMA ArchivedStep == TypeOK /\ [Next]_vars => [RowsOnlyLeaveArchived]_vars
PROOF
<1> SUFFICES ASSUME TypeOK, Next PROVE RowsOnlyLeaveArchived
  OBVIOUS
<1>1. ASSUME UNCHANGED <<txn, transfer>>
      PROVE  RowsOnlyLeaveArchived
  BY <1>1 DEF RowsOnlyLeaveArchived
<1>2. ASSUME NEW t \in Txns, UNCHANGED transfer,
             \A s \in Txns \ {t} : txn'[s] = txn[s],
             txn'[t] # None => ~Archived(txn'[t].wallet)
      PROVE  RowsOnlyLeaveArchived
  BY <1>2 DEF RowsOnlyLeaveArchived
<1>3. ASSUME NEW u \in Users, TransactionStep(u)
      PROVE  RowsOnlyLeaveArchived
  <2>1. ASSUME NEW t \in Txns, NEW w \in Wallets, NEW type \in TransactionTypes,
               NEW a \in Amounts, NEW m \in Months,
               CreateTransaction(u, t, w, type, a, m)
        PROVE  RowsOnlyLeaveArchived
    <3>1. txn'[t].wallet = w /\ \A s \in Txns \ {t} : txn'[s] = txn[s]
      BY <2>1 DEF CreateTransaction, TypeOK
    <3>2. ~Archived(w) /\ UNCHANGED transfer
      BY <2>1 DEF CreateTransaction, ValidRelations, Archived
    <3> QED
      BY <1>2, <3>1, <3>2
  <2>2. ASSUME NEW t \in Txns, NEW w \in Wallets, NEW type \in TransactionTypes,
               NEW a \in Amounts, NEW m \in Months,
               UpdateTransaction(u, t, w, type, a, m)
        PROVE  RowsOnlyLeaveArchived
    <3>1. txn[t] \in TransactionRows
      BY <2>2 DEF UpdateTransaction, TransactionVisible, TypeOK
    <3>2. txn'[t] = [txn[t] EXCEPT !.wallet = w, !.type = type,
                                   !.amount = a, !.month = m]
      BY <2>2 DEF UpdateTransaction, TypeOK
    <3>3. txn'[t].wallet = w
      BY <3>1, <3>2 DEF TransactionRows
    <3>4. \A s \in Txns \ {t} : txn'[s] = txn[s]
      BY <2>2 DEF UpdateTransaction, TypeOK
    <3>5. ~Archived(w) /\ UNCHANGED transfer
      BY <2>2 DEF UpdateTransaction, ValidRelations, Archived
    <3> QED
      BY <1>2, <3>3, <3>4, <3>5
  <2>3. ASSUME NEW t \in Txns, DeleteTransaction(u, t)
        PROVE  RowsOnlyLeaveArchived
    <3>1. /\ txn'[t] = None
          /\ \A s \in Txns \ {t} : txn'[s] = txn[s]
          /\ UNCHANGED transfer
      BY <2>3 DEF DeleteTransaction, TypeOK
    <3> QED
      BY <1>2, <3>1
  <2> QED
    BY <1>3, <2>1, <2>2, <2>3 DEF TransactionStep
<1>4. ASSUME NEW u \in Users, TransferStep(u)
      PROVE  RowsOnlyLeaveArchived
  <2>1. ASSUME NEW x \in Transfers, NEW source \in Wallets,
               NEW destination \in Wallets, NEW a \in Amounts,
               CreateTransfer(u, x, source, destination, a)
        PROVE  RowsOnlyLeaveArchived
    <3>1. /\ transfer[x] = None
          /\ transfer'[x].source = source /\ transfer'[x].destination = destination
          /\ \A y \in Transfers \ {x} : transfer'[y] = transfer[y]
      BY <2>1 DEF CreateTransfer, TypeOK
    <3>2. ~Archived(source) /\ ~Archived(destination) /\ UNCHANGED txn
      BY <2>1 DEF CreateTransfer, Archived
    <3> QED
      BY <3>1, <3>2 DEF RowsOnlyLeaveArchived
  <2>2. ASSUME NEW x \in Transfers, DeleteTransfer(u, x)
        PROVE  RowsOnlyLeaveArchived
    <3>1. /\ transfer'[x] = None
          /\ \A y \in Transfers \ {x} : transfer'[y] = transfer[y]
      BY <2>2 DEF DeleteTransfer, TypeOK
    <3>2. /\ ~Archived(transfer[x].source) /\ ~Archived(transfer[x].destination)
          /\ UNCHANGED txn
      BY <2>2 DEF DeleteTransfer, Archived
    <3> QED
      BY <3>1, <3>2 DEF RowsOnlyLeaveArchived
  <2> QED
    BY <1>4, <2>1, <2>2 DEF TransferStep
<1>5. ASSUME NEW u \in Users, WalletStep(u) \/ MemberStep(u)
      PROVE  RowsOnlyLeaveArchived
  BY <1>1, <1>5, WalletStepStays, MemberKeepsWallets
<1> QED
  BY <1>3, <1>4, <1>5 DEF Next

(* No transaction is added to an archived wallet or edited in it, and no   *)
(* transfer of an archived wallet is made or undone.                       *)
THEOREM ArchivedRowsOnlyLeave == Spec => ArchivedOnlyLosesRows
BY InitTypeOK, TypeStep, ArchivedStep, PTL DEF Spec, ArchivedOnlyLosesRows

-----------------------------------------------------------------------------
(* Roles in shared wallets. *)

(* Balances and rows of w are what they were. *)
LEMMA IncrementKeeps ==
  ASSUME TypeOK, NEW d \in Deltas, Increment(d), NEW w \in Wallets, d[w] = 0
  PROVE  wallet'[w] = wallet[w]
PROOF
<1>1. CASE Exists(w)
  <2>1. wallet[w] \in WalletRows
    BY <1>1 DEF Exists, TypeOK
  <2>2. wallet'[w] = [wallet[w] EXCEPT !.balance = @ + d[w]]
    BY <1>1 DEF Increment
  <2>3. wallet[w].balance \in Int
    BY <2>1 DEF WalletRows
  <2>4. wallet[w].balance + d[w] = wallet[w].balance
    BY <2>3
  <2>5. wallet'[w] = [wallet[w] EXCEPT !.balance = wallet[w].balance]
    BY <2>1, <2>2, <2>4 DEF WalletRows
  <2> QED
    BY <2>1, <2>5 DEF WalletRows
<1>2. CASE ~Exists(w)
  BY <1>2 DEF Increment, Exists
<1> QED
  BY <1>1, <1>2

Writer(u, w) == Role(u, w) \in {"OWNER", "MEMBER"}

LEMMA OwnersWrite ==
  ASSUME NEW u, NEW w, OwnedBy(u, w)
  PROVE  Writer(u, w)
BY DEF OwnedBy, Writer, Role

(* A visible wallet in which u is no VIEWER is one u may write to. *)
LEMMA VisibleWrite ==
  ASSUME TypeOK, NEW u \in Users, NEW w \in Wallets, Visible(u, w),
         Role(u, w) # "VIEWER"
  PROVE  Writer(u, w)
PROOF
<1>1. member[<<w, u>>] \in MemberRows \cup {None}
  BY DEF TypeOK
<1> QED
  BY <1>1 DEF Visible, Writer, Role, ActiveMember, MemberRows, MemberRoles

LEMMA TransactionWriters ==
  ASSUME TypeOK, NEW u \in Users, TransactionStep(u), NEW v \in Wallets,
         ~Writer(u, v)
  PROVE  ~TouchedByStep(v)
PROOF
<1>1. ASSUME NEW t \in Txns, wallet'[v] = wallet[v],
             \A s \in Txns \ {t} : txn'[s] = txn[s],
             \A row \in {txn[t], txn'[t]} \ {None} : row.wallet # v
      PROVE  ~TouchedByStep(v)
  BY <1>1 DEF TouchedByStep
<1>2. ASSUME NEW t \in Txns, NEW w \in Wallets, NEW type \in TransactionTypes,
             NEW a \in Amounts, NEW m \in Months,
             CreateTransaction(u, t, w, type, a, m)
      PROVE  ~TouchedByStep(v)
  <2>1. w # v
    BY <1>2 DEF CreateTransaction, Writer
  <2>2. Adjustment(w, type, a) \in Deltas /\ Adjustment(w, type, a)[v] = 0
    BY <2>1, EffectsAreDeltas DEF Adjustment
  <2>3. wallet'[v] = wallet[v]
    BY <1>2, <2>2, IncrementKeeps DEF CreateTransaction
  <2>4. /\ txn[t] = None /\ txn'[t].wallet = w
        /\ \A s \in Txns \ {t} : txn'[s] = txn[s]
    BY <1>2 DEF CreateTransaction, TypeOK
  <2> QED
    BY <1>1, <2>1, <2>3, <2>4
<1>3. ASSUME NEW t \in Txns, NEW w \in Wallets, NEW type \in TransactionTypes,
             NEW a \in Amounts, NEW m \in Months,
             UpdateTransaction(u, t, w, type, a, m)
      PROVE  ~TouchedByStep(v)
  <2> DEFINE old == TransactionEffect(txn[t])
             new == Adjustment(w, type, a)
             d == Both(Reversal(old), new)
  <2>1. txn[t] \in TransactionRows /\ txn[t] # None
    BY <1>3 DEF UpdateTransaction, TransactionVisible, TypeOK
  <2>2. txn[t].wallet \in Wallets
    BY <2>1 DEF TransactionRows
  <2>3. w # v
    BY <1>3 DEF UpdateTransaction, CanUpdate, Writer
  <2>4. txn[t].wallet # v
    <3>1. Visible(u, txn[t].wallet)
      BY <1>3 DEF UpdateTransaction
    <3>2. CASE txn[t].wallet = w
      BY <2>3, <3>2
    <3>3. CASE txn[t].wallet # w
      <4>1. Role(u, txn[t].wallet) # "VIEWER"
        BY <1>3, <3>3 DEF UpdateTransaction, CanUpdate
      <4> QED
        BY <2>2, <3>1, <4>1, VisibleWrite
    <3> QED
      BY <3>2, <3>3
  <2>5. old[v] = 0 /\ new[v] = 0
    BY <2>1, <2>3, <2>4 DEF TransactionEffect, Adjustment
  <2>6. old \in Deltas /\ new \in Deltas /\ d \in Deltas
    BY EffectsAreDeltas, RowEffectsAreDeltas
  <2>7. Increment(d) \/ UNCHANGED wallet
    BY <1>3 DEF UpdateTransaction
  <2>8. wallet'[v] = wallet[v]
    <3> HIDE DEF old, new
    <3>1. d[v] = 0
      BY <2>5, <2>6 DEF Both, Reversal, Deltas
    <3> HIDE DEF d
    <3> QED
      BY <2>6, <2>7, <3>1, IncrementKeeps
  <2>9. txn'[t] = [txn[t] EXCEPT !.wallet = w, !.type = type,
                                 !.amount = a, !.month = m]
    BY <1>3 DEF UpdateTransaction, TypeOK
  <2>10. txn'[t].wallet = w
    BY <2>1, <2>9 DEF TransactionRows
  <2>11. \A s \in Txns \ {t} : txn'[s] = txn[s]
    BY <1>3 DEF UpdateTransaction, TypeOK
  <2> QED
    BY <1>1, <2>3, <2>4, <2>8, <2>10, <2>11
<1>4. ASSUME NEW t \in Txns, DeleteTransaction(u, t)
      PROVE  ~TouchedByStep(v)
  <2>1. txn[t] \in TransactionRows /\ txn[t] # None
    BY <1>4 DEF DeleteTransaction, TransactionVisible, TypeOK
  <2>2. txn[t].wallet # v
    BY <1>4 DEF DeleteTransaction, Writer
  <2>3. TransactionEffect(txn[t])[v] = 0
    BY <2>1, <2>2 DEF TransactionEffect, Adjustment
  <2>4. /\ Reversal(TransactionEffect(txn[t])) \in Deltas
        /\ Reversal(TransactionEffect(txn[t]))[v] = 0
    BY <2>3, EffectsAreDeltas, RowEffectsAreDeltas DEF Reversal
  <2>5. wallet'[v] = wallet[v]
    BY <1>4, <2>4, IncrementKeeps DEF DeleteTransaction
  <2>6. txn'[t] = None /\ \A s \in Txns \ {t} : txn'[s] = txn[s]
    BY <1>4 DEF DeleteTransaction, TypeOK
  <2> QED
    BY <1>1, <2>2, <2>5, <2>6
<1> QED
  BY <1>2, <1>3, <1>4 DEF TransactionStep

LEMMA TransferWriters ==
  ASSUME TypeOK, NEW u \in Users, TransferStep(u), NEW v \in Wallets,
         ~Writer(u, v)
  PROVE  ~TouchedByStep(v)
PROOF
<1>1. ASSUME wallet'[v] = wallet[v], UNCHANGED txn
      PROVE  ~TouchedByStep(v)
  BY <1>1 DEF TouchedByStep
<1>2. ASSUME NEW x \in Transfers, NEW source \in Wallets,
             NEW destination \in Wallets, NEW a \in Amounts,
             CreateTransfer(u, x, source, destination, a)
      PROVE  ~TouchedByStep(v)
  <2>1. source # v /\ destination # v
    BY <1>2, OwnersWrite DEF CreateTransfer
  <2>2. /\ Movement(source, destination, a) \in Deltas
        /\ Movement(source, destination, a)[v] = 0
    BY <2>1, EffectsAreDeltas DEF Movement
  <2> QED
    BY <1>1, <1>2, <2>2, IncrementKeeps DEF CreateTransfer
<1>3. ASSUME NEW x \in Transfers, DeleteTransfer(u, x)
      PROVE  ~TouchedByStep(v)
  <2>1. transfer[x] \in TransferRows /\ transfer[x] # None
    BY <1>3 DEF DeleteTransfer, TypeOK
  <2>2. transfer[x].source # v /\ transfer[x].destination # v
    BY <1>3, OwnersWrite DEF DeleteTransfer
  <2>3. TransferEffect(transfer[x])[v] = 0
    BY <2>1, <2>2 DEF TransferEffect, Movement
  <2>4. /\ Reversal(TransferEffect(transfer[x])) \in Deltas
        /\ Reversal(TransferEffect(transfer[x]))[v] = 0
    BY <2>3, EffectsAreDeltas, RowEffectsAreDeltas DEF Reversal
  <2> QED
    BY <1>1, <1>3, <2>4, IncrementKeeps DEF DeleteTransfer
<1> QED
  BY <1>2, <1>3 DEF TransferStep

LEMMA WritersStep == TypeOK => OnlyWritersWrite
PROOF
<1> SUFFICES ASSUME TypeOK, NEW u \in Users, NEW w \in Wallets,
                    ~Writer(u, w), TransactionStep(u) \/ TransferStep(u)
             PROVE  ~TouchedByStep(w)
  BY DEF OnlyWritersWrite, Writer
<1> QED
  BY TransactionWriters, TransferWriters

(* Nobody's transactions or transfers touch a wallet in which they are     *)
(* neither the owner nor a MEMBER at that moment.                          *)
THEOREM OnlyWritersWriteAlways == Spec => RolesRespected
PROOF
<1>1. TypeOK => [OnlyWritersWrite]_vars
  BY WritersStep
<1> QED
  BY <1>1, InitTypeOK, TypeStep, PTL DEF Spec, RolesRespected

-----------------------------------------------------------------------------
(* The spending of a member.                                               *)

Counts(rows, u, w, m, t) ==
  /\ rows[t] # None /\ rows[t].user = u /\ rows[t].wallet = w
  /\ rows[t].type = "EXPENSE" /\ rows[t].month = m

Expense(rows, u, w, m) ==
  [t \in Txns |-> IF Counts(rows, u, w, m, t) THEN rows[t].amount ELSE 0]

LEMMA ExpensesAreNumbers ==
  ASSUME NEW rows \in [Txns -> TransactionRows \cup {None}], NEW u, NEW w, NEW m, NEW t \in Txns
  PROVE  /\ Expense(rows, u, w, m)[t] \in Nat
         /\ Counts(rows, u, w, m, t) => Expense(rows, u, w, m)[t] = rows[t].amount
         /\ ~Counts(rows, u, w, m, t) => Expense(rows, u, w, m)[t] = 0
PROOF
<1>1. Counts(rows, u, w, m, t) => rows[t].amount \in Amounts
  BY DEF Counts, TransactionRows
<1> QED
  BY <1>1, AmountsAssumption DEF Expense

LEMMA SpentIsTotal ==
  TypeOK => \A u, w, m : Spent(u, w, m) = Total(Expense(txn, u, w, m), Txns)
PROOF
<1> SUFFICES ASSUME TypeOK, NEW u, NEW w, NEW m
             PROVE  Spent(u, w, m) = Total(Expense(txn, u, w, m), Txns)
  OBVIOUS
<1> DEFINE S == {t \in Txns : /\ txn[t] # None
                              /\ txn[t].user = u
                              /\ txn[t].wallet = w
                              /\ txn[t].type = "EXPENSE"
                              /\ txn[t].month = m}
           P(g) == g = [s \in SUBSET S |-> IF s = {} THEN 0
                          ELSE LET x == CHOOSE x \in s : TRUE IN txn[x].amount + g[s \ {x}]]
<1>1. Spent(u, w, m) = (CHOOSE g : P(g))[S]
  BY DEF Spent, MapThenSumSet, MapThenFoldSet
<1>2. PICK f : f = Expense(txn, u, w, m)
  OBVIOUS
<1>3. \A t \in Txns : f[t] \in Nat /\ (t \in S => f[t] = txn[t].amount) /\ (t \notin S => f[t] = 0)
  <2>1. ASSUME NEW t \in Txns PROVE t \in S <=> Counts(txn, u, w, m, t)
    BY DEF Counts
  <2> HIDE DEF S
  <2>2. txn \in [Txns -> TransactionRows \cup {None}]
    BY DEF TypeOK
  <2> QED
    BY <1>2, <2>1, <2>2, ExpensesAreNumbers
<1>4. S \in SUBSET Txns /\ IsFiniteSet(Txns) /\ IsFiniteSet(S)
  <2>1. S \in SUBSET Txns
    OBVIOUS
  <2> HIDE DEF S
  <2> QED
    BY <2>1, FS_Subset, IdsAssumption
<1> HIDE DEF S
<1>5. \A g : P(g) <=> SumsOf(g, f, S)
  <2> TAKE g
  <2>1. \A s \in SUBSET S : s # {} => txn[Chosen(s)].amount = f[Chosen(s)]
    BY <1>3, <1>4, ChosenIn
  <2>2. \A s \in SUBSET S :
          (IF s = {} THEN 0 ELSE LET x == CHOOSE x \in s : TRUE IN txn[x].amount + g[s \ {x}])
          = (IF s = {} THEN 0 ELSE f[Chosen(s)] + g[s \ {Chosen(s)}])
    BY <2>1 DEF Chosen
  <2> QED
    BY <2>2 DEF SumsOf
<1>6. \E g : SumsOf(g, f, S)
  BY <1>4, SumsExist
<1> HIDE DEF P
<1>7. SumsOf(CHOOSE g : P(g), f, S)
  BY <1>5, <1>6
<1>8. Spent(u, w, m) = Total(f, S)
  BY <1>1, <1>4, <1>7, TotalIs
<1>9. Total(f, Txns) = Total(f, S)
  <2>1. \A t \in Txns : f[t] \in Int
    BY <1>3
  <2>2. \A t \in Txns \ S : f[t] = 0
    BY <1>3
  <2> QED
    BY <1>4, <2>1, <2>2, TotalOutside
<1> QED
  BY <1>2, <1>8, <1>9

LEMMA SpentIsTotalNext ==
  TypeOK' => \A u, w, m : Spent(u, w, m)' = Total(Expense(txn', u, w, m), Txns)
PROOF
<1>1. (TypeOK => \A u, w, m : Spent(u, w, m) = Total(Expense(txn, u, w, m), Txns))'
  BY SpentIsTotal, PTL
<1> QED
  BY <1>1

(* One row is written, and the spending moves by what it counts for. *)
LEMMA SpentMoves ==
  ASSUME TypeOK, TypeOK', NEW t \in Txns, \A s \in Txns \ {t} : txn'[s] = txn[s],
         NEW u, NEW w, NEW m
  PROVE  /\ Spent(u, w, m) \in Nat
         /\ Spent(u, w, m)' = Spent(u, w, m) - Expense(txn, u, w, m)[t] + Expense(txn', u, w, m)[t]
PROOF
<1>1. PICK rows : rows = txn'
  OBVIOUS
<1>2. PICK f, h : f = Expense(txn, u, w, m) /\ h = Expense(rows, u, w, m)
  OBVIOUS
<1>3. txn \in [Txns -> TransactionRows \cup {None}] /\ rows \in [Txns -> TransactionRows \cup {None}]
  BY <1>1 DEF TypeOK
<1>4. \A s \in Txns : f[s] \in Nat /\ h[s] \in Nat
  BY <1>2, <1>3, ExpensesAreNumbers
<1>5. \A s \in Txns \ {t} : f[s] = h[s]
  BY <1>1, <1>2 DEF Expense, Counts
<1>6. IsFiniteSet(Txns)
  BY IdsAssumption
<1>7. Total(h, Txns) = Total(f, Txns) - f[t] + h[t]
  BY <1>4, <1>5, <1>6, TotalChange
<1>8. Total(f, Txns) \in Nat
  BY <1>4, <1>6, TotalNatural
<1> QED
  BY <1>1, <1>2, <1>7, <1>8, SpentIsTotal, SpentIsTotalNext

LEMMA RowAmounts ==
  \A row \in TransactionRows : row.amount \in Amounts /\ row.month \in Months
PROOF
  BY DEF TransactionRows

(* What a step of u adds to the spending of u is compared with the limit,  *)
(* unless it takes spending from another month of the wallet.              *)
LEMMA QuotaStep ==
  ASSUME TypeOK, TypeOK', NEW u \in Users, NEW w \in Wallets, NEW m \in Months,
         TransactionStep(u), OverQuotaAfter(u, w, m),
         \A n \in Months \ {m} : Spent(u, w, n)' >= Spent(u, w, n)
  PROVE  FALSE
PROOF
<1> PICK limit : limit = member[<<w, u>>].limit
  OBVIOUS
<1>1. /\ Role(u, w) = "MEMBER" /\ limit # None /\ limit \in Nat
      /\ Spent(u, w, m)' > Spent(u, w, m) /\ Spent(u, w, m)' > limit
  <2>1. Role(u, w) = "MEMBER" /\ limit # None
    BY DEF OverQuotaAfter
  <2>2. member[<<w, u>>] \in MemberRows
    <3>1. member[<<w, u>>] # None
      <4>1. Role(u, w) # None /\ Role(u, w) # "OWNER"
        BY <2>1, NoneAssumption DEF MemberRoles
      <4> QED
        BY <4>1 DEF Role, ActiveMember
    <3>2. member[<<w, u>>] \in MemberRows \cup {None}
      BY DEF TypeOK
    <3> QED
      BY <3>1, <3>2
  <2>3. limit \in Nat
    BY <2>1, <2>2, LimitsAssumption DEF MemberRows
  <2> QED
    BY <2>1, <2>3 DEF OverQuotaAfter
<1>2. \A n, added : WithinQuota(u, w, n, "EXPENSE", added) => Spent(u, w, n) + added <= limit
  BY <1>1 DEF WithinQuota
<1> PICK rows : rows = txn'
  OBVIOUS
<1>3. txn \in [Txns -> TransactionRows \cup {None}] /\ rows \in [Txns -> TransactionRows \cup {None}]
  BY DEF TypeOK
<1>4. ASSUME NEW t \in Txns, \A s \in Txns \ {t} : txn'[s] = txn[s]
      PROVE  /\ Spent(u, w, m) \in Nat
             /\ Counts(rows, u, w, m, t)
             /\ Spent(u, w, m)' = Spent(u, w, m) + rows[t].amount
                                   - (IF Counts(txn, u, w, m, t) THEN txn[t].amount ELSE 0)
             /\ \A n \in Months \ {m} : ~Counts(txn, u, w, n, t)
  <2>1. \A n : Expense(txn, u, w, n)[t] \in Nat /\ Expense(rows, u, w, n)[t] \in Nat
    BY <1>3, ExpensesAreNumbers
  <2>2. \A n : /\ Spent(u, w, n) \in Nat
               /\ Spent(u, w, n)' = Spent(u, w, n) - Expense(txn, u, w, n)[t]
                                     + Expense(rows, u, w, n)[t]
    BY <1>4, SpentMoves
  <2>3. Expense(rows, u, w, m)[t] > 0
    BY <1>1, <2>1, <2>2
  <2>4. Counts(rows, u, w, m, t) /\ Expense(rows, u, w, m)[t] = rows[t].amount
    BY <1>3, <2>3, ExpensesAreNumbers
  <2>5. Expense(txn, u, w, m)[t] = IF Counts(txn, u, w, m, t) THEN txn[t].amount ELSE 0
    BY <1>3, ExpensesAreNumbers
  <2>6. ASSUME NEW n \in Months \ {m}, Counts(txn, u, w, n, t) PROVE FALSE
    <3>1. ~Counts(rows, u, w, n, t)
      BY <2>4 DEF Counts
    <3>2. Expense(rows, u, w, n)[t] = 0 /\ Expense(txn, u, w, n)[t] = txn[t].amount
      BY <1>3, <2>6, <3>1, ExpensesAreNumbers
    <3>3. txn[t].amount \in Nat /\ txn[t].amount > 0
      <4>1. txn[t] \in TransactionRows
        BY <1>3, <2>6 DEF Counts
      <4> QED
        BY <4>1, RowAmounts, AmountsAreIntegers
    <3> QED
      BY <2>2, <3>2, <3>3
  <2> QED
    BY <2>1, <2>2, <2>4, <2>5, <2>6
<1>5. ASSUME NEW t \in Txns, NEW v \in Wallets, NEW type \in TransactionTypes,
             NEW a \in Amounts, NEW n \in Months, CreateTransaction(u, t, v, type, a, n)
      PROVE  FALSE
  <2>1. txn[t] = None /\ WithinQuota(u, v, n, type, a)
    BY <1>5 DEF CreateTransaction
  <2>2. /\ rows[t] = [user |-> u, wallet |-> v, type |-> type, amount |-> a, month |-> n]
        /\ \A s \in Txns \ {t} : txn'[s] = txn[s]
    BY <1>3, <1>5 DEF CreateTransaction
  <2>3. v = w /\ type = "EXPENSE" /\ n = m /\ rows[t].amount = a
    BY <1>4, <2>2 DEF Counts
  <2>4. Spent(u, w, m)' = Spent(u, w, m) + a /\ Spent(u, w, m) \in Nat
    <3>1. ~Counts(txn, u, w, m, t)
      BY <2>1 DEF Counts
    <3>2. Spent(u, w, m)' = Spent(u, w, m) + a - 0 /\ Spent(u, w, m) \in Nat
      BY <1>4, <2>2, <2>3, <3>1
    <3> QED
      BY <3>2, AmountsAreIntegers
  <2>5. Spent(u, w, m) + a <= limit
    BY <1>2, <2>1, <2>3
  <2>6. a \in Nat
    BY AmountsAreIntegers
  <2> QED
    BY <1>1, <2>4, <2>5, <2>6
<1>6. ASSUME NEW t \in Txns, NEW v \in Wallets, NEW type \in TransactionTypes,
             NEW a \in Amounts, NEW n \in Months, UpdateTransaction(u, t, v, type, a, n)
      PROVE  FALSE
  <2>1. txn[t] # None /\ CanUpdate(u, txn[t], v, type, a, n)
    BY <1>6 DEF UpdateTransaction, TransactionVisible
  <2>2. /\ rows[t] = [txn[t] EXCEPT !.wallet = v, !.type = type, !.amount = a, !.month = n]
        /\ \A s \in Txns \ {t} : txn'[s] = txn[s]
    BY <1>3, <1>6 DEF UpdateTransaction
  <2>3. txn[t] \in TransactionRows
    BY <1>3, <2>1
  <2>4. /\ rows[t].user = txn[t].user /\ rows[t].wallet = v /\ rows[t].type = type
        /\ rows[t].amount = a /\ rows[t].month = n
    BY <2>2, <2>3 DEF TransactionRows
  <2>5. v = w /\ type = "EXPENSE" /\ n = m /\ txn[t].user = u
    BY <1>4, <2>2, <2>4 DEF Counts
  <2>6. txn[t].amount \in Nat /\ txn[t].amount > 0 /\ a \in Nat /\ a > 0 /\ txn[t].month \in Months
    BY <2>3, RowAmounts, AmountsAreIntegers
  <2>7. CASE Counts(txn, u, w, m, t)
    <3>1. Spent(u, w, m)' = Spent(u, w, m) + a - txn[t].amount /\ Spent(u, w, m) \in Nat
      BY <1>4, <2>2, <2>4, <2>7
    <3>2. a - txn[t].amount > 0
      BY <1>1, <2>6, <3>1
    <3>3. WithinQuota(u, w, m, "EXPENSE", a - txn[t].amount)
      BY <2>1, <2>5, <2>7, <3>2 DEF CanUpdate, Counts
    <3> QED
      BY <1>1, <1>2, <2>6, <3>1, <3>3
  <2>8. CASE ~Counts(txn, u, w, m, t)
    <3>1. Spent(u, w, m)' = Spent(u, w, m) + a - 0 /\ Spent(u, w, m) \in Nat
      BY <1>4, <2>2, <2>4, <2>8
    <3>2. ~(txn[t].wallet = w /\ txn[t].type = "EXPENSE")
      <4>1. ASSUME txn[t].wallet = w, txn[t].type = "EXPENSE" PROVE Counts(txn, u, w, txn[t].month, t)
        BY <2>1, <2>5, <4>1 DEF Counts
      <4>2. ~Counts(txn, u, w, txn[t].month, t)
        BY <1>4, <2>2, <2>6, <2>8
      <4> QED
        BY <4>1, <4>2
    <3>3. WithinQuota(u, w, m, "EXPENSE", a)
      BY <2>1, <2>5, <2>6, <3>2 DEF CanUpdate
    <3> QED
      BY <1>1, <1>2, <2>6, <3>1, <3>3
  <2> QED
    BY <2>7, <2>8
<1>7. ASSUME NEW t \in Txns, DeleteTransaction(u, t) PROVE FALSE
  <2>1. rows[t] = None /\ \A s \in Txns \ {t} : txn'[s] = txn[s]
    BY <1>3, <1>7 DEF DeleteTransaction
  <2> QED
    BY <1>4, <2>1 DEF Counts
<1> QED
  BY <1>5, <1>6, <1>7 DEF TransactionStep

(* A member's spending of a month passes the limit only by expenses that   *)
(* the same step takes from another month of the wallet.                   *)
THEOREM QuotaAlways == Spec => QuotaOfAdditions
PROOF
<1>1. TypeOK => AdditionsWithinQuota
  <2> SUFFICES ASSUME TypeOK, NEW u \in Users, NEW w \in Wallets, NEW m \in Months,
                      OverQuotaAfter(u, w, m), TransactionStep(u),
                      \A n \in Months \ {m} : Spent(u, w, n)' >= Spent(u, w, n)
               PROVE  FALSE
    BY DEF AdditionsWithinQuota
  <2>1. TypeOK'
    BY TransactionTypeStep
  <2> QED
    BY <2>1, QuotaStep
<1> QED
  BY <1>1, InitTypeOK, TypeStep, PTL DEF Spec, QuotaOfAdditions
=============================================================================
