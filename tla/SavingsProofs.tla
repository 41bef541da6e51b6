---------------------------- MODULE SavingsProofs ----------------------------
(***************************************************************************)
(* Proofs about module SavingsDeposit, for every number of deposits,       *)
(* wallets, requests and workers, for any terms, rates and edits.          *)
(***************************************************************************)
EXTENDS SavingsDeposit, FiniteSetTheorems, TLAPS

-----------------------------------------------------------------------------
(* The inductive invariant. *)

(* What requests and lists refer to is there, and only that has a log.     *)
RefersToOpen ==
  /\ \A r \in Requests : request[r] # None => Open(request[r].deposit)
  /\ \A k \in Workers : pass[k] # None => \A item \in pass[k] : Open(item.deposit)
  /\ \A d \in Deposits : ~Open(d) => log[d] = <<>>

Typed == TypeOK /\ RefersToOpen

Settlements(d) == RowsWith(d, {"SETTLE_TO_WALLET"})

(* A deposit is settled at most once, and is not active afterwards.        *)
SettledOnce(d) ==
  /\ Active(d) => Settlements(d) = {}
  /\ \A i, j \in Settlements(d) : i = j

(* The terms that were rolled over ended before the one that runs now.     *)
RolledInOrder(d) ==
  LET rows == RowsWith(d, Rollovers)
  IN  /\ \A i \in rows : log[d][i].ends < deposit[d].matures /\ log[d][i].ends <= today
      /\ \A i, j \in rows : log[d][i].ends = log[d][j].ends => i = j

(* Who has a list holds the lock; the list has an item for a deposit, whose *)
(* term has ended and is the one that runs still.                          *)
OnePass ==
  \A k \in Workers : pass[k] # None =>
    /\ lock = k
    /\ \A item \in pass[k] : /\ item.row.matures = deposit[item.deposit].matures
                             /\ item.row.matures <= today
    /\ \A x, y \in pass[k] : x.deposit = y.deposit => x = y

Orderly == ~overlapped => OnePass /\ \A d \in Deposits : RolledInOrder(d)

IInv == Typed /\ (\A d \in Deposits : SettledOnce(d)) /\ Orderly

-----------------------------------------------------------------------------
(* Types of rows, and what the helpers return. *)

LEMMA RowTypes ==
  ASSUME TypeOK
  PROVE  /\ \A d \in Deposits : Open(d) => deposit[d] \in DepositRows
         /\ \A w \in Wallets : wallet[w] \in WalletRows
         /\ \A d \in Deposits : book[d] \in WalletRows
         /\ \A k \in Workers : pass[k] # None => \A item \in pass[k] : item \in Items
BY DEF TypeOK, Open

LEMMA RequestTypes ==
  ASSUME TypeOK, NEW r \in Requests, request[r] # None
  PROVE  /\ request[r].op = "edit" => request[r] \in EditPatches
         /\ request[r].op = "settle" => request[r] \in SettlementRequests
BY DEF TypeOK, EditPatches, SettlementRequests

LEMMA InterestIsNat ==
  ASSUME NEW p \in Nat, NEW q \in Rates \cup {NonTermRate}
  PROVE  TermInterest(p, q) \in Nat
BY RatesAssumption DEF TermInterest

LEMMA CreditedWallets ==
  ASSUME TypeOK, NEW w \in Wallets, NEW amount \in Int, wallet[w].balance + amount >= 0
  PROVE  /\ Credited(w, amount) \in [Wallets -> WalletRows]
         /\ Credited(w, amount)[w].balance = wallet[w].balance + amount
         /\ \A v \in Wallets \ {w} : Credited(w, amount)[v] = wallet[v]
PROOF
<1> DEFINE row == [wallet[w] EXCEPT !.balance = wallet[w].balance + amount]
<1>1. wallet[w] \in WalletRows
  BY RowTypes
<1>2. wallet[w].balance + amount \in Nat
  BY <1>1 DEF WalletRows
<1>3. row \in WalletRows /\ row.balance = wallet[w].balance + amount
  BY <1>1, <1>2 DEF WalletRows
<1>4. Credited(w, amount) = [wallet EXCEPT ![w] = row]
  BY DEF Credited, TypeOK
<1> HIDE DEF row
<1> QED
  BY <1>3, <1>4 DEF TypeOK

LogRow(d, interest, action) ==
  [ends |-> deposit[d].matures, interest |-> interest, action |-> action]

LEMMA LoggedLog ==
  ASSUME TypeOK, NEW d \in Deposits, Open(d), NEW interest \in Nat, NEW action \in Methods
  PROVE  /\ Logged(d, interest, action) \in [Deposits -> Seq(LogRows)]
         /\ Logged(d, interest, action)[d] = Append(log[d], LogRow(d, interest, action))
         /\ \A e \in Deposits \ {d} : Logged(d, interest, action)[e] = log[e]
PROOF
<1>1. deposit[d].matures \in Int
  BY RowTypes DEF DepositRows
<1>2. LogRow(d, interest, action) \in LogRows
  BY <1>1 DEF LogRow, LogRows
<1>3. Logged(d, interest, action) =
        [log EXCEPT ![d] = Append(log[d], LogRow(d, interest, action))]
  BY DEF Logged, LogRow, TypeOK
<1>4. log[d] \in Seq(LogRows) /\ Append(log[d], LogRow(d, interest, action)) \in Seq(LogRows)
  BY <1>2 DEF TypeOK
<1> QED
  BY <1>3, <1>4 DEF TypeOK

-----------------------------------------------------------------------------
(* Every action keeps the types and what refers to open deposits. *)

LEMMA InitTyped == Init => Typed
PROOF
<1> SUFFICES ASSUME Init PROVE Typed
  OBVIOUS
<1>1. wallet \in [Wallets -> WalletRows] /\ book \in [Deposits -> WalletRows]
  BY BoundsAssumption DEF Init, WalletRows
<1>2. log \in [Deposits -> Seq(LogRows)]
  <2>1. <<>> \in Seq(LogRows)
    OBVIOUS
  <2> QED
    BY <2>1 DEF Init
<1>3. TypeOK
  <2>1. today \in 0..LastDay /\ failures \in 0..MaxFailures
    BY BoundsAssumption DEF Init
  <2>2. /\ deposit \in [Deposits -> DepositRows \cup {None}]
        /\ request \in [Requests -> EditPatches \cup SettlementRequests \cup {None}]
        /\ pass \in [Workers -> {None} \cup SUBSET Items]
        /\ lock \in Workers \cup {None}
        /\ overlapped \in BOOLEAN
    BY DEF Init
  <2> QED
    BY <1>1, <1>2, <2>1, <2>2 DEF TypeOK
<1>4. RefersToOpen
  BY DEF Init, RefersToOpen
<1> QED
  BY <1>3, <1>4 DEF Typed

(* A step that closes no deposit and adds no reference.                    *)
LEMMA StillRefers ==
  ASSUME Typed, \A d \in Deposits : Open(d) => deposit'[d] # None,
         \A r \in Requests : request'[r] # None => request'[r] = request[r],
         \A k \in Workers : pass'[k] # None => pass[k] # None /\ pass'[k] \subseteq pass[k],
         \A d \in Deposits : ~Open(d) => log'[d] = log[d]
  PROVE  RefersToOpen'
PROOF
<1>1. \A r \in Requests : request[r] # None => request[r].deposit \in Deposits
  BY RequestTypes DEF Typed, TypeOK, EditPatches, SettlementRequests
<1>2. \A k \in Workers : pass[k] # None => \A item \in pass[k] : item.deposit \in Deposits
  BY RowTypes DEF Typed, Items
<1> QED
  BY <1>1, <1>2 DEF Typed, RefersToOpen, Open

LEMMA OpenTyped ==
  ASSUME Typed, NEW d \in Deposits, NEW source \in Wallets \cup {None},
         NEW target \in Wallets \cup {None}, NEW principal \in Amounts, NEW rate \in Rates,
         NEW method \in Methods, NEW start \in StartDays,
         OpenDeposit(d, source, target, principal, rate, method, start)
  PROVE  Typed'
PROOF
<1> DEFINE row == [status |-> "ACTIVE", method |-> method, target |-> target,
                   principal |-> principal, rate |-> rate,
                   interest |-> TermInterest(principal, rate), matures |-> start + 1,
                   reminded |-> FALSE]
<1>1. principal \in Nat /\ start + 1 \in Int
  BY AmountsAssumption, StartAssumption
<1>2. TermInterest(principal, rate) \in Nat
  BY <1>1, InterestIsNat
<1>3. row \in DepositRows
  BY <1>1, <1>2 DEF DepositRows
<1>4. wallet' \in [Wallets -> WalletRows]
  <2>1. CASE source = None
    BY <2>1 DEF OpenDeposit, Typed, TypeOK
  <2>2. CASE source # None
    <3>1. -principal \in Int /\ wallet[source].balance + (-principal) >= 0
      BY <1>1, <2>2, RowTypes DEF OpenDeposit, Typed, WalletRows
    <3> QED
      BY <2>2, <3>1, CreditedWallets DEF OpenDeposit, Typed
  <2> QED
    BY <2>1, <2>2
<1>5. [balance |-> principal, isArchived |-> FALSE] \in WalletRows
  BY <1>1 DEF WalletRows
<1>6. deposit' = [deposit EXCEPT ![d] = row]
  BY DEF OpenDeposit
<1> HIDE DEF row
<1>7. TypeOK'
  BY <1>3, <1>4, <1>5, <1>6 DEF OpenDeposit, workers, Typed, TypeOK
<1>8. \A e \in Deposits : Open(e) => deposit'[e] # None
  BY <1>3, <1>6 DEF Typed, TypeOK, Open, OpenDeposit
<1>9. deposit'[d] # None
  BY <1>3, <1>6, NoneAssumption DEF Typed, TypeOK
<1>10. RefersToOpen'
  BY <1>8, <1>9, StillRefers DEF OpenDeposit, workers
<1> QED
  BY <1>7, <1>10 DEF Typed

LEMMA ReadForEditTyped ==
  ASSUME Typed, NEW d \in Deposits, NEW r \in Requests, NEW patch \in Patches,
         ReadForEdit(r, d, patch)
  PROVE  Typed'
PROOF
<1> DEFINE item == [op |-> "edit", deposit |-> d, patch |-> patch,
                    interest |-> IF patch.rate = None THEN None
                                 ELSE TermInterest(deposit[d].principal, patch.rate)]
<1>1. patch.rate \in Rates \cup {None} /\ deposit[d].principal \in Nat
  BY RowTypes, PatchesAssumption DEF Typed, ReadForEdit, Active, PatchFields, DepositRows
<1>2. item.interest \in Nat \cup {None}
  BY <1>1, InterestIsNat
<1>3. item \in EditPatches
  BY <1>2 DEF EditPatches
<1>4. request' = [request EXCEPT ![r] = item] /\ item.deposit = d /\ Open(d)
  BY DEF ReadForEdit, Active
<1> HIDE DEF item
<1>5. TypeOK'
  BY <1>3, <1>4 DEF ReadForEdit, money, workers, Typed, TypeOK
<1>6. RefersToOpen'
  BY <1>3, <1>4 DEF ReadForEdit, money, workers, Typed, TypeOK, RefersToOpen, Open
<1> QED
  BY <1>5, <1>6 DEF Typed

LEMMA ReadForSettlementTyped ==
  ASSUME Typed, NEW d \in Deposits, NEW r \in Requests, NEW target \in Wallets,
         NEW isEarly \in BOOLEAN, ReadForSettlement(r, d, target, isEarly)
  PROVE  Typed'
PROOF
<1> DEFINE item == [op |-> "settle", deposit |-> d, target |-> target, isEarly |-> isEarly,
                    principal |-> deposit[d].principal,
                    interest |-> IF isEarly
                                 THEN TermInterest(deposit[d].principal, NonTermRate)
                                 ELSE deposit[d].interest]
<1>1. deposit[d].interest \in Nat /\ deposit[d].principal \in Nat
  BY RowTypes DEF Typed, ReadForSettlement, Active, DepositRows
<1>2. item.interest \in Nat
  BY <1>1, InterestIsNat
<1>3. item \in SettlementRequests
  BY <1>1, <1>2 DEF SettlementRequests
<1>4. request' = [request EXCEPT ![r] = item] /\ item.deposit = d /\ Open(d)
  BY DEF ReadForSettlement, Active
<1> HIDE DEF item
<1>5. TypeOK'
  BY <1>3, <1>4 DEF ReadForSettlement, money, workers, Typed, TypeOK
<1>6. RefersToOpen'
  BY <1>3, <1>4 DEF ReadForSettlement, money, workers, Typed, TypeOK, RefersToOpen, Open
<1> QED
  BY <1>5, <1>6 DEF Typed

LEMMA FinishEditTyped ==
  ASSUME Typed, NEW r \in Requests, FinishEdit(r)
  PROVE  Typed' /\ \A e \in Deposits : Open(e) => deposit'[e] # None
PROOF
<1>1. request[r] \in EditPatches
  BY RequestTypes DEF Typed, FinishEdit
<1>2. PICK d \in Deposits : d = request[r].deposit
  BY <1>1 DEF EditPatches
<1>3. Open(d) /\ deposit[d] \in DepositRows
  BY <1>2, RowTypes DEF Typed, RefersToOpen, FinishEdit
<1> DEFINE patch == request[r].patch
           row == [deposit[d] EXCEPT
                     !.method = Patched(patch.method, @),
                     !.target = IF patch.target = "disconnect" THEN None
                                ELSE Patched(patch.target, @),
                     !.rate = Patched(patch.rate, @),
                     !.interest = Patched(request[r].interest, @)]
<1>4. deposit' = [deposit EXCEPT ![d] = row]
  BY <1>2 DEF FinishEdit, Typed, TypeOK
<1>5. patch \in PatchFields /\ request[r].interest \in Nat \cup {None}
  BY <1>1, PatchesAssumption DEF EditPatches
<1>6. row \in DepositRows
  <2>1. patch.method \in Methods \cup {None} /\ patch.rate \in Rates \cup {None}
        /\ patch.target \in Wallets \cup {"disconnect", None}
    BY <1>5 DEF PatchFields
  <2>2. /\ Patched(patch.method, deposit[d].method) \in Methods
        /\ Patched(patch.rate, deposit[d].rate) \in Rates
        /\ Patched(request[r].interest, deposit[d].interest) \in Nat
        /\ patch.target # "disconnect" =>
              Patched(patch.target, deposit[d].target) \in Wallets \cup {None}
    BY <1>3, <1>5, <2>1 DEF DepositRows, Patched
  <2> HIDE DEF patch
  <2> QED
    BY <1>3, <2>2 DEF DepositRows
<1> HIDE DEF row
<1>7. TypeOK'
  <2>1. deposit' \in [Deposits -> DepositRows \cup {None}]
    BY <1>4, <1>6 DEF Typed, TypeOK
  <2>2. request' \in [Requests -> EditPatches \cup SettlementRequests \cup {None}]
    BY DEF FinishEdit, Typed, TypeOK
  <2> QED
    BY <2>1, <2>2 DEF FinishEdit, money, workers, Typed, TypeOK
<1>8. \A e \in Deposits : Open(e) => deposit'[e] # None
  BY <1>4, <1>6, NoneAssumption DEF Typed, TypeOK, Open
<1>9. RefersToOpen'
  BY <1>8, StillRefers DEF FinishEdit, money, workers, Typed, TypeOK
<1> QED
  BY <1>7, <1>8, <1>9 DEF Typed

(* What a step may do with rows and money.                                 *)
RowsTyped ==
  /\ wallet' \in [Wallets -> WalletRows] /\ book' \in [Deposits -> WalletRows]
  /\ deposit' \in [Deposits -> DepositRows \cup {None}]
  /\ log' \in [Deposits -> Seq(LogRows)]
  /\ \A d \in Deposits : IF Open(d) THEN deposit'[d] # None ELSE log'[d] = log[d]

LEMMA LogTyped ==
  ASSUME Typed, NEW d \in Deposits, Open(d), NEW interest \in Nat, NEW action \in Methods,
         log' = Logged(d, interest, action)
  PROVE  /\ log' \in [Deposits -> Seq(LogRows)]
         /\ \A e \in Deposits : ~Open(e) => log'[e] = log[e]
PROOF
<1>1. TypeOK
  BY DEF Typed
<1> QED
  BY <1>1, LoggedLog

LEMMA SettleTyped ==
  ASSUME Typed, NEW d \in Deposits, Open(d), NEW target \in Wallets, NEW principal \in Nat,
         NEW interest \in Nat, NEW isEarly \in BOOLEAN,
         Settle(d, target, principal, interest, isEarly)
  PROVE  RowsTyped
PROOF
<1>1. principal + interest \in Int /\ wallet[target].balance + (principal + interest) >= 0
  BY RowTypes DEF Typed, WalletRows
<1>2. wallet' \in [Wallets -> WalletRows]
  BY <1>1, CreditedWallets DEF Settle, Typed
<1>3. book' \in [Deposits -> WalletRows]
  <2>1. [balance |-> 0, isArchived |-> TRUE] \in WalletRows
    BY DEF WalletRows
  <2> QED
    BY <2>1 DEF Settle, Typed, TypeOK
<1>4. /\ deposit' \in [Deposits -> DepositRows \cup {None}]
      /\ \A e \in Deposits : Open(e) => deposit'[e] # None
  <2> DEFINE row == [deposit[d] EXCEPT !.status = IF isEarly THEN "EARLY_WITHDRAWN" ELSE "SETTLED"]
  <2>1. row \in DepositRows /\ row # None
    BY RowTypes, NoneAssumption DEF Typed, DepositRows, Settled
  <2>2. deposit' = [deposit EXCEPT ![d] = row]
    BY DEF Settle, Typed, TypeOK
  <2> HIDE DEF row
  <2> QED
    BY <2>1, <2>2 DEF Typed, TypeOK, Open
<1>5. /\ log' \in [Deposits -> Seq(LogRows)]
      /\ \A e \in Deposits : ~Open(e) => log'[e] = log[e]
  <2>1. log' = Logged(d, interest, "SETTLE_TO_WALLET") /\ "SETTLE_TO_WALLET" \in Methods
    BY DEF Settle, Methods
  <2> QED
    BY <2>1, LogTyped
<1> QED
  BY <1>2, <1>3, <1>4, <1>5 DEF RowsTyped

LEMMA NextTermTyped ==
  ASSUME Typed, NEW d \in Deposits, Open(d), NEW row \in DepositRows,
         NEW oldPrincipal \in Nat, NEW newPrincipal \in Nat,
         deposit' = NextTerm(d, row, oldPrincipal, newPrincipal)
  PROVE  /\ deposit' \in [Deposits -> DepositRows \cup {None}]
         /\ \A e \in Deposits : Open(e) => deposit'[e] # None
PROOF
<1> DEFINE next == [deposit[d] EXCEPT !.principal = newPrincipal,
                      !.interest = TermInterest(oldPrincipal, row.rate),
                      !.matures = row.matures + 1, !.reminded = FALSE]
<1>1. TermInterest(oldPrincipal, row.rate) \in Nat /\ row.matures + 1 \in Int
  BY InterestIsNat DEF DepositRows
<1>2. next \in DepositRows
  BY <1>1, RowTypes DEF Typed, DepositRows
<1>3. deposit' = [deposit EXCEPT ![d] = next]
  BY DEF NextTerm, Typed, TypeOK
<1> HIDE DEF next
<1> QED
  BY <1>2, <1>3, NoneAssumption DEF Typed, TypeOK, Open

LEMMA BookTyped ==
  ASSUME Typed, NEW d \in Deposits, NEW n \in Nat
  PROVE  [book EXCEPT ![d].balance = n] \in [Deposits -> WalletRows]
PROOF
<1>1. [book[d] EXCEPT !.balance = n] \in WalletRows
  BY RowTypes DEF Typed, WalletRows
<1>2. [book EXCEPT ![d].balance = n] = [book EXCEPT ![d] = [book[d] EXCEPT !.balance = n]]
  BY DEF Typed, TypeOK
<1> QED
  BY <1>1, <1>2 DEF Typed, TypeOK

LEMMA RollOverTyped ==
  ASSUME Typed, NEW d \in Deposits, Open(d), NEW row \in DepositRows,
         RollOverAll(d, row) \/ RollOverPrincipal(d, row)
  PROVE  RowsTyped
PROOF
<1>1. row.principal \in Nat /\ row.interest \in Nat /\ row.principal + row.interest \in Nat
  BY DEF DepositRows
<1>2. deposit[d].principal \in Nat /\ deposit[d].target \in Wallets \cup {None}
  BY RowTypes DEF Typed, DepositRows
<1>3. CASE RollOverAll(d, row)
  <2>1. book' \in [Deposits -> WalletRows] /\ wallet' \in [Wallets -> WalletRows]
    BY <1>1, <1>3, BookTyped DEF RollOverAll, Typed, TypeOK
  <2>2. /\ deposit' \in [Deposits -> DepositRows \cup {None}]
        /\ \A e \in Deposits : Open(e) => deposit'[e] # None
    BY <1>1, <1>3, NextTermTyped DEF RollOverAll
  <2>3. /\ log' \in [Deposits -> Seq(LogRows)]
        /\ \A e \in Deposits : ~Open(e) => log'[e] = log[e]
    <3>1. log' = Logged(d, row.interest, "ROLLOVER_ALL") /\ "ROLLOVER_ALL" \in Methods
      BY <1>3 DEF RollOverAll, Methods
    <3> QED
      BY <1>1, <3>1, LogTyped
  <2> QED
    BY <2>1, <2>2, <2>3 DEF RowsTyped
<1>4. CASE RollOverPrincipal(d, row)
  <2> DEFINE target == deposit[d].target
             newPrincipal == IF target = None /\ row.interest > 0
                             THEN row.principal + row.interest ELSE deposit[d].principal
  <2>1. newPrincipal \in Nat
    BY <1>1, <1>2
  <2>2. wallet' \in [Wallets -> WalletRows]
    <3>1. CASE target = None
      BY <1>4, <3>1 DEF RollOverPrincipal, Typed, TypeOK
    <3>2. CASE target # None
      <4>1. target \in Wallets /\ row.interest \in Int
            /\ wallet[target].balance + row.interest >= 0
        BY <1>1, <1>2, <3>2, RowTypes DEF Typed, WalletRows
      <4> QED
        BY <1>4, <3>2, <4>1, CreditedWallets DEF RollOverPrincipal, Typed
    <3> QED
      BY <3>1, <3>2
  <2>3. book' \in [Deposits -> WalletRows]
    <3>1. book' = book \/ book' = [book EXCEPT ![d].balance = newPrincipal]
      BY <1>4 DEF RollOverPrincipal
    <3>2. book \in [Deposits -> WalletRows]
      BY DEF Typed, TypeOK
    <3>3. [book EXCEPT ![d].balance = newPrincipal] \in [Deposits -> WalletRows]
      <4> HIDE DEF newPrincipal
      <4> QED
        BY <2>1, BookTyped
    <3> QED
      BY ONLY <3>1, <3>2, <3>3
  <2>4. /\ deposit' \in [Deposits -> DepositRows \cup {None}]
        /\ \A e \in Deposits : Open(e) => deposit'[e] # None
    <3>1. deposit' = NextTerm(d, row, row.principal, newPrincipal)
      BY <1>4 DEF RollOverPrincipal
    <3> HIDE DEF newPrincipal
    <3> QED
      BY <1>1, <2>1, <3>1, NextTermTyped
  <2>5. /\ log' \in [Deposits -> Seq(LogRows)]
        /\ \A e \in Deposits : ~Open(e) => log'[e] = log[e]
    <3>1. log' = Logged(d, row.interest, "ROLLOVER_PRINCIPAL") /\ "ROLLOVER_PRINCIPAL" \in Methods
      BY <1>4 DEF RollOverPrincipal, Methods
    <3> QED
      BY <1>1, <3>1, LogTyped
  <2> QED
    BY <2>2, <2>3, <2>4, <2>5 DEF RowsTyped
<1> QED
  BY <1>3, <1>4

LEMMA RemindTyped ==
  ASSUME Typed, NEW d \in Deposits, Open(d), RemindOwner(d) PROVE RowsTyped
PROOF
<1> DEFINE row == [deposit[d] EXCEPT !.reminded = TRUE]
<1>1. row \in DepositRows /\ row # None
  BY RowTypes, NoneAssumption DEF Typed, DepositRows
<1>2. deposit' = [deposit EXCEPT ![d] = row]
  BY DEF RemindOwner, Typed, TypeOK
<1> HIDE DEF row
<1> QED
  BY <1>1, <1>2 DEF RemindOwner, money, Typed, TypeOK, RowsTyped, Open

LEMMA QuietTyped ==
  ASSUME Typed, UNCHANGED <<deposit, log, money>> PROVE RowsTyped
BY DEF money, Typed, TypeOK, RowsTyped, Open

LEMMA FinishSettlementTyped ==
  ASSUME Typed, NEW r \in Requests, FinishSettlement(r) PROVE Typed' /\ RowsTyped
PROOF
<1>1. request[r] \in SettlementRequests
  BY RequestTypes DEF Typed, FinishSettlement
<1>2. Open(request[r].deposit)
  BY DEF Typed, RefersToOpen, FinishSettlement
<1>3. RowsTyped
  BY <1>1, <1>2, SettleTyped, QuietTyped DEF FinishSettlement, SettlementRequests
<1>4. TypeOK'
  BY <1>3 DEF FinishSettlement, RowsTyped, workers, Typed, TypeOK
<1>5. RefersToOpen'
  BY <1>3, StillRefers DEF FinishSettlement, RowsTyped, workers, Typed, TypeOK
<1> QED
  BY <1>3, <1>4, <1>5 DEF Typed

LEMMA ProcessItemTyped ==
  ASSUME Typed, NEW k \in Workers, pass[k] # None, NEW item \in pass[k], ProcessItem(k, item)
  PROVE  Typed' /\ RowsTyped
PROOF
<1>1. item \in Items /\ Open(item.deposit)
  BY RowTypes DEF Typed, RefersToOpen
<1>2. item.deposit \in Deposits /\ item.row \in DepositRows
  BY <1>1 DEF Items
<1>3. RowsTyped
  <2>1. CASE UNCHANGED <<deposit, log, money>>
    BY <2>1, QuietTyped
  <2>2. CASE RollOverAll(item.deposit, item.row) \/ RollOverPrincipal(item.deposit, item.row)
    BY <1>1, <1>2, <2>2, RollOverTyped
  <2>3. CASE RemindOwner(item.deposit)
    BY <1>1, <1>2, <2>3, RemindTyped
  <2>4. CASE /\ item.row.target # None
             /\ Settle(item.deposit, item.row.target, item.row.principal, item.row.interest, FALSE)
    <3>1. item.row.target \in Wallets /\ item.row.principal \in Nat /\ item.row.interest \in Nat
      BY <1>2, <2>4 DEF DepositRows
    <3> QED
      BY <1>1, <1>2, <2>4, <3>1, SettleTyped
  <2> QED
    BY <2>1, <2>2, <2>3, <2>4 DEF ProcessItem
<1>4. pass' \in [Workers -> {None} \cup SUBSET Items]
  BY DEF ProcessItem, Typed, TypeOK
<1>5. TypeOK'
  BY <1>3, <1>4 DEF ProcessItem, RowsTyped, Typed, TypeOK
<1>6. \A j \in Workers : pass'[j] # None => pass[j] # None /\ pass'[j] \subseteq pass[j]
  BY DEF ProcessItem, Typed, TypeOK
<1>7. RefersToOpen'
  BY <1>3, <1>6, StillRefers DEF ProcessItem, RowsTyped
<1> QED
  BY <1>3, <1>5, <1>7 DEF Typed

LEMMA TransferTyped ==
  ASSUME Typed, NEW w \in Wallets, NEW d \in Deposits, NEW amount \in Amounts,
         Transfer(w, d, amount)
  PROVE  Typed'
PROOF
<1>1. amount \in Nat /\ -amount \in Int /\ wallet[w].balance + (-amount) >= 0
  BY AmountsAssumption, RowTypes DEF Transfer, Typed, WalletRows
<1>2. wallet' \in [Wallets -> WalletRows]
  BY <1>1, CreditedWallets DEF Transfer, Typed
<1>3. book[d].balance + amount \in Nat
  BY <1>1, RowTypes DEF Typed, WalletRows
<1>4. book' \in [Deposits -> WalletRows]
  <2>1. book' = [book EXCEPT ![d].balance = book[d].balance + amount]
    BY DEF Transfer, Typed, TypeOK
  <2> QED
    BY <1>3, <2>1, BookTyped
<1>5. TypeOK'
  BY <1>2, <1>4 DEF Transfer, workers, Typed, TypeOK
<1>6. RefersToOpen'
  BY StillRefers DEF Transfer, workers, Open
<1> QED
  BY <1>5, <1>6 DEF Typed

LEMMA WalletStepsTyped ==
  ASSUME Typed,
         (\E w \in Wallets : ArchiveOrRestoreWallet(w)) \/ (\E d \in Deposits : RestoreBook(d))
  PROVE  Typed'
PROOF
<1>1. RefersToOpen'
  BY StillRefers DEF ArchiveOrRestoreWallet, RestoreBook, workers, Open
<1>2. CASE \E w \in Wallets : ArchiveOrRestoreWallet(w)
  <2>1. PICK w \in Wallets : ArchiveOrRestoreWallet(w)
    BY <1>2
  <2> DEFINE row == [wallet[w] EXCEPT !.isArchived = ~wallet[w].isArchived]
  <2>2. row \in WalletRows
    BY RowTypes DEF Typed, WalletRows
  <2>3. wallet' = [wallet EXCEPT ![w] = row]
    BY <2>1 DEF ArchiveOrRestoreWallet, Typed, TypeOK
  <2> HIDE DEF row
  <2> QED
    BY <1>1, <2>1, <2>2, <2>3 DEF ArchiveOrRestoreWallet, workers, Typed, TypeOK
<1>3. CASE \E d \in Deposits : RestoreBook(d)
  <2>1. PICK d \in Deposits : RestoreBook(d)
    BY <1>3
  <2> DEFINE row == [book[d] EXCEPT !.isArchived = FALSE]
  <2>2. row \in WalletRows
    BY RowTypes DEF Typed, WalletRows
  <2>3. book' = [book EXCEPT ![d] = row]
    BY <2>1 DEF RestoreBook, Typed, TypeOK
  <2> HIDE DEF row
  <2> QED
    BY <1>1, <2>1, <2>2, <2>3 DEF RestoreBook, workers, Typed, TypeOK
<1> QED
  BY <1>2, <1>3

LEMMA StartPassTyped == ASSUME Typed, NEW k \in Workers, StartPass(k) PROVE Typed'
PROOF
<1> DEFINE list == {[deposit |-> d, row |-> deposit[d]] : d \in {e \in Deposits : Due(e)}}
<1>1. \A d \in Deposits : Due(d) => deposit[d] \in DepositRows /\ Open(d)
  BY RowTypes DEF Typed, Due, Active
<1>2. list \in SUBSET Items
  BY <1>1 DEF Items
<1>3. \A item \in list : Open(item.deposit)
  BY <1>1
<1>4. pass' = [pass EXCEPT ![k] = list]
  BY DEF StartPass
<1> HIDE DEF list
<1>5. TypeOK'
  BY <1>2, <1>4 DEF StartPass, money, Typed, TypeOK
<1>6. RefersToOpen'
  BY <1>3, <1>4 DEF StartPass, Typed, TypeOK, RefersToOpen, Open
<1> QED
  BY <1>5, <1>6 DEF Typed

(* Steps of the worker, the lock and the calendar that write no row.       *)
WorkerSteps ==
  \/ \E k \in Workers : \/ pass[k] # None /\ \E item \in pass[k] : FailItem(k, item)
                        \/ EndPass(k)
                        \/ Crash(k)
  \/ ExpireLock
  \/ LoseLock
  \/ Tick

LEMMA WorkerStepsTyped == ASSUME Typed, WorkerSteps PROVE Typed'
PROOF
<1>1. UNCHANGED <<wallet, deposit, book, log, request>>
  BY DEF WorkerSteps, FailItem, EndPass, Crash, ExpireLock, LoseLock, Tick, money, workers
<1>2. \A k \in Workers : pass'[k] # None => pass[k] # None /\ pass'[k] \subseteq pass[k]
  BY DEF WorkerSteps, FailItem, EndPass, Crash, ExpireLock, LoseLock, Tick, workers,
         Typed, TypeOK
<1>3. pass' \in [Workers -> {None} \cup SUBSET Items]
  BY DEF WorkerSteps, FailItem, EndPass, Crash, ExpireLock, LoseLock, Tick, workers,
         Typed, TypeOK
<1>4. lock' \in Workers \cup {None}
  BY DEF WorkerSteps, FailItem, EndPass, Crash, ExpireLock, LoseLock, Tick, workers,
         Typed, TypeOK
<1>5. today' \in 0..LastDay
  BY BoundsAssumption
     DEF WorkerSteps, FailItem, EndPass, Crash, ExpireLock, LoseLock, Tick, workers,
         Typed, TypeOK
<1>6. failures' \in 0..MaxFailures
  BY BoundsAssumption
     DEF WorkerSteps, FailItem, EndPass, Crash, ExpireLock, LoseLock, Tick, workers,
         Typed, TypeOK
<1>7. overlapped' \in BOOLEAN
  BY DEF WorkerSteps, FailItem, EndPass, Crash, ExpireLock, LoseLock, Tick, workers,
         Typed, TypeOK
<1>8. TypeOK'
  BY <1>1, <1>3, <1>4, <1>5, <1>6, <1>7 DEF Typed, TypeOK
<1>9. RefersToOpen'
  BY <1>1, <1>2, StillRefers DEF Open
<1> QED
  BY <1>8, <1>9 DEF Typed

(* The steps of the specification, one by one.                             *)
LEMMA NextCases ==
  ASSUME Next
  PROVE  \/ \E d \in Deposits, source, target \in Wallets \cup {None}, principal \in Amounts,
               rate \in Rates, method \in Methods, start \in StartDays :
              OpenDeposit(d, source, target, principal, rate, method, start)
         \/ \E d \in Deposits, r \in Requests, patch \in Patches : ReadForEdit(r, d, patch)
         \/ \E d \in Deposits, r \in Requests, target \in Wallets, isEarly \in BOOLEAN :
              ReadForSettlement(r, d, target, isEarly)
         \/ \E w \in Wallets, d \in Deposits, amount \in Amounts : Transfer(w, d, amount)
         \/ \E w \in Wallets : ArchiveOrRestoreWallet(w)
         \/ \E d \in Deposits : RestoreBook(d)
         \/ \E r \in Requests : FinishEdit(r)
         \/ \E r \in Requests : FinishSettlement(r)
         \/ \E k \in Workers : StartPass(k)
         \/ \E k \in Workers : pass[k] # None /\ \E item \in pass[k] : ProcessItem(k, item)
         \/ WorkerSteps
PROOF
<1>1. CASE \E d \in Deposits : OwnerStep(d)
  BY <1>1 DEF OwnerStep
<1>2. CASE \E r \in Requests : RequestStep(r)
  BY <1>2 DEF RequestStep
<1>3. CASE \E k \in Workers : WorkerStep(k) \/ WorkerFailure(k)
  BY <1>3 DEF WorkerStep, WorkerFailure, WorkerSteps
<1> QED
  BY <1>1, <1>2, <1>3 DEF Next, WorkerSteps

LEMMA TypedStep == Typed /\ [Next]_vars => Typed'
PROOF
<1> SUFFICES ASSUME Typed, [Next]_vars PROVE Typed'
  OBVIOUS
<1>1. CASE UNCHANGED vars
  BY <1>1 DEF vars, Typed, TypeOK, RefersToOpen, Open
<1>2. CASE Next
  BY <1>2, NextCases, OpenTyped, ReadForEditTyped, ReadForSettlementTyped, TransferTyped,
     WalletStepsTyped, FinishEditTyped, FinishSettlementTyped, StartPassTyped,
     ProcessItemTyped, WorkerStepsTyped
<1> QED
  BY <1>1, <1>2

-----------------------------------------------------------------------------
(* What a step may do to a deposit: nothing that matters here, open it,    *)
(* settle it, or roll it over from the row an item was made of.            *)

Kept(d) ==
  /\ log'[d] = log[d]
  /\ IF Open(d) THEN /\ deposit'[d] # None
                     /\ deposit'[d].status = deposit[d].status
                     /\ deposit'[d].matures = deposit[d].matures
     ELSE deposit'[d] = None

Opened(d) == ~Open(d) /\ log'[d] = log[d]

Ended(d) ==
  /\ Active(d)
  /\ deposit'[d].status \in Settled
  /\ deposit'[d].matures = deposit[d].matures
  /\ \E interest \in Nat : log'[d] = Append(log[d], LogRow(d, interest, "SETTLE_TO_WALLET"))

RolledOver(d, row) ==
  /\ Open(d) /\ deposit'[d] # None
  /\ deposit'[d].status = deposit[d].status
  /\ deposit'[d].matures = row.matures + 1
  /\ \E interest \in Nat, action \in Rollovers :
       log'[d] = Append(log[d], LogRow(d, interest, action))

Others(d) == \A e \in Deposits \ {d} : Kept(e)

LEMMA SettleEffect ==
  ASSUME Typed, NEW d \in Deposits, Open(d), NEW target \in Wallets, NEW principal \in Nat,
         NEW interest \in Nat, NEW isEarly \in BOOLEAN,
         Settle(d, target, principal, interest, isEarly)
  PROVE  Ended(d) /\ Others(d)
PROOF
<1> DEFINE row == [deposit[d] EXCEPT !.status = IF isEarly THEN "EARLY_WITHDRAWN" ELSE "SETTLED"]
<1>1. deposit[d] \in DepositRows
  BY RowTypes DEF Typed
<1>2. Active(d)
  BY <1>1 DEF Settle, CanSettle, Active, DepositRows
<1>3. row.status \in Settled /\ row.matures = deposit[d].matures
  BY <1>1 DEF DepositRows, Settled
<1>4. deposit' = [deposit EXCEPT ![d] = row]
  BY DEF Settle, Typed, TypeOK
<1> HIDE DEF row
<1>5. /\ log'[d] = Append(log[d], LogRow(d, interest, "SETTLE_TO_WALLET"))
      /\ \A e \in Deposits \ {d} : log'[e] = log[e]
  BY LoggedLog DEF Settle, Typed, Methods
<1>6. Ended(d)
  BY <1>2, <1>3, <1>4, <1>5 DEF Ended, Typed, TypeOK
<1>7. Others(d)
  BY <1>4, <1>5 DEF Others, Kept, Open, Typed, TypeOK
<1> QED
  BY <1>6, <1>7

LEMMA RollOverEffect ==
  ASSUME Typed, NEW d \in Deposits, Open(d), NEW row \in DepositRows,
         RollOverAll(d, row) \/ RollOverPrincipal(d, row)
  PROVE  RolledOver(d, row) /\ Others(d)
PROOF
<1>1. PICK old, new : deposit' = NextTerm(d, row, old, new)
  BY DEF RollOverAll, RollOverPrincipal
<1> DEFINE next == [deposit[d] EXCEPT !.principal = new,
                      !.interest = TermInterest(old, row.rate),
                      !.matures = row.matures + 1, !.reminded = FALSE]
<1>2. deposit[d] \in DepositRows
  BY RowTypes DEF Typed
<1>3. next.status = deposit[d].status /\ next.matures = row.matures + 1
  BY <1>2 DEF DepositRows
<1>4. deposit' = [deposit EXCEPT ![d] = next]
  BY <1>1 DEF NextTerm, Typed, TypeOK
<1> HIDE DEF next
<1>5. PICK action \in Rollovers : log' = Logged(d, row.interest, action)
  BY DEF RollOverAll, RollOverPrincipal, Rollovers
<1>6. row.interest \in Nat /\ action \in Methods
  BY DEF DepositRows, Rollovers, Methods
<1>7. /\ log'[d] = Append(log[d], LogRow(d, row.interest, action))
      /\ \A e \in Deposits \ {d} : log'[e] = log[e]
  BY <1>5, <1>6, LoggedLog DEF Typed
<1>8. deposit'[d] # None
  BY RollOverTyped DEF RowsTyped
<1>9. RolledOver(d, row)
  BY <1>3, <1>4, <1>5, <1>6, <1>7, <1>8 DEF RolledOver, Typed, TypeOK
<1>10. Others(d)
  BY <1>4, <1>7 DEF Others, Kept, Open, Typed, TypeOK
<1> QED
  BY <1>9, <1>10

(* The effect of one item of a list, and of one request.                   *)
ItemEffect(item) ==
  /\ Others(item.deposit)
  /\ Kept(item.deposit) \/ Ended(item.deposit) \/ RolledOver(item.deposit, item.row)

LEMMA ProcessItemEffect ==
  ASSUME Typed, NEW k \in Workers, pass[k] # None, NEW item \in pass[k], ProcessItem(k, item)
  PROVE  ItemEffect(item)
PROOF
<1>1. item \in Items /\ Open(item.deposit)
  BY RowTypes DEF Typed, RefersToOpen
<1>2. item.deposit \in Deposits /\ item.row \in DepositRows
  BY <1>1 DEF Items
<1>3. CASE UNCHANGED <<deposit, log, money>>
  BY <1>2, <1>3 DEF ItemEffect, Others, Kept, Open
<1>4. CASE RollOverAll(item.deposit, item.row) \/ RollOverPrincipal(item.deposit, item.row)
  BY <1>1, <1>2, <1>4, RollOverEffect DEF ItemEffect
<1>5. CASE RemindOwner(item.deposit)
  <2>1. PICK d \in Deposits : d = item.deposit
    BY <1>2
  <2> DEFINE row == [deposit[d] EXCEPT !.reminded = TRUE]
  <2>2. deposit[d] \in DepositRows /\ Open(d)
    BY <1>1, <2>1, RowTypes DEF Typed
  <2>3. /\ row \in DepositRows /\ row # None
        /\ row.status = deposit[d].status /\ row.matures = deposit[d].matures
    BY <2>2, NoneAssumption DEF DepositRows
  <2>4. deposit' = [deposit EXCEPT ![d] = row] /\ log' = log
    BY <1>5, <2>1 DEF RemindOwner, Typed, TypeOK
  <2> HIDE DEF row
  <2>5. Kept(d) /\ Others(d)
    BY <2>2, <2>3, <2>4 DEF Others, Kept, Open, Typed, TypeOK
  <2> QED
    BY <2>1, <2>5 DEF ItemEffect
<1>6. CASE /\ item.row.target # None
           /\ Settle(item.deposit, item.row.target, item.row.principal, item.row.interest, FALSE)
  <2>1. item.row.target \in Wallets /\ item.row.principal \in Nat /\ item.row.interest \in Nat
    BY <1>2, <1>6 DEF DepositRows
  <2> QED
    BY <1>1, <1>2, <1>6, <2>1, SettleEffect DEF ItemEffect
<1> QED
  BY <1>3, <1>4, <1>5, <1>6 DEF ProcessItem

LEMMA FinishSettlementEffect ==
  ASSUME Typed, NEW r \in Requests, FinishSettlement(r)
  PROVE  \A d \in Deposits : Kept(d) \/ Ended(d)
PROOF
<1>1. request[r] \in SettlementRequests
  BY RequestTypes DEF Typed, FinishSettlement
<1>2. Open(request[r].deposit)
  BY DEF Typed, RefersToOpen, FinishSettlement
<1>3. CASE UNCHANGED <<deposit, log, money>>
  BY <1>3 DEF Kept, Open
<1>4. CASE Settle(request[r].deposit, request[r].target, request[r].principal,
                  request[r].interest, request[r].isEarly)
  BY <1>1, <1>2, <1>4, SettleEffect DEF SettlementRequests, Others
<1> QED
  BY <1>3, <1>4 DEF FinishSettlement

LEMMA FinishEditEffect ==
  ASSUME Typed, NEW r \in Requests, FinishEdit(r)
  PROVE  \A d \in Deposits : Kept(d)
PROOF
<1>1. request[r] \in EditPatches
  BY RequestTypes DEF Typed, FinishEdit
<1>2. PICK d \in Deposits : d = request[r].deposit
  BY <1>1 DEF EditPatches
<1>3. Open(d) /\ deposit[d] \in DepositRows
  BY <1>2, RowTypes DEF Typed, RefersToOpen, FinishEdit
<1> DEFINE patch == request[r].patch
           row == [deposit[d] EXCEPT
                     !.method = Patched(patch.method, @),
                     !.target = IF patch.target = "disconnect" THEN None
                                ELSE Patched(patch.target, @),
                     !.rate = Patched(patch.rate, @),
                     !.interest = Patched(request[r].interest, @)]
<1>4. deposit' = [deposit EXCEPT ![d] = row] /\ log' = log
  BY <1>2 DEF FinishEdit, money, workers, Typed, TypeOK
<1>5. row.status = deposit[d].status /\ row.matures = deposit[d].matures
  BY <1>3 DEF DepositRows
<1> HIDE DEF row
<1>6. deposit'[d] # None
  BY <1>2, <1>3, FinishEditTyped DEF EditPatches
<1> QED
  BY <1>3, <1>4, <1>5, <1>6 DEF Kept, Open, Typed, TypeOK

-----------------------------------------------------------------------------
(* The rows of a log before and after a row is written.                    *)

LEMMA SameRows ==
  ASSUME NEW d, NEW actions, log'[d] = log[d]
  PROVE  RowsWith(d, actions)' = RowsWith(d, actions)
BY DEF RowsWith

LEMMA AppendedRows ==
  ASSUME Typed, NEW d \in Deposits, NEW interest \in Nat, NEW action \in Methods, NEW actions,
         Open(d), log'[d] = Append(log[d], LogRow(d, interest, action))
  PROVE  /\ log'[d][Len(log[d]) + 1].ends = deposit[d].matures
         /\ \A i \in DOMAIN log[d] : i # Len(log[d]) + 1 /\ log'[d][i] = log[d][i]
         /\ action \notin actions => RowsWith(d, actions)' = RowsWith(d, actions)
         /\ action \in actions =>
              RowsWith(d, actions)' = RowsWith(d, actions) \cup {Len(log[d]) + 1}
PROOF
<1> DEFINE n == Len(log[d]) + 1
           row == LogRow(d, interest, action)
<1>1. log[d] \in Seq(LogRows) /\ row \in LogRows
  BY RowTypes DEF Typed, TypeOK, LogRow, LogRows, DepositRows
<1>2. row.action = action /\ row.ends = deposit[d].matures
  BY DEF LogRow
<1> HIDE DEF row
<1>3. /\ Len(log[d]) \in Nat /\ DOMAIN log[d] = 1..Len(log[d])
      /\ DOMAIN Append(log[d], row) = 1..n
      /\ Append(log[d], row)[n] = row
      /\ \A i \in 1..Len(log[d]) : Append(log[d], row)[i] = log[d][i]
  BY <1>1
<1>4. log'[d] = Append(log[d], row)
  BY DEF row
<1>5. \A i \in DOMAIN log[d] : i # n /\ log'[d][i] = log[d][i]
  BY <1>3, <1>4
<1>6. RowsWith(d, actions)' = {i \in DOMAIN log'[d] : log'[d][i].action \in actions}
  BY DEF RowsWith
<1>7. \A i : i \in RowsWith(d, actions)' <=>
              i \in RowsWith(d, actions) \cup (IF action \in actions THEN {n} ELSE {})
  BY <1>2, <1>3, <1>4, <1>6 DEF RowsWith
<1>8. /\ action \notin actions => RowsWith(d, actions)' = RowsWith(d, actions)
      /\ action \in actions => RowsWith(d, actions)' = RowsWith(d, actions) \cup {n}
  BY <1>7
<1> QED
  BY <1>2, <1>3, <1>4, <1>5, <1>8

(* A deposit is settled once: who settles it finds it active.              *)
LEMMA SettledOnceKept ==
  ASSUME Typed, NEW d \in Deposits, SettledOnce(d),
         Kept(d) \/ Opened(d) \/ Ended(d) \/ \E row : RolledOver(d, row)
  PROVE  SettledOnce(d)'
PROOF
<1>1. CASE Kept(d)
  BY <1>1, SameRows DEF Kept, SettledOnce, Settlements, Active, Open
<1>2. CASE Opened(d)
  <2>1. RowsWith(d, {"SETTLE_TO_WALLET"})' = RowsWith(d, {"SETTLE_TO_WALLET"})
    BY <1>2, SameRows DEF Opened
  <2>2. RowsWith(d, {"SETTLE_TO_WALLET"}) = {}
    BY <1>2 DEF Opened, Typed, RefersToOpen, RowsWith
  <2> QED
    BY <2>1, <2>2 DEF SettledOnce, Settlements
<1>3. CASE Ended(d)
  <2>1. Open(d) /\ RowsWith(d, {"SETTLE_TO_WALLET"}) = {}
    BY <1>3 DEF Ended, SettledOnce, Settlements, Active
  <2>2. RowsWith(d, {"SETTLE_TO_WALLET"})' = {Len(log[d]) + 1}
    <3>1. PICK interest \in Nat : log'[d] = Append(log[d], LogRow(d, interest, "SETTLE_TO_WALLET"))
      BY <1>3 DEF Ended
    <3>2. "SETTLE_TO_WALLET" \in Methods
      BY DEF Methods
    <3> QED
      BY <2>1, <3>1, <3>2, AppendedRows
  <2>3. ~(Active(d)')
    BY <1>3 DEF Ended, Active, Settled
  <2> QED
    BY <2>2, <2>3 DEF SettledOnce, Settlements
<1>4. CASE \E row : RolledOver(d, row)
  <2>1. PICK row : RolledOver(d, row)
    BY <1>4
  <2> PICK interest \in Nat, action \in Rollovers :
          log'[d] = Append(log[d], LogRow(d, interest, action))
    BY <2>1 DEF RolledOver
  <2>2. action \in Methods /\ action \notin {"SETTLE_TO_WALLET"}
    BY DEF Rollovers, Methods
  <2>3. Open(d)
    BY <2>1 DEF RolledOver
  <2>4. RowsWith(d, {"SETTLE_TO_WALLET"})' = RowsWith(d, {"SETTLE_TO_WALLET"})
    BY <2>1, <2>2, <2>3, AppendedRows
  <2>5. Active(d)' => Active(d)
    BY <2>1 DEF RolledOver, Active, Open
  <2> QED
    BY <2>4, <2>5 DEF SettledOnce, Settlements
<1> QED
  BY <1>1, <1>2, <1>3, <1>4

(* The term an item names has ended and is the one that runs.              *)
LEMMA RolledInOrderKept ==
  ASSUME Typed, NEW d \in Deposits, RolledInOrder(d), today' \in Int, today' >= today,
         \/ Kept(d) \/ Opened(d) \/ Ended(d)
         \/ \E row : /\ RolledOver(d, row)
                     /\ row.matures = deposit[d].matures /\ row.matures <= today
  PROVE  RolledInOrder(d)'
PROOF
<1>1. today \in Int /\ (Open(d) => deposit[d].matures \in Int)
  BY RowTypes DEF Typed, TypeOK, DepositRows
<1>2. \A i \in DOMAIN log[d] : log[d][i].ends \in Int
  <2>1. log[d] \in Seq(LogRows)
    BY DEF Typed, TypeOK
  <2>2. \A i \in DOMAIN log[d] : log[d][i] \in LogRows
    BY <2>1
  <2> QED
    BY <2>2 DEF LogRows
<1>3. CASE \/ Kept(d) /\ Open(d)
           \/ Ended(d)
  <2>1. RowsWith(d, Rollovers)' = RowsWith(d, Rollovers)
    <3>1. CASE Kept(d)
      BY <3>1, SameRows DEF Kept
    <3>2. CASE Ended(d)
      <4>1. PICK interest \in Nat : log'[d] = Append(log[d], LogRow(d, interest, "SETTLE_TO_WALLET"))
        BY <3>2 DEF Ended
      <4>2. "SETTLE_TO_WALLET" \in Methods /\ "SETTLE_TO_WALLET" \notin Rollovers /\ Open(d)
        BY <3>2 DEF Methods, Rollovers, Ended, Active
      <4> QED
        BY <4>1, <4>2, AppendedRows
    <3> QED
      BY <1>3, <3>1, <3>2
  <2>2. \A i \in DOMAIN log[d] : log'[d][i] = log[d][i]
    <3>1. CASE Kept(d)
      BY <3>1 DEF Kept
    <3>2. CASE Ended(d)
      <4>1. PICK interest \in Nat : log'[d] = Append(log[d], LogRow(d, interest, "SETTLE_TO_WALLET"))
        BY <3>2 DEF Ended
      <4>2. "SETTLE_TO_WALLET" \in Methods /\ Open(d)
        BY <3>2 DEF Methods, Ended, Active
      <4> QED
        BY <4>1, <4>2, AppendedRows
    <3> QED
      BY <1>3, <3>1, <3>2
  <2>3. deposit'[d].matures = deposit[d].matures
    BY <1>3 DEF Kept, Ended
  <2>4. \A i \in RowsWith(d, Rollovers) : i \in DOMAIN log[d] /\ log[d][i].ends \in Int
    BY <1>2 DEF RowsWith
  <2> QED
    BY <1>1, <2>1, <2>2, <2>3, <2>4 DEF RolledInOrder
<1>4. CASE ~Open(d) /\ (Kept(d) \/ Opened(d))
  <2>1. RowsWith(d, Rollovers)' = RowsWith(d, Rollovers)
    BY <1>4, SameRows DEF Kept, Opened
  <2>2. RowsWith(d, Rollovers) = {}
    BY <1>4 DEF Typed, RefersToOpen, RowsWith
  <2> QED
    BY <2>1, <2>2 DEF RolledInOrder
<1>5. CASE \E row : /\ RolledOver(d, row)
                   /\ row.matures = deposit[d].matures /\ row.matures <= today
  <2>1. PICK row : /\ RolledOver(d, row)
                   /\ row.matures = deposit[d].matures /\ row.matures <= today
    BY <1>5
  <2> PICK interest \in Nat, action \in Rollovers :
          log'[d] = Append(log[d], LogRow(d, interest, action))
    BY <2>1 DEF RolledOver
  <2>2. action \in Methods /\ Open(d)
    BY <2>1 DEF Rollovers, Methods, RolledOver
  <2> PICK n : n = Len(log[d]) + 1
    OBVIOUS
  <2> PICK rows : rows = RowsWith(d, Rollovers)
    OBVIOUS
  <2>3. RowsWith(d, Rollovers)' = rows \cup {n}
    BY <2>2, AppendedRows
  <2>4. log'[d][n].ends = deposit[d].matures
    BY <2>2, AppendedRows
  <2>5. \A i \in DOMAIN log[d] : i # n /\ log'[d][i] = log[d][i]
    BY <2>2, AppendedRows
  <2>7. deposit'[d].matures = deposit[d].matures + 1 /\ deposit[d].matures <= today
    BY <2>1 DEF RolledOver
  <2>8. \A i \in rows :
          /\ log[d][i].ends \in Int /\ log[d][i].ends < deposit[d].matures
          /\ log[d][i].ends <= today /\ i # n /\ log'[d][i].ends = log[d][i].ends
    BY <1>2, <2>5 DEF RowsWith, RolledInOrder
  <2>9. ASSUME NEW i \in RowsWith(d, Rollovers)'
        PROVE  log'[d][i].ends < deposit'[d].matures /\ log'[d][i].ends <= today'
    <3>1. CASE i = n
      BY <1>1, <2>2, <2>4, <2>7, <3>1
    <3>2. CASE i \in rows
      <4>1. log[d][i].ends \in Int /\ log[d][i].ends < deposit[d].matures
        BY <2>8, <3>2
      <4>2. log'[d][i].ends = log[d][i].ends /\ log[d][i].ends <= today
        BY <2>8, <3>2
      <4>3. log'[d][i].ends < deposit'[d].matures
        BY <1>1, <2>2, <2>7, <4>1, <4>2
      <4>4. log'[d][i].ends <= today'
        BY <1>1, <4>1, <4>2
      <4> QED
        BY <4>3, <4>4
    <3> QED
      BY <2>3, <3>1, <3>2
  <2>10. ASSUME NEW i \in RowsWith(d, Rollovers)', NEW j \in RowsWith(d, Rollovers)',
                log'[d][i].ends = log'[d][j].ends
         PROVE  i = j
    <3>1. CASE i \in rows /\ j \in rows
      BY <2>8, <2>10, <3>1 DEF RolledInOrder
    <3>2. CASE i = n /\ j \in rows
      <4>1. log[d][j].ends \in Int /\ log[d][j].ends < deposit[d].matures
        BY <2>8, <3>2
      <4>2. log'[d][j].ends = log[d][j].ends /\ log'[d][i].ends = deposit[d].matures
        BY <2>4, <2>8, <3>2
      <4>3. deposit[d].matures = log[d][j].ends
        BY <2>10, <4>2
      <4> QED
        BY <4>1, <4>3
    <3>3. CASE j = n /\ i \in rows
      <4>1. log[d][i].ends \in Int /\ log[d][i].ends < deposit[d].matures
        BY <2>8, <3>3
      <4>2. log'[d][i].ends = log[d][i].ends /\ log'[d][j].ends = deposit[d].matures
        BY <2>4, <2>8, <3>3
      <4>3. deposit[d].matures = log[d][i].ends
        BY <2>10, <4>2
      <4> QED
        BY <4>1, <4>3
    <3> QED
      BY <2>3, <3>1, <3>2, <3>3
  <2> QED
    BY <2>9, <2>10 DEF RolledInOrder
<1> QED
  BY <1>3, <1>4, <1>5 DEF Opened

-----------------------------------------------------------------------------
(* The list of a pass, while no lock is lost under one.                    *)

(* Lists only get shorter, and the terms of the deposits they name run on. *)
LEMMA OnePassKept ==
  ASSUME Typed, OnePass, lock' = lock, today' \in Int, today' >= today,
         NEW open, open = {d \in Deposits : Open(d)},
         \A k \in Workers : pass'[k] # None => pass[k] # None /\ pass'[k] \subseteq pass[k],
         \A k \in Workers : pass'[k] # None => \A item \in pass'[k] :
           item.deposit \in open => deposit'[item.deposit].matures = deposit[item.deposit].matures
  PROVE  OnePass'
PROOF
<1>1. today \in Int
  BY DEF Typed, TypeOK
<1>2. \A k \in Workers : pass[k] # None => \A item \in pass[k] :
        item.deposit \in open /\ item.row.matures \in Int
  BY RowTypes DEF Typed, RefersToOpen, Items, DepositRows
<1>3. ASSUME NEW k \in Workers, pass'[k] # None
      PROVE  /\ lock' = k
             /\ \A x, y \in pass'[k] : x.deposit = y.deposit => x = y
  BY <1>3 DEF OnePass
<1>4. ASSUME NEW k \in Workers, pass'[k] # None, NEW item \in pass'[k]
      PROVE  /\ item.row.matures = deposit'[item.deposit].matures
             /\ item.row.matures <= today'
  <2>1. pass[k] # None /\ item \in pass[k]
    BY <1>4
  <2>2. /\ item.row.matures = deposit[item.deposit].matures
        /\ item.row.matures <= today
    BY <2>1 DEF OnePass
  <2>3. item.deposit \in open /\ item.row.matures \in Int
    BY <1>2, <2>1
  <2>4. deposit'[item.deposit].matures = deposit[item.deposit].matures
    BY <1>4, <2>3
  <2> QED
    BY <1>1, <2>2, <2>3, <2>4
<1> QED
  BY <1>3, <1>4 DEF OnePass

LEMMA StartPassOrderly ==
  ASSUME Typed, NEW k \in Workers, StartPass(k), OnePass PROVE OnePass'
PROOF
<1>1. \A j \in Workers : pass[j] = None
  BY NoneAssumption DEF StartPass, CanStart, OnePass
<1> DEFINE list == {[deposit |-> d, row |-> deposit[d]] : d \in {e \in Deposits : Due(e)}}
<1>2. \A item \in list : /\ item.row.matures = deposit[item.deposit].matures
                         /\ item.row.matures <= today
  BY DEF Due
<1>3. \A x, y \in list : x.deposit = y.deposit => x = y
  OBVIOUS
<1>4. pass' = [pass EXCEPT ![k] = list] /\ lock' = k /\ deposit' = deposit /\ today' = today
  BY DEF StartPass
<1> HIDE DEF list
<1>5. \A j \in Workers : pass'[j] # None => j = k /\ pass'[j] = list
  BY <1>1, <1>4 DEF Typed, TypeOK
<1> QED
  BY <1>2, <1>3, <1>4, <1>5 DEF OnePass

(* An item is worked off by the only worker that has a list, and is the    *)
(* only one of its deposit.                                                *)
LEMMA ProcessItemOrderly ==
  ASSUME Typed, NEW k \in Workers, pass[k] # None, NEW item \in pass[k],
         ProcessItem(k, item), OnePass
  PROVE  OnePass'
PROOF
<1>1. UNCHANGED <<today, lock>> /\ pass' = [pass EXCEPT ![k] = pass[k] \ {item}]
  BY DEF ProcessItem
<1>2. \A j \in Workers : pass'[j] # None => pass[j] # None /\ pass'[j] \subseteq pass[j]
  BY <1>1 DEF Typed, TypeOK
<1>3. \A j \in Workers : pass'[j] # None => j = k
  BY <1>2 DEF OnePass
<1>4. \A x \in pass'[k] : x \in pass[k] /\ x # item
  BY <1>1 DEF Typed, TypeOK
<1>5. \A x \in pass'[k] : x.deposit # item.deposit
  BY <1>4 DEF OnePass
<1>6. \A d \in Deposits \ {item.deposit} :
        Open(d) => deposit'[d].matures = deposit[d].matures
  BY ProcessItemEffect DEF ItemEffect, Others, Kept
<1>7. PICK open : open = {d \in Deposits : Open(d)}
  OBVIOUS
<1>8. \A j \in Workers : pass'[j] # None => \A x \in pass'[j] :
        x.deposit \in open => deposit'[x.deposit].matures = deposit[x.deposit].matures
  BY <1>3, <1>5, <1>6, <1>7
<1>9. today' \in Int /\ today' >= today
  BY <1>1 DEF Typed, TypeOK
<1>10. lock' = lock
  BY <1>1
<1> QED
  BY <1>2, <1>7, <1>8, <1>9, <1>10, OnePassKept

(* The other steps of the worker and the lock.                             *)
LEMMA WorkerStepsOrderly ==
  ASSUME Typed, WorkerSteps, OnePass, ~overlapped' PROVE OnePass'
PROOF
<1>1. UNCHANGED deposit /\ today' \in Int /\ today' >= today
  BY DEF WorkerSteps, FailItem, EndPass, Crash, ExpireLock, LoseLock, Tick, workers,
         Typed, TypeOK
<1>2. \A k \in Workers : pass'[k] # None => pass[k] # None /\ pass'[k] \subseteq pass[k]
  BY DEF WorkerSteps, FailItem, EndPass, Crash, ExpireLock, LoseLock, Tick, workers,
         Typed, TypeOK
<1>3. CASE lock' = lock
  BY <1>1, <1>2, <1>3, OnePassKept
<1>4. CASE \E k \in Workers : EndPass(k)
  <2>1. PICK k \in Workers : EndPass(k)
    BY <1>4
  <2>2. pass[k] # None => lock = k
    BY DEF OnePass
  <2>3. \A j \in Workers \ {k} : pass'[j] = pass[j]
    BY <2>1 DEF EndPass, Typed, TypeOK
  <2>4. pass'[k] = None
    BY <2>1 DEF EndPass, Typed, TypeOK
  <2>5. CASE pass[k] = None
    BY <2>1, <2>5, <1>3, <1>1, <1>2 DEF EndPass, OnePass, Typed, TypeOK
  <2>6. CASE pass[k] # None
    <3>1. \A j \in Workers : pass'[j] = None
      BY <2>2, <2>3, <2>4, <2>6 DEF OnePass
    <3> QED
      BY <3>1 DEF OnePass
  <2> QED
    BY <2>5, <2>6
<1>5. CASE ExpireLock
  <2>1. \A j \in Workers : pass'[j] = None
    BY <1>5 DEF ExpireLock, OnePass
  <2> QED
    BY <2>1 DEF OnePass
<1> QED
  <2>1. WorkerSteps => \/ lock' = lock
                       \/ \E k \in Workers : EndPass(k)
                       \/ ExpireLock
                       \/ overlapped' = TRUE
    BY DEF WorkerSteps, FailItem, Crash, LoseLock, Tick, workers
  <2> QED
    BY <1>3, <1>4, <1>5, <2>1

-----------------------------------------------------------------------------
(* The steps together.                                                     *)

(* What a step may do to the deposits.                                     *)
Effect ==
  \A d \in Deposits :
    \/ Kept(d) \/ Opened(d) \/ Ended(d)
    \/ \E k \in Workers : pass[k] # None /\ \E item \in pass[k] :
         item.deposit = d /\ RolledOver(d, item.row)

LEMMA NothingKept ==
  ASSUME UNCHANGED <<deposit, log>> PROVE \A d \in Deposits : Kept(d)
BY DEF Kept, Open

LEMMA NextEffect == ASSUME Typed, Next PROVE Effect
PROOF
<1>1. CASE \E d \in Deposits, source, target \in Wallets \cup {None}, principal \in Amounts,
              rate \in Rates, method \in Methods, start \in StartDays :
             OpenDeposit(d, source, target, principal, rate, method, start)
  <2>1. PICK d \in Deposits : /\ ~Open(d) /\ log' = log
                            /\ \A e \in Deposits \ {d} : deposit'[e] = deposit[e]
    BY <1>1 DEF OpenDeposit, Typed, TypeOK
  <2> QED
    BY <2>1 DEF Effect, Opened, Kept, Open
<1>2. CASE \E r \in Requests : FinishEdit(r)
  BY <1>2, FinishEditEffect DEF Effect
<1>3. CASE \E r \in Requests : FinishSettlement(r)
  BY <1>3, FinishSettlementEffect DEF Effect
<1>4. CASE \E k \in Workers : pass[k] # None /\ \E item \in pass[k] : ProcessItem(k, item)
  <2> PICK k \in Workers : pass[k] # None /\ \E item \in pass[k] : ProcessItem(k, item)
    BY <1>4
  <2>1. PICK item \in pass[k] : ProcessItem(k, item)
    OBVIOUS
  <2>2. ItemEffect(item)
    BY <2>1, ProcessItemEffect
  <2>3. ASSUME NEW d \in Deposits
        PROVE  \/ Kept(d) \/ Ended(d)
               \/ item.deposit = d /\ RolledOver(d, item.row)
    BY <2>2 DEF ItemEffect, Others
  <2> QED
    BY <2>1, <2>3 DEF Effect
<1>5. CASE UNCHANGED <<deposit, log>>
  BY <1>5, NothingKept DEF Effect
<1>6. WorkerSteps => UNCHANGED <<deposit, log>>
  BY DEF WorkerSteps, FailItem, EndPass, Crash, ExpireLock, LoseLock, Tick
<1> QED
  BY <1>1, <1>2, <1>3, <1>4, <1>5, <1>6, NextCases
     DEF ReadForEdit, ReadForSettlement, Transfer, ArchiveOrRestoreWallet, RestoreBook, StartPass

LEMMA NextTime ==
  ASSUME Typed, [Next]_vars
  PROVE  today' \in Int /\ today' >= today /\ (overlapped => overlapped')
PROOF
<1>1. CASE UNCHANGED vars
  BY <1>1 DEF vars, Typed, TypeOK
<1>2. CASE WorkerSteps
  <2>1. today' = today \/ today' = today + 1
    BY <1>2 DEF WorkerSteps, FailItem, EndPass, Crash, ExpireLock, LoseLock, Tick
  <2>2. overlapped' = overlapped \/ overlapped' = TRUE
    BY <1>2 DEF WorkerSteps, FailItem, EndPass, Crash, ExpireLock, LoseLock, Tick, workers
  <2>3. today' \in Int /\ today' >= today
    BY <2>1 DEF Typed, TypeOK
  <2> QED
    BY <2>2, <2>3
<1>3. CASE UNCHANGED <<today, overlapped>>
  <2>1. today' \in Int /\ today' >= today
    BY <1>3 DEF Typed, TypeOK
  <2> QED
    BY <1>3, <2>1
<1>4. CASE Next
  <2>1. /\ \A d \in Deposits, source, target \in Wallets \cup {None}, principal \in Amounts,
              rate \in Rates, method \in Methods, start \in StartDays :
             OpenDeposit(d, source, target, principal, rate, method, start) =>
               UNCHANGED <<today, overlapped>>
        /\ \A d \in Deposits, r \in Requests, patch \in Patches :
             ReadForEdit(r, d, patch) => UNCHANGED <<today, overlapped>>
        /\ \A d \in Deposits, r \in Requests, target \in Wallets, isEarly \in BOOLEAN :
             ReadForSettlement(r, d, target, isEarly) => UNCHANGED <<today, overlapped>>
    BY DEF OpenDeposit, ReadForEdit, ReadForSettlement, workers
  <2>2. /\ \A w \in Wallets, d \in Deposits, amount \in Amounts :
             Transfer(w, d, amount) => UNCHANGED <<today, overlapped>>
        /\ \A w \in Wallets : ArchiveOrRestoreWallet(w) => UNCHANGED <<today, overlapped>>
        /\ \A d \in Deposits : RestoreBook(d) => UNCHANGED <<today, overlapped>>
    BY DEF Transfer, ArchiveOrRestoreWallet, RestoreBook, workers
  <2>3. /\ \A r \in Requests : FinishEdit(r) \/ FinishSettlement(r) =>
             UNCHANGED <<today, overlapped>>
        /\ \A k \in Workers : StartPass(k) => UNCHANGED <<today, overlapped>>
        /\ \A k \in Workers : \A item :
             ProcessItem(k, item) => UNCHANGED <<today, overlapped>>
    BY DEF FinishEdit, FinishSettlement, StartPass, ProcessItem, workers
  <2> QED
    BY <1>2, <1>3, <1>4, <2>1, <2>2, <2>3, NextCases
<1> QED
  BY <1>1, <1>4

LEMMA OnePassStep == ASSUME Typed, Next, OnePass, ~overlapped' PROVE OnePass'
PROOF
<1>1. today' \in Int /\ today' >= today
  BY NextTime
<1>2. CASE \E k \in Workers : StartPass(k)
  BY <1>2, StartPassOrderly
<1>3. CASE \E k \in Workers : pass[k] # None /\ \E item \in pass[k] : ProcessItem(k, item)
  BY <1>3, ProcessItemOrderly
<1>4. CASE WorkerSteps
  BY <1>4, WorkerStepsOrderly
<1>5. CASE /\ UNCHANGED <<pass, lock>>
           /\ \A d \in Deposits : Kept(d) \/ Opened(d) \/ Ended(d)
  <2>1. PICK open : open = {d \in Deposits : Open(d)}
    OBVIOUS
  <2>2. \A d \in open : deposit'[d].matures = deposit[d].matures
    BY <1>5, <2>1 DEF Kept, Opened, Ended
  <2> QED
    BY <1>1, <1>5, <2>1, <2>2, OnePassKept
<1>6. CASE \E d \in Deposits, source, target \in Wallets \cup {None}, principal \in Amounts,
              rate \in Rates, method \in Methods, start \in StartDays :
             OpenDeposit(d, source, target, principal, rate, method, start)
  <2>1. PICK d \in Deposits : /\ ~Open(d) /\ log' = log
                            /\ \A e \in Deposits \ {d} : deposit'[e] = deposit[e]
    BY <1>6 DEF OpenDeposit, Typed, TypeOK
  <2> QED
    BY <1>5, <1>6, <2>1 DEF OpenDeposit, workers, Opened, Kept, Open
<1>7. CASE \E r \in Requests : FinishEdit(r)
  BY <1>5, <1>7, FinishEditEffect DEF FinishEdit, workers
<1>8. CASE \E r \in Requests : FinishSettlement(r)
  BY <1>5, <1>8, FinishSettlementEffect DEF FinishSettlement, workers
<1>9. CASE UNCHANGED <<deposit, log, pass, lock>>
  BY <1>5, <1>9, NothingKept
<1> QED
  BY <1>2, <1>3, <1>4, <1>6, <1>7, <1>8, <1>9, NextCases
     DEF ReadForEdit, ReadForSettlement, Transfer, ArchiveOrRestoreWallet, RestoreBook, workers

LEMMA InvariantInit == Init => IInv
PROOF
<1> SUFFICES ASSUME Init PROVE IInv
  OBVIOUS
<1>1. Typed
  BY InitTyped
<1>2. \A d \in Deposits : ~Active(d) /\ log[d] = <<>>
  BY DEF Init, Active, Open
<1>3. \A d \in Deposits : RowsWith(d, {"SETTLE_TO_WALLET"}) = {} /\ RowsWith(d, Rollovers) = {}
  BY <1>2 DEF RowsWith
<1>4. \A d \in Deposits : SettledOnce(d) /\ RolledInOrder(d)
  BY <1>2, <1>3 DEF SettledOnce, Settlements, RolledInOrder
<1>5. OnePass
  BY DEF Init, OnePass
<1> QED
  BY <1>1, <1>4, <1>5 DEF IInv, Orderly

LEMMA InvariantStep == IInv /\ [Next]_vars => IInv'
PROOF
<1> SUFFICES ASSUME IInv, [Next]_vars PROVE IInv'
  OBVIOUS
<1>1. Typed /\ \A d \in Deposits : SettledOnce(d)
  BY DEF IInv
<1>2. Typed'
  BY <1>1, TypedStep
<1>3. CASE UNCHANGED vars
  <2>1. \A d \in Deposits : SettledOnce(d)'
    BY <1>1, <1>3, NothingKept, SettledOnceKept DEF vars
  <2>2. Orderly'
    BY <1>3 DEF IInv, vars, Orderly, OnePass, RolledInOrder, RowsWith
  <2> QED
    BY <1>2, <2>1, <2>2 DEF IInv
<1>4. CASE Next
  <2>1. Effect
    BY <1>1, <1>4, NextEffect
  <2>2. \A d \in Deposits : SettledOnce(d)'
    BY <1>1, <2>1, SettledOnceKept DEF Effect
  <2>3. ASSUME ~overlapped' PROVE OnePass' /\ \A d \in Deposits : RolledInOrder(d)'
    <3>1. OnePass /\ \A d \in Deposits : RolledInOrder(d)
      BY <1>1, <1>4, <2>3, NextTime DEF IInv, Orderly
    <3>2. \A k \in Workers : pass[k] # None => \A item \in pass[k] :
            /\ item.row.matures = deposit[item.deposit].matures
            /\ item.row.matures <= today
      BY <3>1 DEF OnePass
    <3>3. \A d \in Deposits :
            \/ Kept(d) \/ Opened(d) \/ Ended(d)
            \/ \E row : /\ RolledOver(d, row)
                        /\ row.matures = deposit[d].matures /\ row.matures <= today
      BY <2>1, <3>2 DEF Effect
    <3>4. \A d \in Deposits : RolledInOrder(d)'
      BY <1>1, <1>4, <3>1, <3>3, NextTime, RolledInOrderKept
    <3>5. OnePass'
      BY <1>1, <1>4, <2>3, <3>1, OnePassStep
    <3> QED
      BY <3>4, <3>5
  <2> QED
    BY <1>2, <2>2, <2>3 DEF IInv, Orderly
<1> QED
  BY <1>3, <1>4

LEMMA Invariance == Spec => []IInv
BY InvariantInit, InvariantStep, PTL DEF Spec

-----------------------------------------------------------------------------
(* Rows, snapshots and lists keep their types; no wallet and no book of a  *)
(* deposit is ever overdrawn.                                              *)
THEOREM TypeCorrect == Spec => []TypeOK
PROOF
<1>1. IInv => TypeOK
  BY DEF IInv, Typed
<1> QED
  BY Invariance, <1>1, PTL

(* No term of a deposit ends twice: it is settled at most once, whatever   *)
(* requests and passes do to each other, and while no lock is lost under a *)
(* pass every term is rolled over at most once and only when it has ended. *)
THEOREM TermsEndOnceHolds == Spec => []TermsEndOnce
PROOF
<1>1. IInv => TermsEndOnce
  <2> SUFFICES ASSUME IInv PROVE TermsEndOnce
    OBVIOUS
  <2>1. PaidBackOnce
    <3>1. ASSUME NEW d \in Deposits
          PROVE  Cardinality(RowsWith(d, {"SETTLE_TO_WALLET"})) <= 1
      <4> PICK S : S = RowsWith(d, {"SETTLE_TO_WALLET"})
        OBVIOUS
      <4>1. \A i, j \in S : i = j
        BY DEF IInv, SettledOnce, Settlements
      <4>2. S = {} \/ \E i : S = {i}
        BY <4>1
      <4>3. Cardinality(S) \in {0, 1}
        BY <4>2, FS_EmptySet, FS_Singleton
      <4> QED
        BY <4>3
    <3> QED
      BY <3>1 DEF PaidBackOnce
  <2>2. TermsRolledOnce
    BY DEF IInv, Orderly, RolledInOrder, TermsRolledOnce
  <2> QED
    BY <2>1, <2>2 DEF TermsEndOnce
<1> QED
  BY Invariance, <1>1, PTL

(* Whatever was read before, the step that settles a deposit pays into a   *)
(* wallet that is not archived.                                            *)
LEMMA SettlingPaysActive ==
  ASSUME Typed, NEW d \in Deposits, Open(d), NEW target \in Wallets, NEW principal \in Nat,
         NEW interest \in Nat, NEW isEarly \in BOOLEAN,
         Settle(d, target, principal, interest, isEarly), NEW w \in Wallets
  PROVE  wallet'[w].balance > wallet[w].balance => ~wallet[w].isArchived
PROOF
<1>1. principal + interest \in Int /\ wallet[target].balance + (principal + interest) >= 0
  BY RowTypes DEF Typed, WalletRows
<1>2. \A v \in Wallets \ {target} : wallet'[v] = wallet[v]
  BY <1>1, CreditedWallets DEF Settle, Typed
<1>3. wallet[w].balance \in Nat
  BY RowTypes DEF Typed, WalletRows
<1>4. CASE w = target
  BY <1>4 DEF Settle, CanSettle
<1>5. CASE w # target
  BY <1>2, <1>3, <1>5
<1> QED
  BY <1>4, <1>5

LEMMA OnlySettlingPays ==
  ASSUME Typed, Next, NEW d \in Deposits, Active(d), deposit'[d].status \in Settled,
         NEW w \in Wallets
  PROVE  wallet'[w].balance > wallet[w].balance => ~wallet[w].isArchived
PROOF
<1>1. Open(d) /\ deposit[d].status \notin Settled
  BY DEF Active, Settled
<1>2. ~Kept(d) /\ ~Opened(d) /\ \A row : ~RolledOver(d, row)
  BY <1>1 DEF Kept, Opened, RolledOver
<1>3. CASE \E r \in Requests : FinishSettlement(r)
  <2>1. PICK r \in Requests : FinishSettlement(r)
    BY <1>3
  <2>2. request[r] \in SettlementRequests
    BY <2>1, RequestTypes DEF Typed, FinishSettlement
  <2>3. Open(request[r].deposit)
    BY <2>1 DEF Typed, RefersToOpen, FinishSettlement
  <2>4. Settle(request[r].deposit, request[r].target, request[r].principal,
               request[r].interest, request[r].isEarly)
    BY <1>2, <2>1, NothingKept DEF FinishSettlement
  <2> QED
    BY <2>2, <2>3, <2>4, SettlingPaysActive DEF SettlementRequests
<1>4. CASE \E k \in Workers : pass[k] # None /\ \E item \in pass[k] : ProcessItem(k, item)
  <2> PICK k \in Workers : pass[k] # None /\ \E item \in pass[k] : ProcessItem(k, item)
    BY <1>4
  <2>1. PICK item \in pass[k] : ProcessItem(k, item)
    OBVIOUS
  <2>2. item \in Items /\ Open(item.deposit)
    BY RowTypes DEF Typed, RefersToOpen
  <2>3. item.deposit \in Deposits /\ item.row \in DepositRows
    BY <2>2 DEF Items
  <2>4. ~UNCHANGED <<deposit, log>>
    BY <1>2, NothingKept
  <2>5. ~(RollOverAll(item.deposit, item.row) \/ RollOverPrincipal(item.deposit, item.row))
    BY <1>2, <2>2, <2>3, RollOverEffect DEF Others
  <2>6. ~RemindOwner(item.deposit)
    <3>1. ASSUME RemindOwner(item.deposit) PROVE deposit'[d].status = deposit[d].status
      BY <3>1, <1>1, RowTypes DEF RemindOwner, Typed, TypeOK, DepositRows
    <3> QED
      BY <1>1, <3>1
  <2>7. /\ item.row.target # None
        /\ Settle(item.deposit, item.row.target, item.row.principal, item.row.interest, FALSE)
    BY <2>1, <2>4, <2>5, <2>6 DEF ProcessItem
  <2>8. item.row.target \in Wallets /\ item.row.principal \in Nat /\ item.row.interest \in Nat
    BY <2>3, <2>7 DEF DepositRows
  <2> QED
    BY <2>2, <2>3, <2>7, <2>8, SettlingPaysActive
<1>5. CASE ~(/\ ~\E r \in Requests : FinishSettlement(r)
             /\ ~\E k \in Workers : pass[k] # None /\ \E item \in pass[k] : ProcessItem(k, item))
  BY <1>3, <1>4, <1>5
<1>6. CASE /\ ~\E r \in Requests : FinishSettlement(r)
           /\ ~\E k \in Workers : pass[k] # None /\ \E item \in pass[k] : ProcessItem(k, item)
  <2>1. ASSUME NEW r \in Requests, FinishEdit(r) PROVE FALSE
    BY <1>2, <2>1, FinishEditEffect
  <2>2. ~UNCHANGED <<deposit, log>>
    BY <1>2, NothingKept
  <2>3. WorkerSteps => UNCHANGED <<deposit, log>>
    BY DEF WorkerSteps, FailItem, EndPass, Crash, ExpireLock, LoseLock, Tick
  <2>4. PICK e \in Deposits : \E source, target \in Wallets \cup {None}, principal \in Amounts,
                             rate \in Rates, method \in Methods, start \in StartDays :
                            OpenDeposit(e, source, target, principal, rate, method, start)
    BY <1>6, <2>1, <2>2, <2>3, NextCases
       DEF ReadForEdit, ReadForSettlement, Transfer, ArchiveOrRestoreWallet, RestoreBook,
           StartPass
  <2>5. ~Open(e) /\ (d # e => deposit'[d] = deposit[d])
    BY <2>4 DEF OpenDeposit, Typed, TypeOK
  <2> QED
    BY <1>1, <2>5
<1> QED
  BY <1>5, <1>6

(* A settlement never pays into a wallet that is archived by then.         *)
THEOREM PaidIntoActiveWalletHolds == Spec => PaidIntoActiveWallet
PROOF
<1> DEFINE Paid == \A d \in Deposits :
                     Active(d) /\ deposit'[d].status \in Settled =>
                       \A w \in Wallets :
                         wallet'[w].balance > wallet[w].balance => ~wallet[w].isArchived
<1>1. IInv /\ [Next]_vars => [Paid]_vars
  BY OnlySettlingPays DEF IInv
<1> QED
  BY Invariance, <1>1, PTL DEF Spec, PaidIntoActiveWallet
=============================================================================
