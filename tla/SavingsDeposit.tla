---------------------------- MODULE SavingsDeposit ----------------------------
(***************************************************************************)
(* Term deposits: modules/savings, the maturity worker of                  *)
(* savings-reminder.service.ts and the lock it runs under.                 *)
(*                                                                         *)
(* A deposit has a wallet of its own, its book.  The owner opens, edits    *)
(* and settles deposits; the worker rolls over or settles those that have  *)
(* matured.  Both read a deposit first and write it later in a database    *)
(* transaction that checks again only part of what was read, so a request  *)
(* and an item of a worker's list are snapshots, one action reads and      *)
(* another one writes.                                                     *)
(*                                                                         *)
(* Abstracted: one owner, terms of one unit of time, texts, categories,    *)
(* notifications, the 3-day notice.  Interest is principal times rate.      *)
(***************************************************************************)
EXTENDS Integers, FiniteSets, FiniteSetsExt, Sequences

CONSTANTS Wallets,    \* ordinary wallets of the owner
          Deposits,   \* deposits, each with its book
          Workers,    \* processes that run the notification worker
          Requests,   \* requests of the owner that may be in flight
          Amounts,    \* principals, and amounts moved into a book
          Rates,      \* interest rates, per term and unit of money
          StartDays,  \* the start dates the owner may give, past ones too
          NonTermRate,          \* the rate of an early withdrawal
          Patches,              \* what an edit may ask for
          InitialBalance,       \* what every ordinary wallet holds at first
          LastDay, MaxFailures, \* bounds: days; failed items, crashes, lost locks
          None

ASSUME AmountsAssumption  == Amounts \subseteq Nat \ {0}
ASSUME RatesAssumption    == Rates \cup {NonTermRate} \subseteq Nat
ASSUME BoundsAssumption ==
  InitialBalance \in Nat /\ LastDay \in Nat /\ MaxFailures \in Nat

Methods == {"ROLLOVER_ALL", "ROLLOVER_PRINCIPAL", "SETTLE_TO_WALLET"}
Settled == {"SETTLED", "EARLY_WITHDRAWN"}

(* The fields of an edit; None is a field the request does not have. *)
PatchFields ==
  [method : Methods \cup {None}, target : Wallets \cup {"disconnect", None},
   rate : Rates \cup {None}]

ASSUME StartAssumption   == StartDays \subseteq Int
ASSUME PatchesAssumption == Patches \subseteq PatchFields

DepositRows ==
  [status : {"ACTIVE"} \cup Settled, method : Methods,
   target : Wallets \cup {None}, principal : Nat, rate : Rates,
   interest : Nat, matures : Int, reminded : BOOLEAN]
WalletRows == [balance : Nat, isArchived : BOOLEAN]
LogRows    == [ends : Int, interest : Nat, action : Methods]
EditPatches ==
  [op : {"edit"}, deposit : Deposits, patch : Patches, interest : Nat \cup {None}]
SettlementRequests ==
  [op : {"settle"}, deposit : Deposits, target : Wallets, isEarly : BOOLEAN,
   principal : Nat, interest : Nat]
Items == [deposit : Deposits, row : DepositRows]

ASSUME NoneAssumption ==
  /\ None \notin Wallets \cup Workers \cup DepositRows
  /\ None \notin EditPatches \cup SettlementRequests

VARIABLES today,
          wallet,    \* wallet[w]: an ordinary wallet
          deposit,   \* deposit[d]: the row of deposit d, or None
          book,      \* book[d]: the savings wallet of deposit d
          log,       \* log[d]: the rollover log of d, oldest row first
          request,   \* request[r]: what a request has read, or None
          pass,      \* pass[k]: what is left of the list worker k read, or None
          lock,      \* the worker that holds the lock, or None
          overlapped,  \* auxiliary: a lock has been lost under a running pass
          failures   \* auxiliary: items and passes that have failed

vars == <<today, wallet, deposit, book, log, request, pass, lock, overlapped,
          failures>>

money   == <<wallet, book>>
workers == <<pass, lock, overlapped, failures>>

-----------------------------------------------------------------------------
(* calculateTermInterest, over a term or at the non-term rate. *)
TermInterest(principal, rate) == principal * rate

Open(d) == deposit[d] # None
Active(d) == Open(d) /\ deposit[d].status = "ACTIVE"

Credited(w, amount) == [wallet EXCEPT ![w].balance = @ + amount]

Logged(d, interest, action) ==
  [log EXCEPT ![d] = Append(@, [ends |-> deposit[d].matures,
                                interest |-> interest, action |-> action])]

-----------------------------------------------------------------------------
(* The owner. *)

(* create and createWithWalletAtomic.  Without a source wallet the money   *)
(* of the deposit comes from outside.  That the target wallet is active is *)
(* read before the transaction and may be stale.                           *)
OpenDeposit(d, source, target, principal, rate, method, start) ==
  /\ ~Open(d)
  /\ method # "ROLLOVER_ALL" => target # None
  /\ source # None => /\ ~wallet[source].isArchived
                      /\ wallet[source].balance >= principal
  /\ wallet' = IF source = None THEN wallet ELSE Credited(source, -principal)
  /\ book' = [book EXCEPT ![d] = [balance |-> principal, isArchived |-> FALSE]]
  /\ deposit' = [deposit EXCEPT ![d] =
       [status |-> "ACTIVE", method |-> method, target |-> target,
        principal |-> principal, rate |-> rate,
        interest |-> TermInterest(principal, rate), matures |-> start + 1,
        reminded |-> FALSE]]
  /\ UNCHANGED <<today, log, request, workers>>

(* update, as far as it reads.  A field that is None is absent from the    *)
(* request and stays as it is; "disconnect" takes the target wallet away.  *)
ReadForEdit(r, d, patch) ==
  /\ request[r] = None
  /\ Active(d)
  /\ patch.target \in Wallets => ~wallet[patch.target].isArchived
  /\ request' = [request EXCEPT ![r] =
       [op |-> "edit", deposit |-> d, patch |-> patch,
        interest |-> IF patch.rate = None THEN None
                     ELSE TermInterest(deposit[d].principal, patch.rate)]]
  /\ UNCHANGED <<today, deposit, log, money, workers>>

(* Mutant of Patched: an absent field overwrites the stored one. *)
Overwritten(field, stored) == field

Patched(field, stored) == IF field = None THEN stored ELSE field

(* update, as far as it writes: with no condition on the row. *)
FinishEdit(r) ==
  /\ request[r] # None
  /\ request[r].op = "edit"
  /\ LET patch == request[r].patch
         d == request[r].deposit
     IN  deposit' = [deposit EXCEPT
           ![d].method = Patched(patch.method, @),
           ![d].target = IF patch.target = "disconnect" THEN None
                         ELSE Patched(patch.target, @),
           ![d].rate = Patched(patch.rate, @),
           ![d].interest = Patched(request[r].interest, @)]
  /\ request' = [request EXCEPT ![r] = None]
  /\ UNCHANGED <<today, log, money, workers>>

(* settle, as far as it reads.  The settlement date is the owner's choice, *)
(* and with it whether the withdrawal is early.                            *)
ReadForSettlement(r, d, target, isEarly) ==
  /\ request[r] = None
  /\ Active(d)
  /\ ~wallet[target].isArchived
  /\ request' = [request EXCEPT ![r] =
       [op |-> "settle", deposit |-> d, target |-> target, isEarly |-> isEarly,
        principal |-> deposit[d].principal,
        interest |-> IF isEarly THEN TermInterest(deposit[d].principal, NonTermRate)
                     ELSE deposit[d].interest]]
  /\ UNCHANGED <<today, deposit, log, money, workers>>

(* Mutants of CanSettle: a check of the transaction is left out. *)
CanSettleAgain(d, target) == ~wallet[target].isArchived
CanSettleIntoAnything(d, target) == deposit[d].status \notin Settled

(* What executeSettlementAtomic checks again inside the transaction. *)
CanSettle(d, target) ==
  /\ deposit[d].status \notin Settled
  /\ ~wallet[target].isArchived

(* executeSettlementAtomic: pays out what was read, empties and archives   *)
(* the book whatever it holds.                                             *)
Settle(d, target, principal, interest, isEarly) ==
  /\ CanSettle(d, target)
  /\ wallet' = Credited(target, principal + interest)
  /\ book' = [book EXCEPT ![d] = [balance |-> 0, isArchived |-> TRUE]]
  /\ deposit' = [deposit EXCEPT ![d].status =
                   IF isEarly THEN "EARLY_WITHDRAWN" ELSE "SETTLED"]
  /\ log' = Logged(d, interest, "SETTLE_TO_WALLET")

FinishSettlement(r) ==
  /\ request[r] # None
  /\ request[r].op = "settle"
  /\ LET s == request[r]
     IN  \/ Settle(s.deposit, s.target, s.principal, s.interest, s.isEarly)
         \/ /\ ~CanSettle(s.deposit, s.target)
            /\ UNCHANGED <<deposit, log, money>>
  /\ request' = [request EXCEPT ![r] = None]
  /\ UNCHANGED <<today, workers>>

-----------------------------------------------------------------------------
(* What the owner may do with the wallets meanwhile: see module Ledger. *)

Transfer(w, d, amount) ==
  /\ Open(d)
  /\ ~wallet[w].isArchived /\ ~book[d].isArchived
  /\ wallet[w].balance >= amount
  /\ wallet' = Credited(w, -amount)
  /\ book' = [book EXCEPT ![d].balance = @ + amount]
  /\ UNCHANGED <<today, deposit, log, request, workers>>

ArchiveOrRestoreWallet(w) ==
  /\ wallet' = [wallet EXCEPT ![w].isArchived = ~@]
  /\ UNCHANGED <<today, deposit, book, log, request, workers>>

(* A book cannot be archived by hand, but an archived one can be restored. *)
RestoreBook(d) ==
  /\ Open(d)
  /\ book[d].isArchived
  /\ book' = [book EXCEPT ![d].isArchived = FALSE]
  /\ UNCHANGED <<today, wallet, deposit, log, request, workers>>

Tick == /\ today < LastDay
        /\ today' = today + 1
        /\ UNCHANGED <<deposit, log, request, money, workers>>

-----------------------------------------------------------------------------
(* The worker. *)

(* Mutant of Due: deposits that matured before this day only. *)
DueLate(d) == Active(d) /\ deposit[d].matures < today /\ ~deposit[d].reminded

(* findDueMaturityDeposits *)
Due(d) == Active(d) /\ deposit[d].matures <= today /\ ~deposit[d].reminded

(* tick and acquire: no pass of this process, and nobody holds the lock. *)
CanStart(k) == pass[k] = None /\ lock = None

StartPass(k) ==
  /\ CanStart(k)
  /\ lock' = k
  /\ pass' = [pass EXCEPT ![k] =
       {[deposit |-> d, row |-> deposit[d]] : d \in {e \in Deposits : Due(e)}}]
  /\ UNCHANGED <<today, deposit, log, request, money, overlapped, failures>>

(* The row of the next term.  Its interest is computed from the principal  *)
(* and the rate that were read.                                            *)
NextTerm(d, row, oldPrincipal, newPrincipal) ==
  [deposit EXCEPT ![d].principal = newPrincipal,
                  ![d].interest = TermInterest(oldPrincipal, row.rate),
                  ![d].matures = row.matures + 1,
                  ![d].reminded = FALSE]

(* executeRolloverAtomic, ROLLOVER_ALL: nothing that was read is checked   *)
(* again.                                                                  *)
RollOverAll(d, row) ==
  LET newPrincipal == row.principal + row.interest
  IN  /\ book' = [book EXCEPT ![d].balance = newPrincipal]
      /\ deposit' = NextTerm(d, row, newPrincipal, newPrincipal)
      /\ log' = Logged(d, row.interest, "ROLLOVER_ALL")
      /\ UNCHANGED wallet

(* executeRolloverAtomic, ROLLOVER_PRINCIPAL: the interest goes to the     *)
(* wallet the deposit names now; into the book when it names none.         *)
RollOverPrincipal(d, row) ==
  LET target == deposit[d].target
      newPrincipal == IF target = None /\ row.interest > 0
                      THEN row.principal + row.interest
                      ELSE deposit[d].principal
  IN  /\ wallet' = IF target # None THEN Credited(target, row.interest) ELSE wallet
      /\ book' = IF target = None /\ row.interest > 0
                 THEN [book EXCEPT ![d].balance = newPrincipal] ELSE book
      /\ deposit' = NextTerm(d, row, row.principal, newPrincipal)
      /\ log' = Logged(d, row.interest, "ROLLOVER_PRINCIPAL")

(* SETTLE_TO_WALLET with no wallet: the owner is told, once. *)
RemindOwner(d) ==
  /\ deposit' = [deposit EXCEPT ![d].reminded = TRUE]
  /\ UNCHANGED <<log, money>>

(* processDueRollovers, one item.  A settlement that is refused is logged  *)
(* and passed over.                                                        *)
ProcessItem(k, item) ==
  LET d == item.deposit
      row == item.row
  IN  /\ \/ row.method = "ROLLOVER_ALL" /\ RollOverAll(d, row)
         \/ row.method = "ROLLOVER_PRINCIPAL" /\ RollOverPrincipal(d, row)
         \/ /\ row.method = "SETTLE_TO_WALLET"
            /\ IF row.target = None THEN RemindOwner(d)
               ELSE \/ Settle(d, row.target, row.principal, row.interest, FALSE)
                    \/ /\ ~CanSettle(d, row.target)
                       /\ UNCHANGED <<deposit, log, money>>
      /\ pass' = [pass EXCEPT ![k] = @ \ {item}]
      /\ UNCHANGED <<today, request, lock, overlapped, failures>>

(* A database or notification error: the item waits for the next pass. *)
FailItem(k, item) ==
  /\ failures < MaxFailures
  /\ failures' = failures + 1
  /\ pass' = [pass EXCEPT ![k] = @ \ {item}]
  /\ UNCHANGED <<today, deposit, log, request, money, lock, overlapped>>

(* release: only by the holder. *)
EndPass(k) ==
  /\ pass[k] = {}
  /\ pass' = [pass EXCEPT ![k] = None]
  /\ lock' = IF lock = k THEN None ELSE lock
  /\ UNCHANGED <<today, deposit, log, request, money, overlapped, failures>>

(* The process dies in a pass; its lock stays until it expires. *)
Crash(k) ==
  /\ pass[k] # None
  /\ failures < MaxFailures
  /\ failures' = failures + 1
  /\ pass' = [pass EXCEPT ![k] = None]
  /\ UNCHANGED <<today, deposit, log, request, money, lock, overlapped>>

(* The 5 minutes of the lock are over after its holder died. *)
ExpireLock ==
  /\ lock # None
  /\ pass[lock] = None
  /\ lock' = None
  /\ UNCHANGED <<today, deposit, log, request, money, pass, overlapped, failures>>

(* They are over in the middle of a pass, or Redis is lost and the next    *)
(* process falls back to a lock of its own: the pass goes on.              *)
LoseLock ==
  /\ lock # None
  /\ pass[lock] # None
  /\ failures < MaxFailures
  /\ failures' = failures + 1
  /\ lock' = None
  /\ overlapped' = TRUE
  /\ UNCHANGED <<today, deposit, log, request, money, pass>>

-----------------------------------------------------------------------------
Init ==
  /\ today = 0
  /\ wallet = [w \in Wallets |-> [balance |-> InitialBalance, isArchived |-> FALSE]]
  /\ deposit = [d \in Deposits |-> None]
  /\ book = [d \in Deposits |-> [balance |-> 0, isArchived |-> TRUE]]
  /\ log = [d \in Deposits |-> <<>>]
  /\ request = [r \in Requests |-> None]
  /\ pass = [k \in Workers |-> None]
  /\ lock = None
  /\ overlapped = FALSE
  /\ failures = 0

OwnerStep(d) ==
  \/ \E source, target \in Wallets \cup {None}, principal \in Amounts,
        rate \in Rates, method \in Methods, start \in StartDays :
       OpenDeposit(d, source, target, principal, rate, method, start)
  \/ \E r \in Requests :
       \/ \E patch \in Patches : ReadForEdit(r, d, patch)
       \/ \E target \in Wallets, isEarly \in BOOLEAN :
            ReadForSettlement(r, d, target, isEarly)
  \/ \E w \in Wallets, amount \in Amounts : Transfer(w, d, amount)
  \/ RestoreBook(d)

RequestStep(r) == FinishEdit(r) \/ FinishSettlement(r)

WorkerStep(k) ==
  \/ StartPass(k)
  \/ pass[k] # None /\ \E item \in pass[k] : ProcessItem(k, item)
  \/ EndPass(k)

WorkerFailure(k) ==
  \/ pass[k] # None /\ \E item \in pass[k] : FailItem(k, item)
  \/ Crash(k)

Next == \/ \E d \in Deposits : OwnerStep(d)
        \/ \E r \in Requests : RequestStep(r)
        \/ \E w \in Wallets : ArchiveOrRestoreWallet(w)
        \/ \E k \in Workers : WorkerStep(k) \/ WorkerFailure(k)
        \/ ExpireLock
        \/ LoseLock
        \/ Tick

(* The timer of every process goes on starting passes, a pass goes through *)
(* its list, a request that has begun ends, and a lock that nobody         *)
(* releases expires.                                                       *)
Fairness == /\ \A k \in Workers : WF_vars(WorkerStep(k))
            /\ \A r \in Requests : WF_vars(RequestStep(r))
            /\ WF_vars(ExpireLock)

Spec == Init /\ [][Next]_vars /\ Fairness

-----------------------------------------------------------------------------
(* What the owner of a term deposit relies on. *)

(* Rows, snapshots and lists have the fields the code gives them.  No      *)
(* balance is negative.                                                    *)
TypeOK ==
  /\ today \in 0..LastDay
  /\ wallet \in [Wallets -> WalletRows]
  /\ deposit \in [Deposits -> DepositRows \cup {None}]
  /\ book \in [Deposits -> WalletRows]
  /\ log \in [Deposits -> Seq(LogRows)]
  /\ request \in [Requests -> EditPatches \cup SettlementRequests \cup {None}]
  /\ pass \in [Workers -> {None} \cup SUBSET Items]
  /\ lock \in Workers \cup {None}
  /\ overlapped \in BOOLEAN
  /\ failures \in 0..MaxFailures

RowsWith(d, actions) == {i \in DOMAIN log[d] : log[d][i].action \in actions}

Rollovers == {"ROLLOVER_ALL", "ROLLOVER_PRINCIPAL"}

-----------------------------------------------------------------------------
(* The principal of a deposit is paid back at most once, whatever the      *)
(* owner's requests and the passes of the worker do to each other: the     *)
(* status read before the transaction may be stale, the one checked in it  *)
(* decides (executeSettlementAtomic).                                      *)
PaidBackOnce == \A d \in Deposits : Cardinality(RowsWith(d, {"SETTLE_TO_WALLET"})) <= 1

(* A settlement never pays into a wallet that is archived by then, even if *)
(* the wallet was active when the settlement was asked for, when the       *)
(* deposit was told to use it, or when the worker made its list.           *)
PaidIntoActiveWallet ==
  [][\A d \in Deposits :
       Active(d) /\ deposit'[d].status \in Settled =>
         \A w \in Wallets :
           wallet'[w].balance > wallet[w].balance => ~wallet[w].isArchived]_vars

(* As long as no lock is lost under a running pass, the worker rolls over  *)
(* a term only when it has ended, and every term at most once, however the *)
(* owner edits and settles the deposit between the reading of the list and *)
(* the writing of the item.                                                *)
TermsRolledOnce ==
  ~overlapped =>
    \A d \in Deposits :
      LET rows == RowsWith(d, Rollovers)
      IN  /\ \A i \in rows : log[d][i].ends <= today
          /\ \A i, j \in rows : log[d][i].ends = log[d][j].ends => i = j

(* No term of a deposit ends twice: see PaidBackOnce and TermsRolledOnce.  *)
TermsEndOnce == PaidBackOnce /\ TermsRolledOnce

(* A deposit that has matured and is to be rolled over is not forgotten:   *)
(* it is rolled over, or settled by the owner, however often passes and    *)
(* items failed and days without a pass went by.                           *)
WaitsForRollover(d) ==
  /\ Active(d)
  /\ deposit[d].matures <= today
  /\ deposit[d].method \in Rollovers
  /\ ~deposit[d].reminded

MaturedIsRolledOver ==
  \A d \in Deposits : WaitsForRollover(d) ~> ~WaitsForRollover(d)

-----------------------------------------------------------------------------
(* What the repository says of itself and the code does not do. *)

Money == MapThenSumSet(LAMBDA w : wallet[w].balance, Wallets)
           + MapThenSumSet(LAMBDA d : book[d].balance, Deposits)

LoggedInterest ==
  MapThenSumSet(
    LAMBDA d : MapThenSumSet(LAMBDA i : log[d][i].interest, DOMAIN log[d]),
    Deposits)

(* The principal goes back "through a Transfer, to conserve the flow of    *)
(* capital" (savings.repository.ts:314): apart from opening deposits, the  *)
(* money in the wallets and the books together changes by exactly the      *)
(* interest that is logged.                                                *)
CapitalConserved ==
  [][(\A d \in Deposits : Open(d)' = Open(d)) =>
       Money' - Money = LoggedInterest' - LoggedInterest]_vars
=============================================================================
