----------------------------- MODULE DebtContract -----------------------------
(***************************************************************************)
(* Loans the user has taken or given: modules/debts.  A contract has one   *)
(* installment a month.  Paying one, and settling the whole loan early,    *)
(* are Serializable transactions over the contract, its installments and   *)
(* a wallet.  The reminder worker reads lists of installments, tells the   *)
(* user and then writes their status, and that of the contract, with no    *)
(* condition on what they have become meanwhile.                           *)
(*                                                                         *)
(* Abstracted: one contract and one wallet, dates as days with a month of  *)
(* MonthDays, notifications, descriptions and categories.                  *)
(***************************************************************************)
EXTENDS Integers, FiniteSets, FiniteSetsExt

CONSTANTS Loans,          \* the loans a user may enter
          PenaltyFees,    \* fees of an early settlement
          InitialBalance, \* what the wallet holds at first
          MonthDays, NoticeDays,   \* days of a month, days of the notice
          LastDay, MaxFailures,    \* bounds: days, failed items and crashes
          RateUnit,       \* a monthly rate is a multiple of 1 / RateUnit
          None

ASSUME RateUnitAssumption == RateUnit \in Nat \ {0}

(***************************************************************************)
(* The repayment schedules of debt-amortization.engine.ts: how the         *)
(* principal of a loan is spread over its months, and the interest of each *)
(* month.  The engine rounds every part to a whole amount; the principal   *)
(* is taken to be whole too, though a request may carry decimals.          *)
(* Math.round rounds halves up.                                            *)
(***************************************************************************)
AmortizationMethods == {"REDUCING_BALANCE", "FIXED_ANNUITY", "INTEREST_ONLY"}

(* Math.round(a / b) for natural a. *)
Rounded(a, b) == (2 * a + b) \div (2 * b)

MonthlyInterest(balance, rate) == Rounded(balance * rate, RateUnit)

AtMost(a, b) == IF a < b THEN a ELSE b

Power(base, n) ==
  LET power[k \in 0..n] == IF k = 0 THEN 1 ELSE base * power[k - 1]
  IN  power[n]

(* The payment that is the same every month: P r (1+r)^N / ((1+r)^N - 1). *)
FixedMonthlyPayment(principal, rate, months) ==
  LET grown == Power(RateUnit + rate, months)
  IN  IF rate = 0 THEN Rounded(principal, months)
      ELSE Rounded(principal * rate * grown,
                   RateUnit * (grown - Power(RateUnit, months)))

(* The principal that is due in a month that opens with this balance.  The *)
(* last month takes what is left.                                          *)
PrincipalPart(loan, period, balance) ==
  IF period = loan.months THEN balance
  ELSE CASE loan.method = "REDUCING_BALANCE" ->
              AtMost(Rounded(loan.principal, loan.months), balance)
         [] loan.method = "FIXED_ANNUITY" ->
              LET payment == FixedMonthlyPayment(loan.principal, loan.rate, loan.months)
                  interest == MonthlyInterest(balance, loan.rate)
              IN  IF payment < interest THEN 0 ELSE AtMost(payment - interest, balance)
         [] loan.method = "INTEREST_ONLY" -> 0

(* The principal that is left after each month. *)
BalanceAfter(loan) ==
  LET balance[k \in 0..loan.months] ==
        IF k = 0 THEN loan.principal
        ELSE balance[k - 1] - PrincipalPart(loan, k, balance[k - 1])
  IN  balance

(* calculate: the installments of a loan. *)
Schedule(loan) ==
  LET balance == BalanceAfter(loan)
  IN  [k \in 1..loan.months |->
         [principalDue |-> PrincipalPart(loan, k, balance[k - 1]),
          interestDue |-> MonthlyInterest(balance[k - 1], loan.rate)]]

TotalDue(installment) == installment.principalDue + installment.interestDue

PrincipalOf(schedule, periods) ==
  MapThenSumSet(LAMBDA k : schedule[k].principalDue, periods)
-----------------------------------------------------------------------------

DebtTypes == {"DEBT_PAYABLE", "LOAN_RECEIVABLE"}

ASSUME LoansAssumption ==
  \A loan \in Loans :
    /\ DOMAIN loan = {"type", "method", "principal", "rate", "months"}
    /\ loan.type \in DebtTypes /\ loan.method \in AmortizationMethods
    /\ loan.principal \in Nat \ {0} /\ loan.rate \in Nat /\ loan.months \in Nat \ {0}
ASSUME DebtBoundsAssumption ==
  /\ PenaltyFees \subseteq Nat /\ InitialBalance \in Nat
  /\ MonthDays \in Nat \ {0} /\ NoticeDays \in Nat
  /\ LastDay \in Nat /\ MaxFailures \in Nat

DebtStatuses == {"ACTIVE", "COMPLETED", "OVERDUE", "CANCELLED"}
ItemStatuses == {"SCHEDULED", "UPCOMING", "DUE", "OVERDUE", "PAID", "WAIVED"}
Closed == {"PAID", "WAIVED"}

Contracts ==
  [loan : Loans, status : DebtStatuses, remaining : Nat, isArchived : BOOLEAN]

ASSUME NoContractAssumption == None \notin Contracts

VARIABLES today,
          contract,  \* None or a row of Contracts
          item,      \* item[k]: the status of installment k
          wallet,    \* [balance, isArchived]
          pass,      \* what the worker is doing, or None: see Scan
          payments,  \* auxiliary: payments[k]: how often k has been paid
          clobbered, \* auxiliary: the worker has reopened a closed installment
          failures   \* auxiliary: items and passes that have failed

vars == <<today, contract, item, wallet, pass, payments, clobbered, failures>>
user == <<wallet, payments>>

Periods == IF contract = None THEN {} ELSE 1..contract.loan.months
Installment(k) == Schedule(contract.loan)[k]
DueDay(k) == k * MonthDays

-----------------------------------------------------------------------------
(* The user. *)

(* create and createWithSchedule *)
CreateContract(loan) ==
  /\ contract = None
  /\ contract' = [loan |-> loan, status |-> "ACTIVE",
                  remaining |-> loan.principal, isArchived |-> FALSE]
  /\ item' = [k \in 1..loan.months |-> "SCHEDULED"]
  /\ payments' = [k \in 1..loan.months |-> 0]
  /\ UNCHANGED <<today, wallet, pass, clobbered, failures>>

Archive ==
  /\ contract # None
  /\ ~contract.isArchived
  /\ contract' = [contract EXCEPT !.isArchived = TRUE, !.status = "CANCELLED"]
  /\ UNCHANGED <<today, item, user, pass, clobbered, failures>>

(* Mutant of Pay: the balance need not cover the amount. *)
PayOnCredit(amount) ==
  /\ ~wallet.isArchived
  /\ wallet' = [wallet EXCEPT !.balance =
                  IF contract.loan.type = "DEBT_PAYABLE" THEN @ - amount
                  ELSE @ + amount]

(* Money to the lender, or from the borrower. *)
Pay(amount) ==
  /\ ~wallet.isArchived
  /\ contract.loan.type = "DEBT_PAYABLE" => wallet.balance >= amount
  /\ wallet' = [wallet EXCEPT !.balance =
                  IF contract.loan.type = "DEBT_PAYABLE" THEN @ - amount
                  ELSE @ + amount]

Open(k) == item[k] \notin Closed

(* Mutant of Remaining: the interest is taken off the principal too. *)
RemainingLessTotal(k) ==
  IF TotalDue(Installment(k)) > contract.remaining THEN 0
  ELSE contract.remaining - TotalDue(Installment(k))

(* max(0, remainingPrincipal - principalDue) *)
Remaining(k) ==
  IF Installment(k).principalDue > contract.remaining THEN 0
  ELSE contract.remaining - Installment(k).principalDue

(* payInstallment: in any order, whatever the status of the contract. *)
PayInstallment(k) ==
  /\ ~contract.isArchived
  /\ Open(k)
  /\ Pay(TotalDue(Installment(k)))
  /\ item' = [item EXCEPT ![k] = "PAID"]
  /\ payments' = [payments EXCEPT ![k] = @ + 1]
  /\ LET isFullySettled == \/ Remaining(k) = 0
                           \/ \A j \in Periods \ {k} : ~Open(j)
     IN  contract' = [contract EXCEPT
                        !.remaining = Remaining(k),
                        !.status = IF isFullySettled THEN "COMPLETED" ELSE @]
  /\ UNCHANGED <<today, pass, clobbered, failures>>

(* settleEarly: what is left of the principal and a fee; the installments  *)
(* that are open are waived.                                               *)
SettleEarly(fee) ==
  /\ contract # None
  /\ ~contract.isArchived
  /\ contract.status # "COMPLETED"
  /\ Pay(contract.remaining + fee)
  /\ item' = [k \in Periods |-> IF Open(k) THEN "WAIVED" ELSE item[k]]
  /\ contract' = [contract EXCEPT !.remaining = 0, !.status = "COMPLETED"]
  /\ UNCHANGED <<today, payments, pass, clobbered, failures>>

ArchiveOrRestoreWallet ==
  /\ wallet' = [wallet EXCEPT !.isArchived = ~@]
  /\ UNCHANGED <<today, contract, item, payments, pass, clobbered, failures>>

Tick == /\ today < LastDay
        /\ today' = today + 1
        /\ UNCHANGED <<contract, item, user, pass, clobbered, failures>>

-----------------------------------------------------------------------------
(* processDueReminders: three scans one after the other.  A pass is the    *)
(* scan it is in, the day it began, the installments of the list that are  *)
(* left, and whether it still has to mark the contract overdue.            *)

(* The scans are numbered: 3 days before, on the day, and overdue. *)
LastScan == 3
Mark(scan) == CASE scan = 1 -> "UPCOMING" [] scan = 2 -> "DUE" [] scan = 3 -> "OVERDUE"

(* Mutant of Listed: what became overdue on this very day. *)
ListedOnTheDay(scan, day) ==
  IF contract = None \/ contract.isArchived THEN {}
  ELSE {k \in Periods :
          /\ DueDay(k) = day - 1
          /\ item[k] \in {"SCHEDULED", "UPCOMING", "DUE"}
          /\ contract.status \in {"ACTIVE", "OVERDUE"}}

(* findScheduledReminderItems, findDueReminderItems and                    *)
(* findOverdueReminderItems.                                               *)
Listed(scan, day) ==
  IF contract = None \/ contract.isArchived THEN {}
  ELSE {k \in Periods :
          CASE scan = 1 -> /\ DueDay(k) = day + NoticeDays
                           /\ item[k] = "SCHEDULED"
                           /\ contract.status = "ACTIVE"
            [] scan = 2 -> /\ DueDay(k) = day
                           /\ item[k] \in {"SCHEDULED", "UPCOMING"}
                           /\ contract.status = "ACTIVE"
            [] scan = 3 -> /\ DueDay(k) < day
                           /\ item[k] \in {"SCHEDULED", "UPCOMING", "DUE"}
                           /\ contract.status \in {"ACTIVE", "OVERDUE"}}

List(scan, day) ==
  [scan |-> scan, day |-> day, left |-> Listed(scan, day),
   markContract |-> FALSE,
   contractOverdue |-> contract # None /\ contract.status = "OVERDUE"]

StartPass ==
  /\ pass = None
  /\ pass' = List(1, today)
  /\ UNCHANGED <<today, contract, item, user, clobbered, failures>>

(* The list is done: read the next one, or end. *)
NextScan ==
  /\ pass # None
  /\ pass.left = {} /\ ~pass.markContract
  /\ pass' = IF pass.scan < LastScan THEN List(pass.scan + 1, pass.day) ELSE None
  /\ UNCHANGED <<today, contract, item, user, clobbered, failures>>

(* updateScheduleItemStatus: no condition on the status there is by then. *)
MarkItem(k) ==
  /\ ~pass.markContract
  /\ k \in pass.left
  /\ item' = [item EXCEPT ![k] = Mark(pass.scan)]
  /\ pass' = [pass EXCEPT !.left = @ \ {k},
                          !.markContract = pass.scan = LastScan /\ ~pass.contractOverdue]
  /\ clobbered' = (clobbered \/ ~Open(k))
  /\ UNCHANGED <<today, contract, user, failures>>

(* updateContractStatus, when the contract was not overdue in the list. *)
MarkContract ==
  /\ pass # None
  /\ pass.markContract
  /\ contract' = [contract EXCEPT !.status = "OVERDUE"]
  /\ pass' = [pass EXCEPT !.markContract = FALSE]
  /\ UNCHANGED <<today, item, user, clobbered, failures>>

(* An error while an item is handled, before or after its first write. *)
FailItem(k) ==
  /\ failures < MaxFailures
  /\ failures' = failures + 1
  /\ \/ /\ ~pass.markContract
        /\ k \in pass.left
        /\ pass' = [pass EXCEPT !.left = @ \ {k}]
     \/ /\ pass.markContract
        /\ pass' = [pass EXCEPT !.markContract = FALSE]
  /\ UNCHANGED <<today, contract, item, user, clobbered>>

Crash ==
  /\ pass # None
  /\ failures < MaxFailures
  /\ failures' = failures + 1
  /\ pass' = None
  /\ UNCHANGED <<today, contract, item, user, clobbered>>

-----------------------------------------------------------------------------
Init ==
  /\ today = 0
  /\ contract = None
  /\ item = <<>>
  /\ wallet = [balance |-> InitialBalance, isArchived |-> FALSE]
  /\ pass = None
  /\ payments = <<>>
  /\ clobbered = FALSE
  /\ failures = 0

UserStep ==
  \/ \E loan \in Loans : CreateContract(loan)
  \/ \E k \in Periods : PayInstallment(k)
  \/ \E fee \in PenaltyFees : SettleEarly(fee)
  \/ Archive
  \/ ArchiveOrRestoreWallet

WorkerStep ==
  \/ StartPass
  \/ NextScan
  \/ pass # None /\ \E k \in Periods : MarkItem(k)
  \/ MarkContract

WorkerFailure ==
  \/ pass # None /\ \E k \in Periods : FailItem(k)
  \/ Crash

Next == UserStep \/ WorkerStep \/ WorkerFailure \/ Tick

(* The worker's timer goes on starting passes and a pass goes on. *)
Spec == Init /\ [][Next]_vars /\ WF_vars(WorkerStep)

-----------------------------------------------------------------------------
(* What the two sides of a loan rely on. *)

Passes ==
  [scan : 1..LastScan, day : 0..LastDay, left : SUBSET Periods,
   markContract : BOOLEAN, contractOverdue : BOOLEAN]

(* Rows have the columns of their table; neither the wallet nor what is    *)
(* left of the principal is ever negative.                                 *)
TypeOK ==
  /\ today \in 0..LastDay
  /\ contract # None =>
       /\ contract \in Contracts
       /\ contract.remaining <= contract.loan.principal
  /\ item \in [Periods -> ItemStatuses]
  /\ payments \in [Periods -> Nat]
  /\ wallet \in [balance : Nat, isArchived : BOOLEAN]
  /\ pass # None => pass \in Passes
  /\ clobbered \in BOOLEAN
  /\ failures \in 0..MaxFailures

OpenPrincipal == PrincipalOf(Schedule(contract.loan), {k \in Periods : Open(k)})

-----------------------------------------------------------------------------
(* A contract that is COMPLETED owes no principal, whether it was closed   *)
(* by the last open installment, by the one that brought the principal to  *)
(* zero, or early, in whatever order installments were paid and whatever   *)
(* the worker wrote in between: the schedule of the engine and the         *)
(* bookkeeping of the settlements agree to the last unit, rounding         *)
(* included.                                                               *)
CompletedOwesNothing ==
  contract # None /\ contract.status = "COMPLETED" => contract.remaining = 0

(* The contract never claims more principal than its open installments add *)
(* up to; and unless the worker has reopened an installment, it claims     *)
(* exactly that, every paid installment was paid once and no other one     *)
(* was.                                                                    *)
PrincipalAccounting ==
  contract # None =>
    /\ contract.remaining <= OpenPrincipal
    /\ ~clobbered =>
         /\ contract.remaining = OpenPrincipal
         /\ \A k \in Periods : payments[k] = IF item[k] = "PAID" THEN 1 ELSE 0

(* The schedule, the installments and the contract agree: see              *)
(* CompletedOwesNothing and PrincipalAccounting.                           *)
LoanAddsUp == CompletedOwesNothing /\ PrincipalAccounting

(* An installment that is open after its day is marked overdue, paid or    *)
(* waived in the end, even if items fail, the worker dies in a pass or     *)
(* whole days go by without one.                                           *)
Late(k) ==
  /\ k \in Periods
  /\ DueDay(k) < today
  /\ item[k] \in {"SCHEDULED", "UPCOMING", "DUE"}
  /\ contract.status \in {"ACTIVE", "OVERDUE"}
  /\ ~contract.isArchived

MaxMonths == Max({loan.months : loan \in Loans})

OverdueIsMarked == \A k \in 1..MaxMonths : Late(k) ~> ~Late(k)

-----------------------------------------------------------------------------
(* What the repository says of itself and the code does not do. *)

(* "Installment k has been paid before" (debt-settlement.service.ts:65) is *)
(* what a second payment of an installment is answered: no installment is  *)
(* paid twice.                                                             *)
PaidOnce == \A k \in Periods : payments[k] <= 1
=============================================================================
