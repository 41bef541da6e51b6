---------------------------- MODULE PlanningProofs ----------------------------
(***************************************************************************)
(* Proofs about modules DebtContract, SavingGoals and Categories: for      *)
(* every set of loans, whatever their principal, rate, months and method,  *)
(* and any bounds; for every number of goals and contributions, any        *)
(* targets, amounts and currencies; and for every set of categories and of *)
(* requests in flight.                                                     *)
(***************************************************************************)
EXTENDS DebtContract, Categories, SavingGoals, Totals, TLAPS

-----------------------------------------------------------------------------
(* Numbers.                                                                *)
LEMMA RoundedTypes ==
  ASSUME NEW a \in Int, NEW b \in Nat \ {0}
  PROVE  Rounded(a, b) \in Int /\ (a >= 0 => Rounded(a, b) >= 0)
PROOF
<1>1. 2 * a + b \in Int /\ 2 * b \in Int /\ 2 * b > 0 /\ (a >= 0 => 2 * a + b >= 0)
  OBVIOUS
<1>2. ASSUME NEW c \in Int, NEW d \in Int, d > 0
      PROVE  c \div d \in Int /\ (c >= 0 => c \div d >= 0)
  BY <1>2
<1> QED
  BY <1>1, <1>2 DEF Rounded

(* The powers of a positive number, and how they grow with it.             *)
LEMMA Powers ==
  ASSUME NEW base \in Nat \ {0}, NEW N \in Nat
  PROVE  \E g \in [0..N -> Nat \ {0}] :
           /\ g[0] = 1 /\ \A k \in 1..N : g[k] = base * g[k - 1]
           /\ Power(base, N) = g[N]
PROOF
<1> DEFINE P(g) == g = [k \in 0..N |-> IF k = 0 THEN 1 ELSE base * g[k - 1]]
           step == [p \in (1..N) \X (Nat \ {0}) |-> base * p[2]]
<1>1. Power(base, N) = (CHOOSE g : P(g))[N]
  BY DEF Power
<1>2. \A x \in Nat \ {0} : base * x \in Nat \ {0}
  OBVIOUS
<1>4. \A k \in 1..N, x \in Nat \ {0} : step[<<k, x>>] = base * x
  OBVIOUS
<1> HIDE DEF step
<1>5. PICK g : Stepped(g, 1, N, Nat \ {0}, step)
  <2>1. PICK S, one : S = Nat \ {0} /\ one = 1
    OBVIOUS
  <2>2. one \in S /\ \A k \in 1..N, x \in S : step[<<k, x>>] \in S
    BY <1>2, <1>4, <2>1
  <2>3. \E g : Stepped(g, one, N, S, step)
    BY <2>2, StepsExist
  <2> QED
    BY <2>1, <2>3
<1>6. ASSUME NEW k \in 1..N PROVE g[k] = base * g[k - 1]
  <2>1. g[k - 1] \in Nat \ {0}
    BY <1>5 DEF Stepped
  <2> QED
    BY <1>4, <1>5, <2>1 DEF Stepped
<1>7. P(g)
  BY <1>5, <1>6 DEF Stepped
<1>8. ASSUME NEW h, P(h) PROVE h = g
  <2> DEFINE Bad == {n \in 0..N : h[n] # g[n]}
  <2>1. Bad = {}
    <3> SUFFICES ASSUME Bad # {} PROVE FALSE
      OBVIOUS
    <3>1. Bad \in SUBSET Nat
      OBVIOUS
    <3>2. PICK n \in Bad : \A m \in Bad : n <= m
      <4> HIDE DEF Bad
      <4> QED BY <3>1, SmallestNumber
    <3>3. h[n] = IF n = 0 THEN 1 ELSE base * h[n - 1]
      BY <1>8
    <3>4. n # 0
      BY <1>5, <3>3 DEF Stepped
    <3>5. h[n - 1] = g[n - 1]
      BY <3>2, <3>4
    <3> QED
      BY <1>6, <3>3, <3>4, <3>5
  <2>2. h = [k \in 0..N |-> h[k]] /\ g = [k \in 0..N |-> g[k]]
    BY <1>5, <1>8 DEF Stepped
  <2>3. \A k \in 0..N : h[k] = g[k]
    BY <2>1
  <2> QED
    BY ONLY <2>2, <2>3
<1> HIDE DEF P
<1>9. (CHOOSE h : P(h)) = g
  BY <1>7, <1>8
<1> QED
  BY <1>1, <1>5, <1>6, <1>9 DEF Stepped

LEMMA PowersGrow ==
  ASSUME NEW a \in Nat \ {0}, NEW b \in Nat, a < b, NEW N \in Nat \ {0}
  PROVE  /\ Power(a, N) \in Nat \ {0} /\ Power(b, N) \in Nat \ {0}
         /\ Power(a, N) < Power(b, N)
PROOF
<1>1. PICK f \in [0..N -> Nat \ {0}] :
        /\ f[0] = 1 /\ \A k \in 1..N : f[k] = a * f[k - 1]
        /\ Power(a, N) = f[N]
  BY Powers
<1>2. PICK g \in [0..N -> Nat \ {0}] :
        /\ g[0] = 1 /\ \A k \in 1..N : g[k] = b * g[k - 1]
        /\ Power(b, N) = g[N]
  <2>1. b \in Nat \ {0}
    OBVIOUS
  <2> QED
    BY <2>1, Powers
<1>3. ASSUME NEW x \in Nat \ {0}, NEW y \in Nat \ {0}, x <= y PROVE a * x < b * y
  <2>1. a * x < b * x
    OBVIOUS
  <2>2. b * x <= b * y
    BY <1>3
  <2> QED
    BY <2>1, <2>2
<1> DEFINE Bad == {n \in 1..N : ~(f[n] < g[n])}
<1>4. Bad = {}
  <2> SUFFICES ASSUME Bad # {} PROVE FALSE
    OBVIOUS
  <2>1. Bad \in SUBSET Nat
    OBVIOUS
  <2>2. PICK n \in Bad : \A m \in Bad : n <= m
    <3> HIDE DEF Bad
    <3> QED BY <2>1, SmallestNumber
  <2>3. n \in 1..N /\ ~(f[n] < g[n])
    OBVIOUS
  <2>4. f[n - 1] <= g[n - 1]
    <3>1. CASE n = 1
      BY <1>1, <1>2, <3>1
    <3>2. CASE n # 1
      <4>1. n - 1 \in 1..N /\ n - 1 \notin Bad
        BY <2>2, <2>3, <3>2
      <4>2. f[n - 1] < g[n - 1]
        BY <4>1
      <4>3. f[n - 1] \in Nat /\ g[n - 1] \in Nat
        BY <1>1, <1>2, <4>1
      <4> QED
        BY <4>2, <4>3
    <3> QED
      BY <3>1, <3>2
  <2>5. f[n - 1] \in Nat \ {0} /\ g[n - 1] \in Nat \ {0}
    BY <1>1, <1>2, <2>3
  <2>6. a * f[n - 1] < b * g[n - 1]
    BY <1>3, <2>4, <2>5
  <2> QED
    BY <1>1, <1>2, <2>3, <2>6
<1>5. \A n \in 1..N : f[n] < g[n]
  BY <1>4
<1>6. f[N] \in Nat \ {0} /\ g[N] \in Nat \ {0} /\ f[N] < g[N]
  BY <1>1, <1>2, <1>5
<1> QED
  BY <1>1, <1>2, <1>6

-----------------------------------------------------------------------------
(* A schedule spreads the principal over its months to the last unit.      *)
IsLoan(loan) ==
  /\ loan.type \in DebtTypes /\ loan.method \in AmortizationMethods
  /\ loan.principal \in Nat \ {0} /\ loan.rate \in Nat /\ loan.months \in Nat \ {0}

LEMMA LoanTypes == ASSUME NEW loan \in Loans PROVE IsLoan(loan)
BY LoansAssumption DEF IsLoan

LEMMA InterestTypes ==
  ASSUME NEW balance \in Nat, NEW rate \in Nat
  PROVE  MonthlyInterest(balance, rate) \in Nat
PROOF
<1>1. balance * rate \in Nat
  OBVIOUS
<1> QED
  BY <1>1, RoundedTypes, RateUnitAssumption DEF MonthlyInterest

LEMMA PaymentTypes ==
  ASSUME NEW principal \in Nat, NEW rate \in Nat, NEW months \in Nat \ {0}
  PROVE  FixedMonthlyPayment(principal, rate, months) \in Int
PROOF
<1> DEFINE grown == Power(RateUnit + rate, months)
           flat == Power(RateUnit, months)
<1>1. CASE rate = 0
  BY <1>1, RoundedTypes DEF FixedMonthlyPayment
<1>2. CASE rate # 0
  <2>1. grown \in Nat /\ flat \in Nat /\ flat < grown
    BY <1>2, PowersGrow, RateUnitAssumption
  <2>2. FixedMonthlyPayment(principal, rate, months)
          = Rounded(principal * rate * grown, RateUnit * (grown - flat))
    BY <1>2 DEF FixedMonthlyPayment
  <2> HIDE DEF grown, flat
  <2>3. grown - flat \in Nat \ {0} /\ principal * rate \in Nat
    BY <2>1
  <2>4. principal * rate * grown \in Int
    BY <2>1, <2>3
  <2>5. RateUnit * (grown - flat) \in Nat \ {0}
    <3>1. \A x, y \in Nat \ {0} : x * y \in Nat \ {0}
      OBVIOUS
    <3> QED
      BY <2>3, <3>1, RateUnitAssumption
  <2> QED
    BY <2>2, <2>4, <2>5, RoundedTypes
<1> QED
  BY <1>1, <1>2

LEMMA PartTypes ==
  ASSUME NEW loan, IsLoan(loan), NEW period \in Nat, NEW balance \in Nat
  PROVE  PrincipalPart(loan, period, balance) \in 0..balance
PROOF
<1>1. ASSUME NEW a \in Int, a >= 0 PROVE AtMost(a, balance) \in 0..balance
  BY <1>1 DEF AtMost
<1>2. CASE period = loan.months
  BY <1>2 DEF PrincipalPart
<1>3. CASE period # loan.months /\ loan.method = "REDUCING_BALANCE"
  <2>1. /\ Rounded(loan.principal, loan.months) \in Int
        /\ Rounded(loan.principal, loan.months) >= 0
    BY RoundedTypes DEF IsLoan
  <2> QED
    BY <1>1, <1>3, <2>1 DEF PrincipalPart
<1>4. CASE period # loan.months /\ loan.method = "FIXED_ANNUITY"
  <2> DEFINE payment == FixedMonthlyPayment(loan.principal, loan.rate, loan.months)
             interest == MonthlyInterest(balance, loan.rate)
  <2>1. payment \in Int /\ interest \in Nat
    BY PaymentTypes, InterestTypes DEF IsLoan
  <2>2. PrincipalPart(loan, period, balance)
          = IF payment < interest THEN 0 ELSE AtMost(payment - interest, balance)
    BY <1>4 DEF PrincipalPart
  <2> HIDE DEF payment, interest
  <2>3. CASE payment < interest
    BY <2>2, <2>3
  <2>4. CASE ~(payment < interest)
    BY <1>1, <2>1, <2>2, <2>4
  <2> QED
    BY <2>3, <2>4
<1>5. CASE period # loan.months /\ loan.method = "INTEREST_ONLY"
  BY <1>5 DEF PrincipalPart
<1> QED
  BY <1>2, <1>3, <1>4, <1>5 DEF IsLoan, AmortizationMethods

LEMMA Balances ==
  ASSUME NEW loan, IsLoan(loan)
  PROVE  /\ BalanceAfter(loan)[0] = loan.principal
         /\ \A k \in 0..loan.months : BalanceAfter(loan)[k] \in Nat
         /\ \A k \in 1..loan.months :
              BalanceAfter(loan)[k] = BalanceAfter(loan)[k - 1]
                 - PrincipalPart(loan, k, BalanceAfter(loan)[k - 1])
PROOF
<1> DEFINE N == loan.months
           P(g) == g = [k \in 0..N |->
                     IF k = 0 THEN loan.principal
                     ELSE g[k - 1] - PrincipalPart(loan, k, g[k - 1])]
           step == [p \in (1..N) \X Nat |-> p[2] - PrincipalPart(loan, p[1], p[2])]
<1>1. N \in Nat /\ loan.principal \in Nat
  BY DEF IsLoan
<1>2. BalanceAfter(loan) = CHOOSE g : P(g)
  BY DEF BalanceAfter
<1>3. \A k \in 1..N, x \in Nat : step[<<k, x>>] = x - PrincipalPart(loan, k, x)
  OBVIOUS
<1> HIDE DEF step
<1>4. ASSUME NEW k \in 1..N, NEW x \in Nat PROVE step[<<k, x>>] \in Nat
  <2>1. k \in Nat
    BY <1>1
  <2>2. PrincipalPart(loan, k, x) \in 0..x
    BY <2>1, PartTypes
  <2>3. step[<<k, x>>] = x - PrincipalPart(loan, k, x)
    BY <1>3
  <2> QED
    BY <2>2, <2>3
<1> HIDE DEF N
<1>5. PICK g : Stepped(g, loan.principal, N, Nat, step)
  BY <1>1, <1>4, StepsExist
<1>6. g = [k \in 0..N |-> g[k]] /\ \A k \in 1..N : g[k - 1] \in Nat
  BY <1>1, <1>5 DEF Stepped
<1>7. P(g)
  <2>1. ASSUME NEW k \in 0..N
        PROVE  g[k] = IF k = 0 THEN loan.principal
                      ELSE g[k - 1] - PrincipalPart(loan, k, g[k - 1])
    <3>1. CASE k = 0
      BY <1>5, <3>1 DEF Stepped
    <3>2. CASE k # 0
      <4>1. k \in 1..N /\ g[k - 1] \in Nat
        <5>1. k \in 1..N
          BY <1>1, <3>2
        <5> QED
          BY <1>6, <5>1
      <4>2. g[k] = step[<<k, g[k - 1]>>]
        BY <1>5, <4>1 DEF Stepped
      <4>3. step[<<k, g[k - 1]>>] = g[k - 1] - PrincipalPart(loan, k, g[k - 1])
        BY <1>3, <4>1
      <4> QED
        BY <3>2, <4>2, <4>3
    <3> QED
      BY <3>1, <3>2
  <2> QED
    BY <1>6, <2>1
<1>8. PICK b : b = BalanceAfter(loan)
  OBVIOUS
<1>9. P(b)
  BY <1>2, <1>7, <1>8
<1>10. b[0] = loan.principal
  BY <1>1, <1>9
<1>11. \A k \in 1..N : b[k] = b[k - 1] - PrincipalPart(loan, k, b[k - 1])
  BY <1>1, <1>9
<1> HIDE DEF P
<1> DEFINE Bad == {k \in 0..N : b[k] \notin Nat}
<1>12. Bad = {}
  <2> SUFFICES ASSUME Bad # {} PROVE FALSE
    OBVIOUS
  <2>1. Bad \in SUBSET Nat
    BY <1>1
  <2>2. PICK k \in Bad : \A m \in Bad : k <= m
    <3> HIDE DEF Bad
    <3> QED BY <2>1, SmallestNumber
  <2>9. k \in 0..N /\ b[k] \notin Nat
    OBVIOUS
  <2>3. k \in 1..N
    BY <1>1, <1>10, <2>9
  <2>4. k - 1 \in 0..N /\ k - 1 \notin Bad
    BY <1>1, <2>2, <2>3
  <2>5. b[k - 1] \in Nat
    BY <2>4
  <2>6. PrincipalPart(loan, k, b[k - 1]) \in 0..b[k - 1]
    <3>1. k \in Nat
      BY <1>1, <2>3
    <3> QED
      BY ONLY <2>5, <3>1, IsLoan(loan), PartTypes
  <2>7. b[k] = b[k - 1] - PrincipalPart(loan, k, b[k - 1])
    BY <1>11, <2>3
  <2>8. b[k] \in Nat
    BY <2>5, <2>6, <2>7
  <2> QED
    BY <2>8, <2>9
<1> QED
  BY <1>8, <1>10, <1>11, <1>12 DEF N

LEMMA Installments ==
  ASSUME NEW loan, IsLoan(loan), NEW k \in 1..loan.months
  PROVE  /\ Schedule(loan)[k].principalDue \in Nat
         /\ Schedule(loan)[k].interestDue \in Nat
         /\ Schedule(loan)[k].principalDue
              = BalanceAfter(loan)[k - 1] - BalanceAfter(loan)[k]
PROOF
<1> PICK b : b = BalanceAfter(loan)
  OBVIOUS
<1>1. k \in Nat /\ k - 1 \in 0..loan.months /\ loan.rate \in Nat
  BY DEF IsLoan
<1>2. b[k - 1] \in Nat /\ b[k] = b[k - 1] - PrincipalPart(loan, k, b[k - 1])
  BY <1>1, Balances
<1>3. PrincipalPart(loan, k, b[k - 1]) \in 0..b[k - 1]
  BY <1>1, <1>2, PartTypes
<1>4. MonthlyInterest(b[k - 1], loan.rate) \in Nat
  BY <1>1, <1>2, InterestTypes
<1>5. /\ Schedule(loan)[k].principalDue = PrincipalPart(loan, k, b[k - 1])
      /\ Schedule(loan)[k].interestDue = MonthlyInterest(b[k - 1], loan.rate)
  BY DEF Schedule
<1> QED
  BY <1>2, <1>3, <1>4, <1>5

(* What is due of the principal, month by month.                           *)
Dues(loan) == [k \in 1..loan.months |-> Schedule(loan)[k].principalDue]

LEMMA DuesTypes ==
  ASSUME NEW loan, IsLoan(loan)
  PROVE  \A k \in 1..loan.months :
           /\ Dues(loan)[k] \in Nat
           /\ Dues(loan)[k] = Schedule(loan)[k].principalDue
BY Installments DEF Dues

LEMMA PrincipalOfIsTotal ==
  ASSUME NEW loan, IsLoan(loan), NEW K \in SUBSET (1..loan.months)
  PROVE  IsFiniteSet(K) /\ PrincipalOf(Schedule(loan), K) = Total(Dues(loan), K)
PROOF
<1>1. IsFiniteSet(K)
  <2>1. 1 \in Int /\ loan.months \in Int
    BY DEF IsLoan
  <2> QED
    BY <2>1, FS_Interval, FS_Subset
<1> PICK schedule, dues : schedule = Schedule(loan) /\ dues = Dues(loan)
  OBVIOUS
<1>2. \A k \in K : dues[k] = schedule[k].principalDue
  BY DuesTypes
<1> DEFINE P(g) == g = [s \in SUBSET K |-> IF s = {} THEN 0
                          ELSE LET x == CHOOSE x \in s : TRUE
                               IN  schedule[x].principalDue + g[s \ {x}]]
<1>3. PrincipalOf(schedule, K) = (CHOOSE g : P(g))[K]
  BY DEF PrincipalOf, MapThenSumSet, MapThenFoldSet
<1>4. \A g : P(g) <=> SumsOf(g, dues, K)
  <2> TAKE g
  <2>1. \A s \in SUBSET K :
          (IF s = {} THEN 0
           ELSE LET x == CHOOSE x \in s : TRUE IN schedule[x].principalDue + g[s \ {x}])
          = (IF s = {} THEN 0 ELSE dues[Chosen(s)] + g[s \ {Chosen(s)}])
    <3>1. \A s \in SUBSET K : s # {} =>
            schedule[Chosen(s)].principalDue = dues[Chosen(s)]
      BY <1>2, ChosenIn
    <3> QED
      BY <3>1 DEF Chosen
  <2> QED
    BY <2>1 DEF SumsOf
<1>5. \E g : SumsOf(g, dues, K)
  BY <1>1, SumsExist
<1> HIDE DEF P
<1>6. SumsOf(CHOOSE g : P(g), dues, K)
  BY <1>4, <1>5
<1> QED
  BY <1>1, <1>3, <1>6, TotalIs

LEMMA DuesUpTo ==
  ASSUME NEW loan, IsLoan(loan), NEW n \in 0..loan.months
  PROVE  Total(Dues(loan), 1..n) = loan.principal - BalanceAfter(loan)[n]
PROOF
<1> PICK b, dues, N :
      b = BalanceAfter(loan) /\ dues = Dues(loan) /\ N = loan.months
  OBVIOUS
<1>1. /\ N \in Nat /\ b[0] = loan.principal /\ loan.principal \in Nat
      /\ \A k \in 0..N : b[k] \in Nat
  BY Balances DEF IsLoan
<1>2. \A k \in 1..N : dues[k] \in Int /\ dues[k] = b[k - 1] - b[k]
  BY DuesTypes, Installments
<1> DEFINE Bad == {k \in 0..N : Total(dues, 1..k) # loan.principal - b[k]}
<1>3. Bad = {}
  <2> SUFFICES ASSUME Bad # {} PROVE FALSE
    OBVIOUS
  <2>1. Bad \in SUBSET Nat
    BY <1>1
  <2>2. PICK k \in Bad : \A m \in Bad : k <= m
    <3> HIDE DEF Bad
    <3> QED BY <2>1, SmallestNumber
  <2>3. k \in 0..N /\ Total(dues, 1..k) # loan.principal - b[k]
    OBVIOUS
  <2>4. k # 0
    <3>1. 1..0 = {}
      OBVIOUS
    <3> QED
      BY <1>1, <2>3, <3>1, TotalEmpty
  <2>5. k \in 1..N /\ k - 1 \in 0..N /\ ~(k <= k - 1)
    BY <1>1, <2>3, <2>4
  <2>9. k - 1 \notin Bad
    BY <2>2, <2>5
  <2>6. Total(dues, 1..k - 1) = loan.principal - b[k - 1]
    BY <2>5, <2>9
  <2>7. Total(dues, 1..k) = dues[k] + Total(dues, 1..k - 1)
    <3>1. (1..k) \ {k} = 1..k - 1 /\ k \in 1..k /\ \A m \in 1..k : dues[m] \in Int
      BY <1>1, <1>2, <2>5
    <3>2. IsFiniteSet(1..k)
      BY <1>1, <2>5, FS_Interval
    <3>3. PICK S : S = 1..k
      OBVIOUS
    <3>4. Total(dues, S) = dues[k] + Total(dues, S \ {k})
      BY <3>1, <3>2, <3>3, TotalRemove
    <3> QED
      BY <3>1, <3>3, <3>4
  <2>8. dues[k] = b[k - 1] - b[k] /\ b[k] \in Nat /\ b[k - 1] \in Nat
    BY <1>1, <1>2, <2>5
  <2> QED
    BY <1>1, <2>3, <2>6, <2>7, <2>8
<1> QED
  BY <1>3

LEMMA SpreadOut ==
  ASSUME NEW loan, IsLoan(loan)
  PROVE  Total(Dues(loan), 1..loan.months) = loan.principal
PROOF
<1> PICK b, N : b = BalanceAfter(loan) /\ N = loan.months
  OBVIOUS
<1>1. N \in Nat \ {0} /\ loan.principal \in Nat /\ N \in 1..N /\ N - 1 \in 0..N /\ N \in 0..N
  BY DEF IsLoan
<1>2. b[N] = b[N - 1] - PrincipalPart(loan, N, b[N - 1]) /\ b[N - 1] \in Nat
  BY <1>1, Balances
<1>3. PrincipalPart(loan, N, b[N - 1]) = b[N - 1]
  BY DEF PrincipalPart
<1>4. b[N] = 0
  BY <1>2, <1>3
<1>5. Total(Dues(loan), 1..N) = loan.principal - b[N]
  BY <1>1, DuesUpTo
<1> QED
  BY <1>1, <1>4, <1>5

-----------------------------------------------------------------------------
(* The inductive invariant.  LoanAddsUp is inductive with the types: the   *)
(* last open installment brings the principal to zero because the contract *)
(* never claims more than its open installments add up to, and an          *)
(* installment that the worker reopens only adds to that sum.              *)
IInv == TypeOK /\ LoanAddsUp

OpenPeriods == {k \in Periods : Open(k)}

LEMMA ContractTypes ==
  ASSUME TypeOK, contract # None
  PROVE  /\ contract \in Contracts /\ contract.loan \in Loans /\ IsLoan(contract.loan)
         /\ contract.remaining \in Nat /\ contract.status \in DebtStatuses
         /\ Periods = 1..contract.loan.months
         /\ OpenPrincipal = Total(Dues(contract.loan), OpenPeriods)
PROOF
<1>1. contract \in Contracts /\ Periods = 1..contract.loan.months
  BY DEF TypeOK, Periods
<1>2. contract.loan \in Loans /\ IsLoan(contract.loan)
  BY <1>1, LoanTypes DEF Contracts
<1>3. OpenPeriods \in SUBSET (1..contract.loan.months)
  BY <1>1 DEF OpenPeriods
<1>4. PrincipalOf(Schedule(contract.loan), OpenPeriods) = Total(Dues(contract.loan), OpenPeriods)
  BY <1>2, <1>3, PrincipalOfIsTotal
<1> QED
  BY <1>1, <1>2, <1>4 DEF Contracts, OpenPrincipal, OpenPeriods

LEMMA OpenAfter ==
  ASSUME NEW loan \in Loans, contract' # None, contract'.loan = loan,
         NEW K \in SUBSET (1..loan.months),
         \A k \in 1..loan.months : item'[k] \notin Closed <=> k \in K
  PROVE  Periods' = 1..loan.months /\ OpenPrincipal' = Total(Dues(loan), K)
PROOF
<1>1. Periods' = 1..loan.months
  BY DEF Periods
<1>2. {k \in Periods : Open(k)}' = K
  BY <1>1 DEF Open
<1>3. OpenPrincipal' = PrincipalOf(Schedule(loan), K)
  BY <1>2 DEF OpenPrincipal
<1> QED
  BY <1>1, <1>3, LoanTypes, PrincipalOfIsTotal

(* The part of the invariant that a step leaves alone.                     *)
LEMMA SamePass ==
  ASSUME TypeOK, pass' = pass, Periods \subseteq Periods'
  PROVE  pass' # None => pass' \in Passes'
PROOF
<1> SUFFICES ASSUME pass # None PROVE pass \in Passes'
  OBVIOUS
<1>1. pass \in Passes
  BY DEF TypeOK
<1>2. \A p \in Passes : p \in Passes'
  <2>1. SUBSET Periods \subseteq SUBSET Periods'
    OBVIOUS
  <2> QED
    BY <2>1 DEF Passes
<1> QED
  BY <1>1, <1>2

LEMMA SameContract ==
  ASSUME IInv, UNCHANGED <<contract, item, payments, clobbered>>
  PROVE  /\ LoanAddsUp' /\ Periods' = Periods
         /\ contract' # None => contract' \in Contracts /\ contract'.remaining <= contract'.loan.principal
         /\ item' \in [Periods' -> ItemStatuses] /\ payments' \in [Periods' -> Nat]
         /\ clobbered' \in BOOLEAN
PROOF
<1>1. Periods' = Periods
  BY DEF Periods
<1>2. LoanAddsUp'
  BY <1>1 DEF IInv, LoanAddsUp, CompletedOwesNothing, PrincipalAccounting, OpenPrincipal, Open
<1> QED
  BY <1>1, <1>2 DEF IInv, TypeOK

-----------------------------------------------------------------------------
(* The user's steps.                                                       *)
LEMMA InitEstablishes == Init => IInv
PROOF
<1> SUFFICES ASSUME Init PROVE IInv
  OBVIOUS
<1>1. Periods = {}
  BY DEF Init, Periods
<1>2. <<>> \in [{} -> ItemStatuses] /\ <<>> \in [{} -> Nat]
  OBVIOUS
<1>3. TypeOK
  <2>1. today \in 0..LastDay /\ failures \in 0..MaxFailures
    BY DebtBoundsAssumption DEF Init
  <2>2. wallet \in [balance : Nat, isArchived : BOOLEAN]
    BY DebtBoundsAssumption DEF Init
  <2>3. item \in [Periods -> ItemStatuses] /\ payments \in [Periods -> Nat]
    BY <1>1, <1>2 DEF Init
  <2>4. contract = None /\ pass = None /\ clobbered \in BOOLEAN
    BY DEF Init
  <2> QED
    BY <2>1, <2>2, <2>3, <2>4 DEF TypeOK
<1>4. LoanAddsUp
  BY DEF Init, LoanAddsUp, CompletedOwesNothing, PrincipalAccounting
<1> QED
  BY <1>3, <1>4 DEF IInv

LEMMA CreateContractKeeps ==
  ASSUME IInv, NEW loan \in Loans, CreateContract(loan)
  PROVE  IInv' /\ contract' # None
PROOF
<1> DEFINE row == [loan |-> loan, status |-> "ACTIVE",
                   remaining |-> loan.principal, isArchived |-> FALSE]
<1>1. IsLoan(loan)
  BY LoanTypes
<1>2. /\ row \in Contracts /\ row.loan = loan /\ row.status = "ACTIVE"
      /\ row.remaining = loan.principal
  BY <1>1 DEF Contracts, DebtStatuses, IsLoan
<1>3. contract' = row
  BY DEF CreateContract
<1> HIDE DEF row
<1>4. /\ contract' # None /\ contract'.loan = loan /\ contract'.status = "ACTIVE"
      /\ contract'.remaining = loan.principal
  BY <1>2, <1>3, NoContractAssumption
<1>5. /\ \A k \in 1..loan.months : item'[k] = "SCHEDULED" /\ payments'[k] = 0
      /\ item' \in [1..loan.months -> ItemStatuses] /\ payments' \in [1..loan.months -> Nat]
  BY DEF CreateContract, ItemStatuses
<1>6. Periods' = 1..loan.months /\ OpenPrincipal' = Total(Dues(loan), 1..loan.months)
  <2>1. \A k \in 1..loan.months : item'[k] \notin Closed <=> k \in 1..loan.months
    BY <1>5 DEF Closed
  <2>2. PICK K : K = 1..loan.months
    OBVIOUS
  <2> QED
    BY <1>4, <2>1, <2>2, OpenAfter
<1>7. OpenPrincipal' = loan.principal
  BY <1>1, <1>6, SpreadOut
<1>8. Periods = {} /\ pass' = pass
  BY DEF CreateContract, Periods
<1>9. pass' # None => pass' \in Passes'
  BY <1>8, SamePass DEF IInv
<1>10. TypeOK'
  <2>1. /\ today' \in 0..LastDay /\ wallet' \in [balance : Nat, isArchived : BOOLEAN]
        /\ clobbered' \in BOOLEAN /\ failures' \in 0..MaxFailures
    BY DEF CreateContract, IInv, TypeOK
  <2>2. contract' \in Contracts /\ contract'.remaining <= contract'.loan.principal
    BY <1>1, <1>2, <1>3, <1>4 DEF IsLoan
  <2> QED
    BY <1>5, <1>6, <1>9, <2>1, <2>2 DEF TypeOK
<1>11. LoanAddsUp'
  <2>1. CompletedOwesNothing'
    BY <1>4 DEF CompletedOwesNothing
  <2>2. \A k \in Periods' : payments'[k] = IF item'[k] = "PAID" THEN 1 ELSE 0
    BY <1>5, <1>6
  <2>3. contract'.remaining <= OpenPrincipal' /\ contract'.remaining = OpenPrincipal'
    BY <1>1, <1>4, <1>7 DEF IsLoan
  <2> QED
    BY <2>1, <2>2, <2>3 DEF LoanAddsUp, PrincipalAccounting
<1> QED
  BY <1>4, <1>10, <1>11 DEF IInv

LEMMA PayTypes ==
  ASSUME IInv, NEW amount \in Nat, Pay(amount)
  PROVE  wallet' \in [balance : Nat, isArchived : BOOLEAN]
PROOF
<1>1. wallet \in [balance : Nat, isArchived : BOOLEAN]
  BY DEF IInv, TypeOK
<1> DEFINE b == IF contract.loan.type = "DEBT_PAYABLE" THEN wallet.balance - amount
                ELSE wallet.balance + amount
<1>2. b \in Nat
  BY <1>1 DEF Pay
<1>3. wallet' = [wallet EXCEPT !.balance = b]
  BY <1>1 DEF Pay
<1> HIDE DEF b
<1> QED
  BY <1>1, <1>2, <1>3

LEMMA PayInstallmentKeeps ==
  ASSUME IInv, NEW k \in Periods, PayInstallment(k)
  PROVE  IInv' /\ contract' # None
PROOF
<1>1. contract # None
  BY DEF Periods
<1> PICK loan : loan = contract.loan
  OBVIOUS
<1>2. /\ contract \in Contracts /\ loan \in Loans /\ IsLoan(loan)
      /\ contract.remaining \in Nat /\ Periods = 1..loan.months
      /\ OpenPrincipal = Total(Dues(loan), OpenPeriods)
      /\ contract.remaining <= loan.principal
  BY <1>1, ContractTypes DEF IInv, TypeOK
<1> PICK due, interest : /\ due = Schedule(loan)[k].principalDue
                         /\ interest = Schedule(loan)[k].interestDue
  OBVIOUS
<1>3. due \in Nat /\ interest \in Nat /\ Dues(loan)[k] = due
  BY <1>2, Installments, DuesTypes
<1>4. wallet' \in [balance : Nat, isArchived : BOOLEAN]
  <2>1. Pay(due + interest)
    BY DEF PayInstallment, TotalDue, Installment
  <2> QED
    BY <1>3, <2>1, PayTypes
<1> PICK left, status :
       /\ left = Remaining(k)
       /\ status = IF \/ left = 0
                      \/ \A j \in Periods \ {k} : ~Open(j)
                   THEN "COMPLETED" ELSE contract.status
  OBVIOUS
<1>5. left = IF due > contract.remaining THEN 0 ELSE contract.remaining - due
  BY DEF Remaining, Installment
<1>6. left \in Nat /\ left <= contract.remaining
  BY <1>2, <1>3, <1>5
<1>7. contract' = [contract EXCEPT !.remaining = left, !.status = status]
  BY DEF PayInstallment
<1>8. status \in DebtStatuses
  BY <1>2 DEF Contracts, DebtStatuses
<1>9. /\ contract' \in Contracts /\ contract'.loan = loan
      /\ contract'.remaining = left /\ contract'.status = status
  BY <1>2, <1>6, <1>7, <1>8 DEF Contracts
<1>10. contract' # None
  BY <1>9, NoContractAssumption
<1>11. item \in [1..loan.months -> ItemStatuses] /\ payments \in [1..loan.months -> Nat]
  BY <1>2 DEF IInv, TypeOK
<1>12. /\ item' \in [1..loan.months -> ItemStatuses]
       /\ \A j \in 1..loan.months : item'[j] = IF j = k THEN "PAID" ELSE item[j]
  BY <1>11 DEF PayInstallment, ItemStatuses
<1>13. /\ payments' \in [1..loan.months -> Nat]
       /\ \A j \in 1..loan.months :
            payments'[j] = IF j = k THEN payments[j] + 1 ELSE payments[j]
  BY <1>2, <1>11 DEF PayInstallment
<1> PICK K : K = OpenPeriods \ {k}
  OBVIOUS
<1>14. K \in SUBSET (1..loan.months) /\ k \in OpenPeriods
  BY <1>2 DEF OpenPeriods, PayInstallment
<1>15. \A j \in 1..loan.months : item'[j] \notin Closed <=> j \in K
  BY <1>2, <1>12 DEF OpenPeriods, Open, Closed
<1>16. Periods' = 1..loan.months /\ OpenPrincipal' = Total(Dues(loan), K)
  BY <1>2, <1>9, <1>10, <1>14, <1>15, OpenAfter
<1>17. /\ Total(Dues(loan), K) \in Nat
       /\ Total(Dues(loan), OpenPeriods) = due + Total(Dues(loan), K)
  <2> PICK dues : dues = Dues(loan)
    OBVIOUS
  <2>1. OpenPeriods \in SUBSET (1..loan.months)
    BY <1>2 DEF OpenPeriods
  <2>2. IsFiniteSet(OpenPeriods) /\ IsFiniteSet(K)
    BY <1>2, <1>14, <2>1, PrincipalOfIsTotal
  <2>3. \A j \in OpenPeriods : dues[j] \in Nat /\ dues[j] \in Int
    BY <1>2, <2>1, DuesTypes
  <2>4. Total(dues, K) \in Nat
    BY <2>2, <2>3, TotalNatural
  <2>5. Total(dues, OpenPeriods) = dues[k] + Total(dues, OpenPeriods \ {k})
    BY <1>14, <2>2, <2>3, TotalRemove
  <2> QED
    BY <1>3, <2>4, <2>5
<1>18. /\ contract.remaining <= due + Total(Dues(loan), K)
       /\ ~clobbered =>
            /\ contract.remaining = due + Total(Dues(loan), K)
            /\ \A j \in 1..loan.months : payments[j] = IF item[j] = "PAID" THEN 1 ELSE 0
       /\ contract.status = "COMPLETED" => contract.remaining = 0
  BY <1>1, <1>2, <1>17 DEF IInv, LoanAddsUp, CompletedOwesNothing, PrincipalAccounting
<1>19. /\ left <= Total(Dues(loan), K)
       /\ ~clobbered => left = Total(Dues(loan), K)
       /\ contract.remaining = 0 => left = 0
  <2> PICK total : total = Total(Dues(loan), K)
    OBVIOUS
  <2> QED
    BY <1>2, <1>3, <1>5, <1>17, <1>18
<1>20. status = "COMPLETED" => left = 0
  <2>1. CASE \A j \in Periods \ {k} : ~Open(j)
    <3>1. K = {}
      BY <2>1 DEF OpenPeriods
    <3>2. left <= 0
      BY <1>19, <3>1, TotalEmpty
    <3> QED
      BY <1>6, <3>2
  <2>2. CASE ~(\A j \in Periods \ {k} : ~Open(j)) /\ left # 0
    <3>1. status = contract.status
      BY <2>2
    <3> QED
      BY <1>18, <1>19, <3>1
  <2> QED
    BY <2>1, <2>2
<1>21. \A j \in 1..loan.months : ~clobbered => payments'[j] = IF item'[j] = "PAID" THEN 1 ELSE 0
  <2>1. item[k] # "PAID"
    BY DEF PayInstallment, Open, Closed
  <2> QED
    BY <1>2, <1>12, <1>13, <1>18, <2>1
<1>22. pass' # None => pass' \in Passes'
  <2>1. pass' = pass /\ Periods' = Periods
    BY <1>2, <1>16 DEF PayInstallment
  <2> QED
    BY <2>1, SamePass DEF IInv
<1>23. TypeOK'
  <2>1. today' \in 0..LastDay /\ clobbered' \in BOOLEAN /\ failures' \in 0..MaxFailures
    BY DEF PayInstallment, IInv, TypeOK
  <2>2. contract' \in Contracts /\ contract'.remaining <= contract'.loan.principal
    BY <1>2, <1>6, <1>9 DEF IsLoan
  <2> QED
    BY <1>4, <1>12, <1>13, <1>16, <1>22, <2>1, <2>2 DEF TypeOK
<1>24. LoanAddsUp'
  <2>1. CompletedOwesNothing'
    BY <1>9, <1>20 DEF CompletedOwesNothing
  <2>2. clobbered' = clobbered
    BY DEF PayInstallment
  <2>3. PrincipalAccounting'
    BY <1>9, <1>16, <1>19, <1>21, <2>2 DEF PrincipalAccounting
  <2> QED
    BY <2>1, <2>3 DEF LoanAddsUp
<1> QED
  BY <1>10, <1>23, <1>24 DEF IInv

LEMMA SettleEarlyKeeps ==
  ASSUME IInv, NEW fee \in PenaltyFees, SettleEarly(fee)
  PROVE  IInv' /\ contract' # None
PROOF
<1>1. contract # None /\ fee \in Nat
  BY DebtBoundsAssumption DEF SettleEarly
<1> PICK loan : loan = contract.loan
  OBVIOUS
<1>2. /\ contract \in Contracts /\ loan \in Loans /\ IsLoan(loan)
      /\ contract.remaining \in Nat /\ Periods = 1..loan.months
  BY <1>1, ContractTypes DEF IInv
<1>3. wallet' \in [balance : Nat, isArchived : BOOLEAN]
  <2>1. contract.remaining + fee \in Nat
    BY <1>1, <1>2
  <2> QED
    BY <2>1, PayTypes DEF SettleEarly
<1>4. /\ contract' \in Contracts /\ contract'.loan = loan
      /\ contract'.remaining = 0 /\ contract'.status = "COMPLETED"
  BY <1>2 DEF SettleEarly, Contracts, DebtStatuses
<1>5. contract' # None
  BY <1>4, NoContractAssumption
<1>6. item \in [1..loan.months -> ItemStatuses] /\ payments \in [1..loan.months -> Nat]
  BY <1>2 DEF IInv, TypeOK
<1>7. /\ item' \in [1..loan.months -> ItemStatuses]
      /\ \A j \in 1..loan.months : item'[j] = IF Open(j) THEN "WAIVED" ELSE item[j]
  BY <1>2, <1>6 DEF SettleEarly, ItemStatuses
<1>8. \A j \in 1..loan.months : item'[j] \notin Closed <=> j \in {}
  BY <1>7 DEF Open, Closed
<1>9. Periods' = 1..loan.months /\ OpenPrincipal' = 0
  <2>1. PICK K : K = {}
    OBVIOUS
  <2>2. Periods' = 1..loan.months /\ OpenPrincipal' = Total(Dues(loan), K)
    BY <1>2, <1>4, <1>5, <1>8, <2>1, OpenAfter
  <2> QED
    BY <2>1, <2>2, TotalEmpty
<1>10. /\ payments' = payments /\ clobbered' = clobbered
       /\ today' = today /\ failures' = failures /\ pass' = pass
  BY DEF SettleEarly
<1>11. pass' # None => pass' \in Passes'
  BY <1>2, <1>9, <1>10, SamePass DEF IInv
<1>12. TypeOK'
  <2>1. today' \in 0..LastDay /\ clobbered' \in BOOLEAN /\ failures' \in 0..MaxFailures
    BY <1>10 DEF IInv, TypeOK
  <2>2. contract'.remaining <= contract'.loan.principal
    BY <1>2, <1>4 DEF IsLoan
  <2> QED
    BY <1>3, <1>4, <1>6, <1>7, <1>9, <1>10, <1>11, <2>1, <2>2 DEF TypeOK
<1>13. LoanAddsUp'
  <2>1. CompletedOwesNothing'
    BY <1>4 DEF CompletedOwesNothing
  <2>2. ASSUME ~clobbered, NEW j \in 1..loan.months
        PROVE  payments'[j] = IF item'[j] = "PAID" THEN 1 ELSE 0
    <3>1. payments[j] = IF item[j] = "PAID" THEN 1 ELSE 0
      BY <1>1, <1>2, <2>2 DEF IInv, LoanAddsUp, PrincipalAccounting
    <3>2. item'[j] = "PAID" <=> item[j] = "PAID"
      BY <1>7 DEF Open, Closed
    <3> QED
      BY <1>10, <3>1, <3>2
  <2>3. PrincipalAccounting'
    BY <1>4, <1>9, <1>10, <2>2 DEF PrincipalAccounting
  <2> QED
    BY <2>1, <2>3 DEF LoanAddsUp
<1> QED
  BY <1>5, <1>12, <1>13 DEF IInv

(* A step that writes the status of the contract, though not COMPLETED.    *)
LEMMA StatusKeeps ==
  ASSUME IInv, contract # None, NEW row \in Contracts, contract' = row,
         row.loan = contract.loan, row.remaining = contract.remaining,
         row.status # "COMPLETED",
         UNCHANGED <<item, payments, clobbered>>
  PROVE  /\ Periods' = Periods /\ LoanAddsUp' /\ contract' # None
         /\ contract'.remaining <= contract'.loan.principal
PROOF
<1> PICK loan : loan = contract.loan
  OBVIOUS
<1>1. /\ loan \in Loans /\ Periods = 1..loan.months
      /\ OpenPrincipal = Total(Dues(loan), OpenPeriods)
      /\ contract.remaining <= loan.principal
  BY ContractTypes DEF IInv, TypeOK
<1>2. contract' # None
  BY NoContractAssumption
<1>3. /\ OpenPeriods \in SUBSET (1..loan.months)
      /\ \A k \in 1..loan.months : item'[k] \notin Closed <=> k \in OpenPeriods
  BY <1>1 DEF OpenPeriods, Open
<1>4. Periods' = 1..loan.months /\ OpenPrincipal' = OpenPrincipal
  <2>1. PICK K : K = OpenPeriods
    OBVIOUS
  <2>2. Periods' = 1..loan.months /\ OpenPrincipal' = Total(Dues(loan), K)
    BY <1>1, <1>2, <1>3, <2>1, OpenAfter
  <2> QED
    BY <1>1, <2>1, <2>2
<1>5. CompletedOwesNothing'
  BY DEF CompletedOwesNothing
<1>6. PrincipalAccounting'
  BY <1>1, <1>4 DEF IInv, LoanAddsUp, PrincipalAccounting
<1> QED
  BY <1>1, <1>2, <1>4, <1>5, <1>6 DEF LoanAddsUp

LEMMA ArchiveKeeps == ASSUME IInv, Archive PROVE IInv' /\ contract' # None
PROOF
<1>1. contract # None /\ contract \in Contracts
  BY ContractTypes DEF Archive, IInv
<1>2. PICK row : row = [contract EXCEPT !.isArchived = TRUE, !.status = "CANCELLED"]
  OBVIOUS
<1>3. /\ row \in Contracts /\ row.loan = contract.loan
      /\ row.remaining = contract.remaining /\ row.status = "CANCELLED"
  BY <1>1, <1>2 DEF Contracts, DebtStatuses
<1>4. /\ contract' = row /\ UNCHANGED <<item, payments, clobbered>>
      /\ UNCHANGED <<today, wallet, pass, failures>>
  BY <1>2 DEF Archive, user
<1>5. /\ Periods' = Periods /\ LoanAddsUp' /\ contract' # None
      /\ contract'.remaining <= contract'.loan.principal
  BY <1>1, <1>3, <1>4, StatusKeeps
<1>6. pass' # None => pass' \in Passes'
  BY <1>4, <1>5, SamePass DEF IInv
<1>7. TypeOK'
  BY <1>3, <1>4, <1>5, <1>6 DEF IInv, TypeOK
<1> QED
  BY <1>5, <1>7 DEF IInv

LEMMA ArchiveOrRestoreWalletKeeps == ASSUME IInv, ArchiveOrRestoreWallet PROVE IInv'
PROOF
<1>1. /\ UNCHANGED <<contract, item, payments, clobbered>>
      /\ UNCHANGED <<today, pass, failures>>
  BY DEF ArchiveOrRestoreWallet
<1>2. wallet' \in [balance : Nat, isArchived : BOOLEAN]
  BY DEF ArchiveOrRestoreWallet, IInv, TypeOK
<1>3. pass' # None => pass' \in Passes'
  BY <1>1, SameContract, SamePass DEF IInv
<1> QED
  BY <1>1, <1>2, <1>3, SameContract DEF IInv, TypeOK

LEMMA TickKeeps == ASSUME IInv, Tick PROVE IInv'
PROOF
<1>1. /\ UNCHANGED <<contract, item, payments, clobbered>>
      /\ UNCHANGED <<wallet, pass, failures>>
  BY DEF Tick, user
<1>2. today' \in 0..LastDay
  BY DebtBoundsAssumption DEF Tick, IInv, TypeOK
<1>3. pass' # None => pass' \in Passes'
  BY <1>1, SameContract, SamePass DEF IInv
<1> QED
  BY <1>1, <1>2, <1>3, SameContract DEF IInv, TypeOK

-----------------------------------------------------------------------------
(* The worker's steps.                                                     *)
LEMMA ListTypes ==
  ASSUME NEW scan \in 1..LastScan, NEW day \in 0..LastDay
  PROVE  List(scan, day) \in Passes
BY DEF List, Listed, Passes

(* A step of the worker that only moves in its pass.                       *)
LEMMA PassKeeps ==
  ASSUME IInv, UNCHANGED <<contract, item, payments, clobbered>>,
         UNCHANGED <<today, wallet>>, failures' \in 0..MaxFailures,
         pass' = None \/ pass' \in Passes
  PROVE  IInv'
PROOF
<1>1. Periods' = Periods
  BY SameContract
<1>2. Passes' = Passes
  BY <1>1 DEF Passes
<1> QED
  BY <1>2, SameContract DEF IInv, TypeOK

LEMMA StartPassKeeps == ASSUME IInv, StartPass PROVE IInv'
PROOF
<1>1. pass' \in Passes
  <2>1. today \in 0..LastDay /\ 1 \in 1..LastScan
    BY DEF IInv, TypeOK, LastScan
  <2> QED
    BY <2>1, ListTypes DEF StartPass
<1> QED
  BY <1>1, PassKeeps DEF StartPass, user, IInv, TypeOK

LEMMA NextScanKeeps == ASSUME IInv, NextScan PROVE IInv'
PROOF
<1>1. pass \in Passes
  BY DEF NextScan, IInv, TypeOK
<1>2. pass' = None \/ pass' \in Passes
  <2>1. CASE pass.scan < LastScan
    <3>1. pass.day \in 0..LastDay /\ pass.scan + 1 \in 1..LastScan
      BY <1>1, <2>1 DEF Passes, LastScan
    <3> QED
      BY <2>1, <3>1, ListTypes DEF NextScan
  <2>2. CASE ~(pass.scan < LastScan)
    BY <2>2 DEF NextScan
  <2> QED
    BY <2>1, <2>2
<1> QED
  BY <1>2, PassKeeps DEF NextScan, user, IInv, TypeOK

LEMMA MarkItemKeeps ==
  ASSUME IInv, NEW k \in Periods, pass # None, MarkItem(k)
  PROVE  IInv'
PROOF
<1>1. contract # None /\ pass \in Passes
  BY DEF Periods, IInv, TypeOK
<1> PICK loan : loan = contract.loan
  OBVIOUS
<1>2. /\ contract \in Contracts /\ loan \in Loans /\ IsLoan(loan)
      /\ contract.remaining \in Nat /\ Periods = 1..loan.months
      /\ OpenPrincipal = Total(Dues(loan), OpenPeriods)
  BY <1>1, ContractTypes DEF IInv
<1> PICK mark : mark = Mark(pass.scan)
  OBVIOUS
<1>3. mark \in ItemStatuses /\ mark \notin Closed
  BY <1>1 DEF Passes, LastScan, Mark, ItemStatuses, Closed
<1>4. /\ contract' = contract /\ payments' = payments /\ wallet' = wallet
      /\ today' = today /\ failures' = failures
  BY DEF MarkItem, user
<1>5. item \in [1..loan.months -> ItemStatuses] /\ payments \in [1..loan.months -> Nat]
  BY <1>2 DEF IInv, TypeOK
<1>6. /\ item' \in [1..loan.months -> ItemStatuses]
      /\ \A j \in 1..loan.months : item'[j] = IF j = k THEN mark ELSE item[j]
  BY <1>3, <1>5 DEF MarkItem
<1> PICK K : K = OpenPeriods \cup {k}
  OBVIOUS
<1>7. K \in SUBSET (1..loan.months)
  BY <1>2 DEF OpenPeriods
<1>8. \A j \in 1..loan.months : item'[j] \notin Closed <=> j \in K
  BY <1>2, <1>3, <1>6 DEF OpenPeriods, Open
<1>9. Periods' = 1..loan.months /\ OpenPrincipal' = Total(Dues(loan), K)
  BY <1>1, <1>2, <1>4, <1>7, <1>8, OpenAfter
<1>10. /\ Total(Dues(loan), OpenPeriods) \in Nat /\ Total(Dues(loan), K) \in Nat
       /\ Total(Dues(loan), OpenPeriods) <= Total(Dues(loan), K)
  <2> PICK dues : dues = Dues(loan)
    OBVIOUS
  <2>1. OpenPeriods \in SUBSET (1..loan.months)
    BY <1>2 DEF OpenPeriods
  <2>2. IsFiniteSet(OpenPeriods) /\ IsFiniteSet(K)
    BY <1>2, <1>7, <2>1, PrincipalOfIsTotal
  <2>3. \A j \in 1..loan.months : dues[j] \in Nat /\ dues[j] \in Int
    BY <1>2, DuesTypes
  <2>4. Total(dues, OpenPeriods) \in Nat /\ Total(dues, K) \in Nat
    BY <1>7, <2>1, <2>2, <2>3, TotalNatural
  <2>5. CASE k \in OpenPeriods
    <3>1. K = OpenPeriods
      BY <2>5
    <3> QED
      BY <2>4, <3>1
  <2>6. CASE k \notin OpenPeriods
    <3>1. K \ {k} = OpenPeriods /\ k \in K
      BY <2>6
    <3>2. Total(dues, K) = dues[k] + Total(dues, K \ {k})
      BY <1>7, <2>2, <2>3, <3>1, TotalRemove
    <3>3. dues[k] \in Nat
      BY <1>2, <2>3
    <3> QED
      BY <2>4, <3>1, <3>2, <3>3
  <2> QED
    BY <2>5, <2>6
<1>11. /\ contract.remaining <= OpenPrincipal
       /\ ~clobbered =>
            /\ contract.remaining = OpenPrincipal
            /\ \A j \in 1..loan.months : payments[j] = IF item[j] = "PAID" THEN 1 ELSE 0
  BY <1>1, <1>2 DEF IInv, LoanAddsUp, PrincipalAccounting
<1>12. contract.remaining <= OpenPrincipal'
  BY <1>2, <1>9, <1>10, <1>11
<1>13. ASSUME ~clobbered'
       PROVE  /\ contract.remaining = OpenPrincipal'
              /\ \A j \in 1..loan.months : payments[j] = IF item'[j] = "PAID" THEN 1 ELSE 0
  <2>1. ~clobbered /\ Open(k)
    BY <1>13 DEF MarkItem, IInv, TypeOK
  <2>2. K = OpenPeriods
    BY <2>1 DEF OpenPeriods
  <2>3. item[k] # "PAID" /\ mark # "PAID"
    BY <1>3, <2>1 DEF Open, Closed
  <2> QED
    BY <1>2, <1>6, <1>9, <1>11, <2>1, <2>2, <2>3
<1>14. pass' # None => pass' \in Passes'
  <2>1. Passes' = Passes
    BY <1>2, <1>9 DEF Passes
  <2>2. pass' \in Passes
    BY <1>1 DEF MarkItem, Passes
  <2> QED
    BY <2>1, <2>2
<1>15. clobbered' \in BOOLEAN
  BY DEF MarkItem
<1>16. TypeOK'
  <2>1. /\ today' \in 0..LastDay /\ failures' \in 0..MaxFailures
        /\ wallet' \in [balance : Nat, isArchived : BOOLEAN]
    BY <1>4 DEF IInv, TypeOK
  <2>2. contract' \in Contracts /\ contract'.remaining <= contract'.loan.principal
    BY <1>1, <1>2, <1>4 DEF IInv, TypeOK
  <2> QED
    BY <1>4, <1>5, <1>6, <1>9, <1>14, <1>15, <2>1, <2>2 DEF TypeOK
<1>17. LoanAddsUp'
  <2>1. CompletedOwesNothing'
    BY <1>4 DEF IInv, LoanAddsUp, CompletedOwesNothing
  <2>2. PrincipalAccounting'
    BY <1>4, <1>9, <1>12, <1>13 DEF PrincipalAccounting
  <2> QED
    BY <2>1, <2>2 DEF LoanAddsUp
<1> QED
  BY <1>16, <1>17 DEF IInv

LEMMA MarkContractKeeps ==
  ASSUME IInv, contract # None, MarkContract
  PROVE  IInv' /\ contract' # None
PROOF
<1>1. contract \in Contracts /\ pass \in Passes
  BY ContractTypes DEF MarkContract, IInv, TypeOK
<1>2. PICK row : row = [contract EXCEPT !.status = "OVERDUE"]
  OBVIOUS
<1>3. /\ row \in Contracts /\ row.loan = contract.loan
      /\ row.remaining = contract.remaining /\ row.status = "OVERDUE"
  BY <1>1, <1>2 DEF Contracts, DebtStatuses
<1>4. /\ contract' = row /\ UNCHANGED <<item, payments, clobbered>>
      /\ UNCHANGED <<today, wallet, failures>>
  BY <1>2 DEF MarkContract, user
<1>5. /\ Periods' = Periods /\ LoanAddsUp' /\ contract' # None
      /\ contract'.remaining <= contract'.loan.principal
  BY <1>3, <1>4, StatusKeeps
<1>6. pass' \in Passes'
  BY <1>1, <1>5 DEF MarkContract, Passes
<1>7. TypeOK'
  BY <1>3, <1>4, <1>5, <1>6 DEF IInv, TypeOK
<1> QED
  BY <1>5, <1>7 DEF IInv

LEMMA FailItemKeeps == ASSUME IInv, NEW k \in Periods, pass # None, FailItem(k) PROVE IInv'
PROOF
<1>1. pass' \in Passes
  BY DEF FailItem, Passes, IInv, TypeOK
<1>2. failures' \in 0..MaxFailures
  BY DebtBoundsAssumption DEF FailItem, IInv, TypeOK
<1> QED
  BY <1>1, <1>2, PassKeeps DEF FailItem, user

LEMMA CrashKeeps == ASSUME IInv, Crash PROVE IInv'
PROOF
<1>1. failures' \in 0..MaxFailures
  BY DebtBoundsAssumption DEF Crash, IInv, TypeOK
<1> QED
  BY <1>1, PassKeeps DEF Crash, user

-----------------------------------------------------------------------------
(* The worker marks a contract only when there is one.                     *)
MarksAContract == pass # None /\ pass.markContract => contract # None

LEMMA NextKeeps ==
  ASSUME IInv, MarksAContract, [Next]_vars
  PROVE  IInv' /\ MarksAContract'
PROOF
<1>1. CASE UserStep
  <2>1. pass' = pass
    BY <1>1 DEF UserStep, CreateContract, PayInstallment, SettleEarly, Archive,
                ArchiveOrRestoreWallet
  <2>2. CASE \E loan \in Loans : CreateContract(loan)
    BY <2>2, CreateContractKeeps DEF MarksAContract
  <2>3. CASE \E k \in Periods : PayInstallment(k)
    BY <2>3, PayInstallmentKeeps DEF MarksAContract
  <2>4. CASE \E fee \in PenaltyFees : SettleEarly(fee)
    BY <2>4, SettleEarlyKeeps DEF MarksAContract
  <2>5. CASE Archive
    BY <2>5, ArchiveKeeps DEF MarksAContract
  <2>6. CASE ArchiveOrRestoreWallet
    <3>1. contract' = contract
      BY <2>6 DEF ArchiveOrRestoreWallet
    <3> QED
      BY <2>1, <2>6, <3>1, ArchiveOrRestoreWalletKeeps DEF MarksAContract
  <2> QED
    BY <1>1, <2>2, <2>3, <2>4, <2>5, <2>6 DEF UserStep
<1>2. CASE WorkerStep
  <2>1. CASE StartPass
    <3>1. ~pass'.markContract
      BY <2>1 DEF StartPass, List
    <3> QED
      BY <2>1, <3>1, StartPassKeeps DEF MarksAContract
  <2>2. CASE NextScan
    <3>1. pass' # None => ~pass'.markContract
      BY <2>2 DEF NextScan, List
    <3> QED
      BY <2>2, <3>1, NextScanKeeps DEF MarksAContract
  <2>3. CASE pass # None /\ \E k \in Periods : MarkItem(k)
    <3>1. contract' # None
      BY <2>3 DEF MarkItem, Periods
    <3> QED
      BY <2>3, <3>1, MarkItemKeeps DEF MarksAContract
  <2>4. CASE MarkContract
    <3>1. contract # None
      BY <2>4 DEF MarkContract, MarksAContract
    <3> QED
      BY <2>4, <3>1, MarkContractKeeps DEF MarksAContract
  <2> QED
    BY <1>2, <2>1, <2>2, <2>3, <2>4 DEF WorkerStep
<1>3. CASE WorkerFailure
  <2>1. CASE pass # None /\ \E k \in Periods : FailItem(k)
    <3>1. contract' # None
      BY <2>1 DEF FailItem, Periods
    <3> QED
      BY <2>1, <3>1, FailItemKeeps DEF MarksAContract
  <2>2. CASE Crash
    <3>1. pass' = None
      BY <2>2 DEF Crash
    <3> QED
      BY <2>2, <3>1, CrashKeeps DEF MarksAContract
  <2> QED
    BY <1>3, <2>1, <2>2 DEF WorkerFailure
<1>4. CASE Tick
  <2>1. contract' = contract /\ pass' = pass
    BY <1>4 DEF Tick
  <2> QED
    BY <1>4, <2>1, TickKeeps DEF MarksAContract
<1>5. CASE UNCHANGED vars
  <2>1. /\ UNCHANGED <<contract, item, payments, clobbered>>
        /\ UNCHANGED <<today, wallet, pass, failures>>
    BY <1>5 DEF vars
  <2>2. Periods' = Periods /\ Passes' = Passes
    BY <2>1 DEF Periods, Passes
  <2> QED
    BY <2>1, <2>2, SameContract DEF IInv, TypeOK, MarksAContract
<1> QED
  BY <1>1, <1>2, <1>3, <1>4, <1>5 DEF Next

-----------------------------------------------------------------------------
THEOREM InvariantHolds == Spec => [](IInv /\ MarksAContract)
PROOF
<1>1. Init => IInv /\ MarksAContract
  BY InitEstablishes DEF Init, MarksAContract
<1>2. IInv /\ MarksAContract /\ [Next]_vars => (IInv /\ MarksAContract)'
  BY NextKeeps
<1> QED
  BY <1>1, <1>2, PTL DEF Spec

(* Rows have the columns of their table, and neither the wallet nor what   *)
(* is left of the principal is ever negative, whatever the loan, its rate  *)
(* and its months (payInstallment, settleEarly, the reminder worker).      *)
THEOREM TypeCorrect == Spec => []TypeOK
PROOF
<1>1. IInv /\ MarksAContract => TypeOK
  BY DEF IInv
<1> QED
  BY <1>1, InvariantHolds, PTL

(* A completed contract owes nothing, and what a contract claims is what   *)
(* its open installments add up to, to the last unit of every schedule the *)
(* engine makes (DebtAmortizationEngine.calculate, payInstallment).        *)
THEOREM LoansAddUp == Spec => []LoanAddsUp
PROOF
<1>1. IInv /\ MarksAContract => LoanAddsUp
  BY DEF IInv
<1> QED
  BY <1>1, InvariantHolds, PTL

-----------------------------------------------------------------------------
(* Saving goals.  An inductive invariant is the property itself, with the  *)
(* types.                                                                  *)
GoalsInv == TypeOKGoals /\ GoalsFollowContributions

LEMMA NothingContributed == Amount({}) = 0
PROOF
<1> DEFINE P(g) == g = [s \in SUBSET {} |-> IF s = {} THEN 0
                          ELSE LET x == CHOOSE x \in s : TRUE IN x[2] + g[s \ {x}]]
<1>1. Amount({}) = (CHOOSE g : P(g))[{}]
  BY DEF Amount, MapThenSumSet, MapThenFoldSet
<1>2. P([s \in SUBSET {} |-> 0])
  OBVIOUS
<1>3. P(CHOOSE g : P(g))
  BY <1>2
<1>4. \A g : P(g) => g[{}] = 0
  OBVIOUS
<1> HIDE DEF P
<1> QED
  BY <1>1, <1>3, <1>4

LEMMA GoalTypes ==
  ASSUME TypeOKGoals
  PROVE  /\ \A g \in Existing : goal[g] \in GoalRows
         /\ \A c \in Contributions :
              contribution[c] # Unset => contribution[c] \in ContributionRows
BY DEF TypeOKGoals, Existing

(* What a goal is resolved to.                                             *)
LEMMA Resolved ==
  ASSUME NEW row \in GoalRows, NEW current, current.status \in GoalStatuses,
         NEW summary, NEW requested \in {"ACTIVE", "PAUSED", Unset},
         row.target \in Targets
  PROVE  LET completion == ResolveCompletion(current, summary, row.target, requested)
             new == WithCompletion(row, completion)
         IN  /\ new \in GoalRows
             /\ new.target = row.target /\ new.currency = row.currency
             /\ new.isArchived = row.isArchived
             /\ new.status = "COMPLETED" <=> Amount(summary) >= row.target
             /\ new.completedAt <=> new.status = "COMPLETED"
PROOF
<1> DEFINE completion == ResolveCompletion(current, summary, row.target, requested)
           new == WithCompletion(row, completion)
<1>1. /\ completion.status \in GoalStatuses /\ completion.completedAt \in BOOLEAN
      /\ completion.status = "COMPLETED" <=> Amount(summary) >= row.target
      /\ completion.completedAt <=> completion.status = "COMPLETED"
  BY DEF ResolveCompletion, GoalStatuses
<1> HIDE DEF completion
<1>2. /\ new \in GoalRows
      /\ new.target = row.target /\ new.currency = row.currency
      /\ new.isArchived = row.isArchived
      /\ new.status = completion.status /\ new.completedAt = completion.completedAt
  BY <1>1 DEF WithCompletion, GoalRows
<1> QED
  BY <1>1, <1>2 DEF completion

-----------------------------------------------------------------------------
(* Every handler writes one goal, which follows from its contributions.    *)
Follows(g, new, rows) ==
  /\ goal' = [goal EXCEPT ![g] = new] /\ contribution' = rows
  /\ new.status = "COMPLETED" <=> Amount(Summary(rows, g)) >= new.target
  /\ new.completedAt <=> new.status = "COMPLETED"
  /\ \A h \in Existing \ {g} : Summary(rows, h) = Summary(contribution, h)
  /\ \A c \in Contributions : rows[c] # Unset =>
       /\ rows[c].goal \in Existing \cup {g}
       /\ rows[c].currency = IF rows[c].goal = g THEN new.currency
                            ELSE goal[rows[c].goal].currency

LEMMA GoalWritten ==
  ASSUME GoalsInv, NEW g \in Goals, NEW new \in GoalRows,
         NEW rows \in [Contributions -> ContributionRows \cup {Unset}],
         Follows(g, new, rows)
  PROVE  GoalsInv'
PROOF
<1> USE DEF Follows
<1>1. goal \in [Goals -> GoalRows \cup {Unset}]
  BY DEF GoalsInv, TypeOKGoals
<1>2. TypeOKGoals'
  BY <1>1 DEF TypeOKGoals
<1>3. \A h \in Goals : goal'[h] = IF h = g THEN new ELSE goal[h]
  BY <1>1
<1>4. new # Unset
  BY NoRowAssumption
<1>5. \A h \in Goals : goal'[h] # Unset <=> h \in Existing \cup {g}
  BY <1>3, <1>4 DEF Existing
<1>6. ASSUME NEW h \in Goals, goal'[h] # Unset
      PROVE  /\ goal'[h].status = "COMPLETED" <=> Amount(Summary(rows, h)) >= goal'[h].target
             /\ goal'[h].completedAt <=> goal'[h].status = "COMPLETED"
  <2>1. CASE h = g
    BY <1>3, <2>1
  <2>2. CASE h # g
    BY <1>3, <1>5, <1>6, <2>2 DEF GoalsInv, GoalsFollowContributions, CompletedIffReached
  <2> QED
    BY <2>1, <2>2
<1>7. CompletedIffReached'
  <2>1. \A h : Summary(contribution', h) = Summary(rows, h)
    OBVIOUS
  <2> QED
    BY <1>6, <2>1 DEF CompletedIffReached, Existing
<1>8. OneCurrency'
  <2>1. ASSUME NEW c \in Contributions, rows[c] # Unset
        PROVE  /\ rows[c].goal \in Goals /\ goal'[rows[c].goal] # Unset
               /\ rows[c].currency = goal'[rows[c].goal].currency
    BY <1>3, <1>5, <2>1 DEF Existing
  <2> QED
    BY <2>1 DEF OneCurrency, Existing
<1> QED
  BY <1>2, <1>7, <1>8 DEF GoalsInv, GoalsFollowContributions

(* A contribution belongs to a goal that exists, and has its currency.     *)
LEMMA ContributionsHaveGoals ==
  ASSUME GoalsInv, NEW c \in Contributions, contribution[c] # Unset
  PROVE  /\ contribution[c] \in ContributionRows
         /\ contribution[c].goal \in Existing
         /\ contribution[c].currency = goal[contribution[c].goal].currency
BY GoalTypes DEF GoalsInv, GoalsFollowContributions, OneCurrency

LEMMA CreateGoalKeeps == ASSUME GoalsInv, NEW g \in Goals, CreateGoal(g) PROVE GoalsInv'
PROOF
<1>1. PICK target \in Targets, currency \in Currencies :
        /\ goal[g] = Unset
        /\ goal' = [goal EXCEPT ![g] =
             [target |-> target, currency |-> currency, status |-> "ACTIVE",
              completedAt |-> FALSE, isArchived |-> FALSE]]
        /\ contribution' = contribution
  BY DEF CreateGoal
<1> DEFINE new == [target |-> target, currency |-> currency, status |-> "ACTIVE",
                   completedAt |-> FALSE, isArchived |-> FALSE]
<1>2. new \in GoalRows /\ new.target = target /\ new.status = "ACTIVE" /\ new.completedAt = FALSE
  BY DEF GoalRows, GoalStatuses
<1>3. Summary(contribution, g) = {}
  BY <1>1, ContributionsHaveGoals DEF Summary, Existing
<1>4. ~(Amount(Summary(contribution, g)) >= target)
  BY <1>3, NothingContributed, TargetsAssumption
<1>5. goal' = [goal EXCEPT ![g] = new]
  BY <1>1
<1> HIDE DEF new
<1>6. contribution \in [Contributions -> ContributionRows \cup {Unset}]
  BY DEF GoalsInv, TypeOKGoals
<1>7. \A c \in Contributions : contribution[c] # Unset =>
        /\ contribution[c].goal \in Existing /\ contribution[c].goal # g
        /\ contribution[c].currency = goal[contribution[c].goal].currency
  BY <1>1, ContributionsHaveGoals DEF Existing
<1>8. /\ new.status = "COMPLETED" <=> Amount(Summary(contribution, g)) >= new.target
      /\ new.completedAt <=> new.status = "COMPLETED"
  BY <1>2, <1>4
<1>9. \A c \in Contributions : contribution[c] # Unset =>
        /\ contribution[c].goal \in Existing \cup {g}
        /\ contribution[c].currency = IF contribution[c].goal = g THEN new.currency
                                     ELSE goal[contribution[c].goal].currency
  BY <1>7
<1>10. contribution' = contribution
  BY <1>1
<1>11. \A h \in Existing \ {g} : Summary(contribution, h) = Summary(contribution, h)
  OBVIOUS
<1>12. Follows(g, new, contribution)
  BY ONLY <1>5, <1>8, <1>9, <1>10, <1>11 DEF Follows
<1> QED
  BY <1>2, <1>6, <1>12, GoalWritten

(* A handler that writes a goal from the contributions it has.             *)
LEMMA ResolvedFromContributions ==
  ASSUME GoalsInv, NEW g \in Existing, NEW row \in GoalRows,
         NEW requested \in {"ACTIVE", "PAUSED", Unset},
         contribution' = contribution,
         row.currency # goal[g].currency => Summary(contribution, g) = {},
         goal' = [goal EXCEPT ![g] = WithCompletion(row,
                    ResolveCompletion(goal[g], Summary(contribution, g), row.target, requested))]
  PROVE  GoalsInv'
PROOF
<1> DEFINE new == WithCompletion(row,
                    ResolveCompletion(goal[g], Summary(contribution, g), row.target, requested))
<1>1. g \in Goals /\ goal[g].status \in GoalStatuses /\ row.target \in Targets
  BY GoalTypes DEF GoalsInv, GoalRows, Existing
<1>2. /\ new \in GoalRows /\ new.target = row.target /\ new.currency = row.currency
      /\ new.status = "COMPLETED" <=> Amount(Summary(contribution, g)) >= row.target
      /\ new.completedAt <=> new.status = "COMPLETED"
  BY <1>1, Resolved
<1>3. goal' = [goal EXCEPT ![g] = new]
  OBVIOUS
<1> HIDE DEF new
<1>4. contribution \in [Contributions -> ContributionRows \cup {Unset}]
  BY DEF GoalsInv, TypeOKGoals
<1>5. \A c \in Contributions : contribution[c] # Unset =>
        /\ contribution[c].goal \in Existing
        /\ contribution[c].currency = IF contribution[c].goal = g THEN new.currency
                                     ELSE goal[contribution[c].goal].currency
  <2> SUFFICES ASSUME NEW c \in Contributions, contribution[c] # Unset, contribution[c].goal = g
               PROVE  new.currency = goal[g].currency
    BY ContributionsHaveGoals
  <2>1. <<c, contribution[c].amount>> \in Summary(contribution, g)
    BY DEF Summary
  <2> QED
    BY <1>2, <2>1
<1>6. /\ new.status = "COMPLETED" <=> Amount(Summary(contribution, g)) >= new.target
      /\ new.completedAt <=> new.status = "COMPLETED"
  BY <1>2
<1>7. \A c \in Contributions : contribution[c] # Unset =>
        /\ contribution[c].goal \in Existing \cup {g}
        /\ contribution[c].currency = IF contribution[c].goal = g THEN new.currency
                                     ELSE goal[contribution[c].goal].currency
  BY <1>5
<1>8. \A h \in Existing \ {g} : Summary(contribution, h) = Summary(contribution, h)
  OBVIOUS
<1>9. GoalsInv /\ contribution' = contribution /\ new \in GoalRows /\ g \in Goals
  BY <1>1, <1>2
<1>10. Follows(g, new, contribution)
  BY ONLY <1>3, <1>6, <1>7, <1>8, <1>9 DEF Follows
<1> QED
  BY ONLY <1>4, <1>9, <1>10, GoalWritten

LEMMA UpdateGoalKeeps == ASSUME GoalsInv, NEW g \in Goals, UpdateGoal(g) PROVE GoalsInv'
PROOF
<1>1. PICK target \in Targets, currency \in Currencies, requested \in {"ACTIVE", "PAUSED", Unset} :
        /\ g \in Mutable
        /\ currency # goal[g].currency => Summary(contribution, g) = {}
        /\ goal' = [goal EXCEPT ![g] =
             WithCompletion([goal[g] EXCEPT !.target = target, !.currency = currency],
               ResolveCompletion(goal[g], Summary(contribution, g), target, requested))]
        /\ contribution' = contribution
  BY DEF UpdateGoal, GoalsInv, TypeOKGoals
<1>2. g \in Existing /\ goal[g] \in GoalRows
  BY <1>1, GoalTypes DEF Mutable, GoalsInv
<1> DEFINE row == [goal[g] EXCEPT !.target = target, !.currency = currency]
<1>3. row \in GoalRows /\ row.target = target /\ row.currency = currency
  BY <1>2 DEF GoalRows
<1>4. goal' = [goal EXCEPT ![g] = WithCompletion(row,
                 ResolveCompletion(goal[g], Summary(contribution, g), row.target, requested))]
  BY <1>1, <1>3
<1> HIDE DEF row
<1> QED
  BY <1>1, <1>2, <1>3, <1>4, ResolvedFromContributions

LEMMA RestoreGoalKeeps == ASSUME GoalsInv, NEW g \in Goals, RestoreGoal(g) PROVE GoalsInv'
PROOF
<1>1. g \in Existing /\ goal[g] \in GoalRows
  BY GoalTypes DEF RestoreGoal, GoalsInv
<1> DEFINE row == [goal[g] EXCEPT !.isArchived = FALSE]
<1>2. row \in GoalRows /\ row.target = goal[g].target /\ row.currency = goal[g].currency
  BY <1>1 DEF GoalRows
<1>3. goal' = [goal EXCEPT ![g] = WithCompletion(row,
                 ResolveCompletion(goal[g], Summary(contribution, g), row.target, Unset))]
  BY <1>2 DEF RestoreGoal, GoalsInv, TypeOKGoals
<1>4. contribution' = contribution
  BY DEF RestoreGoal
<1> HIDE DEF row
<1> QED
  BY <1>1, <1>2, <1>3, <1>4, ResolvedFromContributions

LEMMA ArchiveGoalKeeps == ASSUME GoalsInv, NEW g \in Goals, ArchiveGoal(g) PROVE GoalsInv'
PROOF
<1>1. g \in Existing /\ goal[g] \in GoalRows
  BY GoalTypes DEF ArchiveGoal, Mutable, GoalsInv
<1> DEFINE row == [goal[g] EXCEPT !.isArchived = TRUE]
<1>2. /\ row \in GoalRows /\ row.target = goal[g].target /\ row.currency = goal[g].currency
      /\ row.status = goal[g].status /\ row.completedAt = goal[g].completedAt
  BY <1>1 DEF GoalRows
<1>3. goal' = [goal EXCEPT ![g] = row] /\ contribution' = contribution
  BY DEF ArchiveGoal, GoalsInv, TypeOKGoals
<1> HIDE DEF row
<1>4. contribution \in [Contributions -> ContributionRows \cup {Unset}]
  BY DEF GoalsInv, TypeOKGoals
<1>5. /\ row.status = "COMPLETED" <=> Amount(Summary(contribution, g)) >= row.target
      /\ row.completedAt <=> row.status = "COMPLETED"
  BY <1>1, <1>2 DEF GoalsInv, GoalsFollowContributions, CompletedIffReached
<1>6. \A c \in Contributions : contribution[c] # Unset =>
        /\ contribution[c].goal \in Existing
        /\ contribution[c].currency = IF contribution[c].goal = g THEN row.currency
                                     ELSE goal[contribution[c].goal].currency
  BY <1>2, ContributionsHaveGoals
<1>7. \A c \in Contributions : contribution[c] # Unset =>
        /\ contribution[c].goal \in Existing \cup {g}
        /\ contribution[c].currency = IF contribution[c].goal = g THEN row.currency
                                     ELSE goal[contribution[c].goal].currency
  BY <1>6
<1>8. Follows(g, row, contribution)
  BY ONLY <1>3, <1>5, <1>7 DEF Follows
<1> QED
  BY <1>2, <1>4, <1>8, GoalWritten

(* A handler that changes a contribution of a goal and reconciles it.      *)
LEMMA ReconciledKeeps ==
  ASSUME GoalsInv, NEW g \in Existing, NEW c \in Contributions,
         NEW new \in ContributionRows \cup {Unset},
         contribution[c] # Unset => contribution[c].goal = g,
         new # Unset => new.goal = g /\ new.currency = goal[g].currency,
         contribution' = [contribution EXCEPT ![c] = new], ReconcileProgress(g)
  PROVE  GoalsInv'
PROOF
<1>1. PICK rows : rows = [contribution EXCEPT ![c] = new]
  OBVIOUS
<1>2. rows \in [Contributions -> ContributionRows \cup {Unset}]
  BY <1>1 DEF GoalsInv, TypeOKGoals
<1>3. \A d \in Contributions : rows[d] = IF d = c THEN new ELSE contribution[d]
  BY <1>1 DEF GoalsInv, TypeOKGoals
<1>4. \A h \in Existing \ {g} : Summary(rows, h) = Summary(contribution, h)
  BY <1>3 DEF Summary
<1> DEFINE row == WithCompletion(goal[g],
                    ResolveCompletion(goal[g], Summary(rows, g), goal[g].target, Unset))
<1>5. g \in Goals /\ goal[g] \in GoalRows
  BY GoalTypes DEF GoalsInv, Existing
<1>6. goal[g].status \in GoalStatuses /\ goal[g].target \in Targets
  BY <1>5 DEF GoalRows
<1>7. /\ row \in GoalRows /\ row.target = goal[g].target /\ row.currency = goal[g].currency
      /\ row.status = "COMPLETED" <=> Amount(Summary(rows, g)) >= row.target
      /\ row.completedAt <=> row.status = "COMPLETED"
  BY <1>5, <1>6, Resolved
<1>8. goal' = [goal EXCEPT ![g] = row]
  BY <1>1, <1>5 DEF ReconcileProgress, GoalsInv, TypeOKGoals
<1> HIDE DEF row
<1>9. \A d \in Contributions : rows[d] # Unset =>
        /\ rows[d].goal \in Existing
        /\ rows[d].currency = IF rows[d].goal = g THEN row.currency
                             ELSE goal[rows[d].goal].currency
  BY <1>3, <1>7, ContributionsHaveGoals
<1>10. \A d \in Contributions : rows[d] # Unset =>
        /\ rows[d].goal \in Existing \cup {g}
        /\ rows[d].currency = IF rows[d].goal = g THEN row.currency
                             ELSE goal[rows[d].goal].currency
  BY <1>9
<1>11. contribution' = rows
  BY <1>1
<1>12. row \in GoalRows
  BY <1>7
<1>13. /\ row.status = "COMPLETED" <=> Amount(Summary(rows, g)) >= row.target
       /\ row.completedAt <=> row.status = "COMPLETED"
  BY <1>7
<1>14. GoalsInv /\ g \in Goals
  BY <1>5
<1>15. Follows(g, row, rows)
  BY ONLY <1>4, <1>8, <1>10, <1>11, <1>13 DEF Follows
<1> QED
  BY ONLY <1>2, <1>12, <1>14, <1>15, GoalWritten

LEMMA ContributionsKeep ==
  ASSUME GoalsInv, NEW g \in Goals,
         CreateContribution(g) \/ UpdateContribution(g) \/ DeleteContribution(g)
  PROVE  GoalsInv'
PROOF
<1>1. g \in Existing /\ goal[g] \in GoalRows
  BY GoalTypes DEF CreateContribution, UpdateContribution, DeleteContribution, Mutable, GoalsInv
<1>2. CASE CreateContribution(g)
  <2>1. PICK c \in Contributions, amount \in Amounts :
          /\ contribution[c] = Unset
          /\ contribution' = [contribution EXCEPT ![c] =
               [goal |-> g, amount |-> amount, currency |-> goal[g].currency]]
          /\ ReconcileProgress(g)
    BY <1>2 DEF CreateContribution
  <2> DEFINE new == [goal |-> g, amount |-> amount, currency |-> goal[g].currency]
  <2>2. new \in ContributionRows /\ new.goal = g /\ new.currency = goal[g].currency
    BY <1>1 DEF ContributionRows, GoalRows
  <2>3. contribution' = [contribution EXCEPT ![c] = new]
    BY <2>1
  <2> HIDE DEF new
  <2> QED
    BY <1>1, <2>1, <2>2, <2>3, ReconciledKeeps
<1>3. CASE UpdateContribution(g)
  <2>1. PICK c \in OfGoal(g), amount \in Amounts :
          /\ contribution' = [contribution EXCEPT ![c].amount = amount]
          /\ ReconcileProgress(g)
    BY <1>3 DEF UpdateContribution
  <2>2. c \in Contributions /\ contribution[c] # Unset /\ contribution[c].goal = g
    BY DEF OfGoal
  <2> DEFINE new == [contribution[c] EXCEPT !.amount = amount]
  <2>3. /\ contribution[c] \in ContributionRows
        /\ contribution[c].currency = goal[g].currency
    BY <2>2, ContributionsHaveGoals
  <2>4. new \in ContributionRows /\ new.goal = g /\ new.currency = goal[g].currency
    BY <2>2, <2>3 DEF ContributionRows
  <2>5. contribution' = [contribution EXCEPT ![c] = new]
    BY <2>1, <2>2 DEF GoalsInv, TypeOKGoals
  <2> HIDE DEF new
  <2> QED
    BY <1>1, <2>1, <2>2, <2>4, <2>5, ReconciledKeeps
<1>4. CASE DeleteContribution(g)
  <2>1. PICK c \in OfGoal(g) :
          /\ contribution' = [contribution EXCEPT ![c] = Unset]
          /\ ReconcileProgress(g)
    BY <1>4 DEF DeleteContribution
  <2>2. c \in Contributions /\ contribution[c] # Unset /\ contribution[c].goal = g
    BY DEF OfGoal
  <2> QED
    BY <1>1, <2>1, <2>2, ReconciledKeeps
<1> QED
  BY <1>2, <1>3, <1>4

-----------------------------------------------------------------------------
LEMMA GoalsStep == GoalsInv /\ [NextGoals]_goalVars => GoalsInv'
PROOF
<1> SUFFICES ASSUME GoalsInv, [NextGoals]_goalVars PROVE GoalsInv'
  OBVIOUS
<1>1. CASE UNCHANGED goalVars
  BY <1>1 DEF goalVars, GoalsInv, TypeOKGoals, GoalsFollowContributions, CompletedIffReached,
              OneCurrency, Existing
<1>2. CASE NextGoals
  BY <1>2, CreateGoalKeeps, UpdateGoalKeeps, ArchiveGoalKeeps, RestoreGoalKeeps, ContributionsKeep
     DEF NextGoals
<1> QED
  BY <1>1, <1>2

LEMMA GoalsInit == InitGoals => GoalsInv
BY DEF InitGoals, GoalsInv, TypeOKGoals, GoalsFollowContributions, CompletedIffReached,
       OneCurrency, Existing

(* In whatever order contributions, edits, archiving and restoring come, a *)
(* goal is COMPLETED exactly when its contributions reach its target, and  *)
(* they are in its currency.                                               *)
THEOREM GoalsFollow == SpecGoals => []GoalsFollowContributions
PROOF
<1>1. GoalsInv => GoalsFollowContributions
  BY DEF GoalsInv
<1> QED
  BY GoalsInit, GoalsStep, <1>1, PTL DEF SpecGoals

(* Goals and contributions are rows of their tables.                       *)
THEOREM GoalsTyped == SpecGoals => []TypeOKGoals
PROOF
<1>1. GoalsInv => TypeOKGoals
  BY DEF GoalsInv
<1> QED
  BY GoalsInit, GoalsStep, <1>1, PTL DEF SpecGoals

-----------------------------------------------------------------------------
(* Categories.  The inductive invariant. *)

Kept == {c \in Known : category[c] # Absent}

(* A set that no walk to the root leaves. *)
Loop(tree, S) == S # {} /\ \A c \in S : tree[c] # Absent /\ tree[c].parent \in S

Loopless == \A S \in SUBSET Known : ~Loop(category, S)

SystemRows ==
  \A c \in SystemCategories :
    category[c] = [parent |-> Absent, type |-> SystemType, isArchived |-> FALSE]

(* Row c agrees with its parent and with what uses it. *)
Sound(c) ==
  LET row == category[c]
  IN  /\ row.parent # Absent => row.parent \in Kept /\ category[row.parent].type = row.type
      /\ row.isArchived \/ ValidParent(row.parent, row.type)
      /\ used[c] \subseteq {row.type}

Forest ==
  /\ Loopless
  /\ \A c \in Categories : IF c \in Kept THEN Sound(c) ELSE used[c] = {}

(* What a request has checked and still holds. *)
Holds(ask) ==
  /\ ask.kind = "create" => ask.id \notin Kept /\ ValidParent(ask.parent, ask.type)
  /\ ask.kind = "update" =>
       /\ ~category[ask.id].isArchived
       /\ "parent" \notin ask.fields => ask.parent = category[ask.id].parent
       /\ "type" \notin ask.fields => ask.type = category[ask.id].type
       /\ ask.type # category[ask.id].type => ~HasDependencies(ask.id)
       /\ ValidParent(ask.parent, ask.type)
       /\ ask.parent # Absent => ~WouldCreateCycle(ask.id, ask.parent)
  /\ ask.kind = "restore" => ValidParent(category[ask.id].parent, category[ask.id].type)

AsksFound ==
  \A r \in Requests : asked[r] # Absent /\ asked[r].kind # "create" => asked[r].id \in Kept

AsksHold ==
  \A r \in Requests : asked[r] # Absent /\ ~asked[r].overtaken => Holds(asked[r])

CategoriesInv ==
  /\ TypeOKCategories /\ SystemRows /\ AsksFound
  /\ ~raced => Forest /\ AsksHold

-----------------------------------------------------------------------------
(* The walk from a category to its root. *)

(* The steps of a walk from p; from Absent it goes nowhere. *)
Walk(g, p) ==
  /\ g \in [0..Cardinality(Known) -> Kept \cup {Absent}]
  /\ g[0] = p
  /\ \A n \in 1..Cardinality(Known) :
        g[n] = IF g[n - 1] = Absent THEN Absent ELSE category[g[n - 1]].parent

ParentsKept == \A c \in Kept : category[c].parent \in Kept \cup {Absent}

LEMMA KnownIsFinite ==
  ASSUME RowsApart
  PROVE  IsFiniteSet(Known) /\ Cardinality(Known) \in Nat /\ Absent \notin Known
PROOF
<1>1. IsFiniteSet(Known)
  BY FS_Union DEF RowsApart, Known
<1> QED
  BY <1>1, FS_CardinalityType DEF RowsApart

LEMMA Walks ==
  ASSUME RowsApart, ParentsKept, NEW p \in Kept, NEW c
  PROVE  \E g : /\ Walk(g, p)
                /\ WouldCreateCycle(c, p) <=>
                     \/ g[Cardinality(Known)] # Absent
                     \/ \E n \in 0..Cardinality(Known) : g[n] = c
PROOF
<1> DEFINE N == Cardinality(Known)
           S == Kept \cup {Absent}
           P(g) == g = [n \in 0..N |->
                     IF n = 0 THEN p
                     ELSE IF g[n - 1] = Absent THEN Absent ELSE category[g[n - 1]].parent]
           step == [x \in (1..N) \X S |-> IF x[2] = Absent THEN Absent ELSE category[x[2]].parent]
<1>1. N \in Nat
  BY KnownIsFinite
<1>2. WouldCreateCycle(c, p) <=>
        \/ (CHOOSE g : P(g))[N] # Absent
        \/ \E n \in 0..N : (CHOOSE g : P(g))[n] = c
  BY DEF WouldCreateCycle
<1>3. \A k \in 1..N, x \in S : step[<<k, x>>] = IF x = Absent THEN Absent ELSE category[x].parent
  OBVIOUS
<1>4. \A k \in 1..N, x \in S : step[<<k, x>>] \in S
  BY <1>3 DEF ParentsKept
<1>5. p \in S
  OBVIOUS
<1> HIDE DEF step, S, N
<1>6. PICK h : Stepped(h, p, N, S, step)
  BY <1>1, <1>4, <1>5, StepsExist
<1>7. ASSUME NEW n \in 1..N
      PROVE  h[n] = IF h[n - 1] = Absent THEN Absent ELSE category[h[n - 1]].parent
  <2>1. h[n - 1] \in S
    BY <1>1, <1>6 DEF Stepped
  <2> QED
    BY <1>3, <1>6, <2>1 DEF Stepped
<1>8. P(h)
  <2>1. h = [n \in 0..N |-> h[n]]
    BY <1>6 DEF Stepped
  <2>2. \A n \in 0..N : h[n] = IF n = 0 THEN p ELSE IF h[n - 1] = Absent THEN Absent
                                                  ELSE category[h[n - 1]].parent
    BY <1>1, <1>6, <1>7 DEF Stepped
  <2> QED
    BY <2>1, <2>2
<1> HIDE DEF P
<1>9. P(CHOOSE g : P(g))
  BY <1>8
<1>10. PICK g : g = (CHOOSE f : P(f))
  OBVIOUS
<1>11. P(g)
  BY <1>9, <1>10
<1>12. g = [n \in 0..N |-> g[n]] /\ g[0] = p
       /\ \A n \in 1..N : g[n] = IF g[n - 1] = Absent THEN Absent ELSE category[g[n - 1]].parent
  <2>1. 0 \in 0..N /\ \A n \in 1..N : n \in 0..N /\ n # 0
    BY <1>1
  <2> QED
    BY <1>11, <2>1 DEF P
<1>13. \A n \in 0..N : g[n] \in S
  <2> DEFINE Bad == {n \in 0..N : g[n] \notin S}
  <2> SUFFICES ASSUME Bad # {} PROVE FALSE
    OBVIOUS
  <2>1. Bad \in SUBSET Nat
    BY <1>1
  <2>2. PICK n \in Bad : \A m \in Bad : n <= m
    <3> HIDE DEF Bad
    <3> QED
      BY <2>1, SmallestNumber
  <2>3. n \in 1..N /\ n - 1 \in 0..N /\ n - 1 \notin Bad
    BY <1>1, <1>5, <1>12, <2>2
  <2>4. g[n - 1] \in S
    BY <2>3
  <2> QED
    BY <1>12, <2>2, <2>3, <2>4 DEF ParentsKept, S
<1>14. Walk(g, p)
  <2>1. g \in [0..N -> S]
    BY <1>12, <1>13
  <2> QED
    BY <1>12, <2>1 DEF Walk, N, S
<1> QED
  BY <1>2, <1>10, <1>14 DEF N

(* From the root the walk goes nowhere. *)
LEMMA WalkStops ==
  ASSUME RowsApart, NEW p, NEW g, Walk(g, p), NEW n \in 0..Cardinality(Known), g[n] = Absent
  PROVE  \A m \in n..Cardinality(Known) : g[m] = Absent
PROOF
<1> DEFINE N == Cardinality(Known)
           Bad == {m \in n..N : g[m] # Absent}
<1> SUFFICES ASSUME Bad # {} PROVE FALSE
  OBVIOUS
<1>1. N \in Nat /\ Bad \in SUBSET Nat
  BY KnownIsFinite
<1>2. PICK m \in Bad : \A k \in Bad : m <= k
  <2> HIDE DEF Bad
  <2> QED
    BY <1>1, SmallestNumber
<1>3. m # n /\ m \in 1..N /\ m - 1 \in n..N /\ m - 1 \notin Bad
  BY <1>1, <1>2
<1> QED
  BY <1>2, <1>3 DEF Walk

(* Where nothing loops, every walk along the parents ends at a root.       *)
LEMMA ForestHasNoCycle ==
  ASSUME RowsApart, ParentsKept, Loopless, NEW c \in Kept, category[c].parent # Absent
  PROVE  ~WouldCreateCycle(c, category[c].parent)
PROOF
<1> DEFINE N == Cardinality(Known)
<1>1. PICK p : p = category[c].parent /\ p \in Kept
  BY DEF ParentsKept
<1>2. PICK g : /\ Walk(g, p)
               /\ WouldCreateCycle(c, p) <=> g[N] # Absent \/ \E n \in 0..N : g[n] = c
  BY <1>1, Walks
<1>3. N \in Nat /\ IsFiniteSet(Known) /\ Absent \notin Known /\ Kept \subseteq Known
  BY KnownIsFinite DEF Kept
<1>4. ASSUME NEW i \in 0..N, NEW j \in 0..N, i <= j, g[j] # Absent,
             category[g[j]].parent = g[i]
      PROVE  FALSE
  <2> DEFINE S == {g[n] : n \in i..j}
  <2>1. \A n \in i..j : g[n] # Absent /\ g[n] \in Kept
    <3>1. ASSUME NEW n \in i..j, g[n] = Absent PROVE FALSE
      BY <1>2, <1>3, <1>4, <3>1, WalkStops
    <3> QED
      BY <1>2, <1>3, <3>1 DEF Walk
  <2>2. ASSUME NEW n \in i..j PROVE category[g[n]].parent \in S
    <3>1. CASE n = j
      BY <1>3, <1>4, <3>1
    <3>2. CASE n # j
      <4>1. n + 1 \in i..j /\ n + 1 \in 1..N /\ (n + 1) - 1 = n
        BY <1>3, <3>2
      <4>2. g[n + 1] = category[g[n]].parent
        BY <1>2, <2>1, <4>1 DEF Walk
      <4> QED
        BY <4>1, <4>2
    <3> QED
      BY <3>1, <3>2
  <2>3. S \in SUBSET Known /\ S # {}
    <3>1. i \in i..j
      BY <1>3, <1>4
    <3>2. \A n \in i..j : g[n] \in Known
      BY <1>3, <2>1
    <3> QED
      BY <3>1, <3>2
  <2>4. Loop(category, S)
    BY <2>1, <2>2, <2>3 DEF Loop, Kept
  <2> QED
    BY <2>3, <2>4 DEF Loopless
<1>5. ASSUME NEW n \in 0..N, g[n] = c PROVE FALSE
  <2>1. 0 \in 0..N /\ 0 <= n /\ g[n] # Absent /\ category[g[n]].parent = g[0]
    BY <1>1, <1>2, <1>3, <1>5 DEF Walk
  <2> QED
    BY <1>4, <2>1
<1>6. ASSUME g[N] # Absent PROVE FALSE
  <2>1. \A n \in 0..N : g[n] # Absent
    <3>1. ASSUME NEW n \in 0..N, g[n] = Absent PROVE FALSE
      BY <1>2, <1>3, <1>6, <3>1, WalkStops
    <3> QED
      BY <3>1
  <2>2. g \in [0..N -> Known]
    <3>1. g \in [0..N -> Kept \cup {Absent}]
      BY <1>2 DEF Walk
    <3>2. ASSUME NEW n \in 0..N PROVE g[n] \in Known
      BY <1>3, <2>1, <3>1
    <3>3. g = [n \in 0..N |-> g[n]]
      BY <3>1
    <3> QED
      BY <3>2, <3>3
  <2>3. IsFiniteSet(0..N) /\ Cardinality(0..N) = N + 1
    <3> HIDE DEF N
    <3> QED
      BY <1>3, FS_Interval
  <2>4. \E x, y \in 0..N : x # y /\ g[x] = g[y]
    <3>1. Cardinality(Known) < Cardinality(0..N)
      BY <1>3, <2>3
    <3> HIDE DEF N
    <3> QED
      BY <1>3, <2>2, <2>3, <3>1, FS_PigeonHole
  <2>5. PICK i \in 0..N, j \in 0..N : i < j /\ g[i] = g[j]
    BY <1>3, <2>4
  <2>6. j \in 1..N /\ j - 1 \in 0..N /\ i <= j - 1
    BY <1>3, <2>5
  <2>7. g[j] = category[g[j - 1]].parent /\ g[j - 1] # Absent
    BY <1>2, <2>1, <2>6 DEF Walk
  <2> QED
    BY <1>4, <2>5, <2>6, <2>7
<1> QED
  BY <1>1, <1>2, <1>5, <1>6

(* A category is put below another from where no walk leads back to it.    *)
LEMMA MoveIsLoopless ==
  ASSUME RowsApart, ParentsKept, Loopless, NEW c \in Kept, NEW p \in Kept,
         ~WouldCreateCycle(c, p), NEW tree, tree[c].parent = p,
         \A d \in Known \ {c} : tree[d] = category[d],
         NEW S \in SUBSET Known, Loop(tree, S)
  PROVE  FALSE
PROOF
<1> DEFINE N == Cardinality(Known)
<1>1. PICK g : /\ Walk(g, p)
               /\ WouldCreateCycle(c, p) <=> g[N] # Absent \/ \E n \in 0..N : g[n] = c
  BY Walks
<1>2. N \in Nat /\ Absent \notin Known
  BY KnownIsFinite
<1>3. c \in S
  <2>1. ASSUME c \notin S PROVE Loop(category, S)
    <3>1. \A d \in S : tree[d] = category[d]
      BY <2>1
    <3> QED
      BY <3>1 DEF Loop
  <2> QED
    BY <2>1 DEF Loopless
<1>4. p \in S
  BY <1>3 DEF Loop
<1> DEFINE Bad == {n \in 0..N : g[n] \notin S}
<1>5. Bad = {}
  <2> SUFFICES ASSUME Bad # {} PROVE FALSE
    OBVIOUS
  <2>1. Bad \in SUBSET Nat
    BY <1>2
  <2>2. PICK n \in Bad : \A m \in Bad : n <= m
    <3> HIDE DEF Bad
    <3> QED
      BY <2>1, SmallestNumber
  <2>3. n \in 1..N /\ n - 1 \in 0..N /\ n - 1 \notin Bad
    BY <1>1, <1>2, <1>4, <2>2 DEF Walk
  <2>4. g[n - 1] \in S \ {c} /\ g[n - 1] # Absent
    BY <1>1, <1>2, <2>3
  <2>5. g[n] = tree[g[n - 1]].parent
    BY <1>1, <2>3, <2>4 DEF Walk
  <2> QED
    BY <2>2, <2>4, <2>5 DEF Loop
<1>6. N \in 0..N /\ N \notin Bad
  BY <1>2, <1>5
<1> QED
  BY <1>1, <1>2, <1>6

-----------------------------------------------------------------------------
(* The branch of a category is closed: no child of its members is outside. *)
LEMMA BranchClosed ==
  ASSUME RowsApart, NEW c \in Categories, category[c] # Absent
  PROVE  /\ Branch(c) \subseteq Categories \cap Kept
         /\ \A d \in Categories \cap Kept : category[d].parent \in Branch(c) => d \in Branch(c)
PROOF
<1> DEFINE N == Cardinality(Categories)
           Live == Categories \cap Kept
           Under(T) == {d \in Categories : category[d] # Absent /\ category[d].parent \in T}
           P(g) == g = [n \in 0..N |-> IF n = 0 THEN {c} ELSE g[n - 1] \cup Under(g[n - 1])]
           step == [x \in (1..N) \X (SUBSET Live) |-> x[2] \cup Under(x[2])]
<1>1. N \in Nat /\ IsFiniteSet(Categories)
  BY FS_CardinalityType DEF RowsApart
<1>2. Branch(c) = (CHOOSE g : P(g))[N]
  BY DEF Branch
<1>3. \A T : Under(T) \subseteq Live
  BY DEF Kept, Known
<1>4. {c} \in SUBSET Live
  BY DEF Kept, Known
<1> HIDE DEF Under, Live, N
<1>5. \A k \in 1..N, x \in SUBSET Live : step[<<k, x>>] = x \cup Under(x)
  OBVIOUS
<1>6. \A k \in 1..N, x \in SUBSET Live : step[<<k, x>>] \in SUBSET Live
  BY <1>3, <1>5
<1> HIDE DEF step
<1>7. PICK h : Stepped(h, {c}, N, SUBSET Live, step)
  <2>1. PICK S, one : S = SUBSET Live /\ one = {c}
    OBVIOUS
  <2>2. one \in S /\ \A k \in 1..N, x \in S : step[<<k, x>>] \in S
    BY <1>4, <1>6, <2>1
  <2>3. \E g : Stepped(g, one, N, S, step)
    BY <1>1, <2>2, StepsExist
  <2> QED
    BY <2>1, <2>3
<1>8. P(h)
  <2>1. h = [n \in 0..N |-> h[n]] /\ h[0] = {c}
    BY <1>7 DEF Stepped
  <2>2. ASSUME NEW n \in 1..N PROVE h[n] = h[n - 1] \cup Under(h[n - 1])
    <3>1. h[n - 1] \in SUBSET Live
      BY <1>1, <1>7 DEF Stepped
    <3> QED
      BY <1>5, <1>7, <3>1 DEF Stepped
  <2>3. \A n \in 0..N : h[n] = IF n = 0 THEN {c} ELSE h[n - 1] \cup Under(h[n - 1])
    BY <1>1, <2>1, <2>2
  <2> QED
    BY <2>1, <2>3
<1> HIDE DEF P
<1>9. P(CHOOSE g : P(g))
  BY <1>8
<1>10. PICK g : g = (CHOOSE f : P(f)) /\ P(g)
  BY <1>9
<1>11. g[0] = {c} /\ \A n \in 1..N : g[n] = g[n - 1] \cup Under(g[n - 1])
  <2>1. 0 \in 0..N /\ \A n \in 1..N : n \in 0..N /\ n # 0
    BY <1>1
  <2> QED
    BY <1>10, <2>1 DEF P
(* Each round keeps what the rounds before it found. *)
<1>12. ASSUME NEW i \in 0..N, NEW j \in i..N PROVE g[i] \subseteq g[j]
  <2> DEFINE Bad == {n \in i..N : ~(g[i] \subseteq g[n])}
  <2> SUFFICES ASSUME Bad # {} PROVE FALSE
    BY <1>1
  <2>1. Bad \in SUBSET Nat
    BY <1>1
  <2>2. PICK n \in Bad : \A m \in Bad : n <= m
    <3> HIDE DEF Bad
    <3> QED
      BY <2>1, SmallestNumber
  <2>3. n # i
    BY <2>2
  <2>4. n \in 1..N /\ n - 1 \in i..N /\ n - 1 \notin Bad
    BY <1>1, <2>2, <2>3
  <2> QED
    BY <1>11, <2>2, <2>4
<1>13. ASSUME NEW n \in 0..N PROVE g[n] \subseteq Live
  <2> DEFINE Bad == {m \in 0..N : ~(g[m] \subseteq Live)}
  <2> SUFFICES ASSUME Bad # {} PROVE FALSE
    BY <1>1
  <2>1. Bad \in SUBSET Nat
    BY <1>1
  <2>2. PICK m \in Bad : \A k \in Bad : m <= k
    <3> HIDE DEF Bad
    <3> QED
      BY <2>1, SmallestNumber
  <2>3. m # 0
    BY <1>4, <1>11, <2>2
  <2>4. m \in 1..N /\ m - 1 \in 0..N /\ m - 1 \notin Bad
    BY <1>1, <2>2, <2>3
  <2> QED
    BY <1>3, <1>11, <2>2, <2>4
<1>14. ASSUME NEW d, d \in Under(g[N]), d \notin g[N] PROVE FALSE
  (* A round that finds nothing is followed by none that does. *)
  <2>1. ASSUME NEW n \in 1..N, g[n] = g[n - 1] PROVE FALSE
    <3> DEFINE Bad == {m \in n..N : g[m] # g[n]}
    <3>1. Bad = {}
      <4> SUFFICES ASSUME Bad # {} PROVE FALSE
        OBVIOUS
      <4>1. Bad \in SUBSET Nat
        BY <1>1
      <4>2. PICK m \in Bad : \A k \in Bad : m <= k
        <5> HIDE DEF Bad
        <5> QED
          BY <4>1, SmallestNumber
      <4>3. m # n
        BY <4>2
      <4>4. m \in 1..N /\ m - 1 \in n..N /\ m - 1 \notin Bad
        BY <1>1, <4>2, <4>3
      <4>5. g[m - 1] = g[n - 1]
        BY <2>1, <4>4
      <4> QED
        BY <1>11, <2>1, <4>2, <4>4, <4>5
    <3>2. N \in n..N /\ N \notin Bad
      BY <1>1, <3>1
    <3>3. g[N] = g[n - 1]
      BY <2>1, <3>2
    <3>4. Under(g[N]) \subseteq g[n]
      BY <1>11, <3>3
    <3> QED
      BY <1>14, <3>2, <3>4
  <2> DEFINE new == [n \in 0..N |-> IF n = 0 THEN c ELSE CHOOSE x : x \in g[n] /\ x \notin g[n - 1]]
  <2>2. ASSUME NEW n \in 1..N PROVE new[n] \in g[n] /\ new[n] \notin g[n - 1]
    <3>1. \E x : x \in g[n] /\ x \notin g[n - 1]
      BY <1>11, <2>1
    <3>2. new[n] = CHOOSE x : x \in g[n] /\ x \notin g[n - 1]
      BY <1>1
    <3> HIDE DEF new
    <3> QED
      BY <3>1, <3>2
  <2>3. new[0] \in g[0]
    BY <1>1, <1>11
  <2> HIDE DEF new
  <2>4. ASSUME NEW n \in 0..N PROVE new[n] \in g[n] /\ new[n] \in Categories
    <3>1. new[n] \in g[n]
      BY <1>1, <2>2, <2>3
    <3> QED
      BY <1>13, <3>1 DEF Live
  <2>5. new \in [0..N -> Categories]
    <3>1. new = [n \in 0..N |-> new[n]]
      BY DEF new
    <3> QED
      BY <2>4, <3>1
  <2>6. IsFiniteSet(0..N) /\ Cardinality(0..N) = N + 1
    BY <1>1, FS_Interval
  <2>7. \E x, y \in 0..N : x # y /\ new[x] = new[y]
    <3>1. Cardinality(Categories) < Cardinality(0..N)
      BY <1>1, <2>6 DEF N
    <3> QED
      BY <1>1, <2>5, <2>6, <3>1, FS_PigeonHole
  <2>8. PICK i \in 0..N, j \in 0..N : i < j /\ new[i] = new[j]
    BY <1>1, <2>7
  <2>9. j \in 1..N /\ j - 1 \in i..N
    BY <1>1, <2>8
  <2> QED
    BY <1>12, <2>2, <2>4, <2>8, <2>9
<1>15. N \in 0..N
  BY <1>1
<1>16. ASSUME NEW d \in Categories \cap Kept, category[d].parent \in g[N] PROVE d \in Under(g[N])
  BY <1>16 DEF Under, Kept
<1> QED
  BY <1>2, <1>10, <1>13, <1>14, <1>15, <1>16 DEF Live

-----------------------------------------------------------------------------
(* Every step keeps the types, the rows of the system, and what the asks   *)
(* refer to.                                                               *)
Typed == TypeOKCategories /\ SystemRows /\ AsksFound

LEMMA RowTypes ==
  ASSUME RowsApart, TypeOKCategories
  PROVE  /\ \A c \in Kept : category[c] \in CategoryRows
         /\ \A r \in Requests : asked[r] # Absent => asked[r] \in Asks
         /\ \A c \in Known : category[c] \in CategoryRows => c \in Kept
BY DEF RowsApart, TypeOKCategories, Kept

LEMMA AskTyped ==
  ASSUME RowsApart, Typed, NEW r \in Requests, NEW ask \in Asks, ~ask.overtaken,
         asked' = [asked EXCEPT ![r] = ask],
         ask.kind # "create" => ask.id \in Kept,
         UNCHANGED <<category, used, raced>>
  PROVE  Typed'
PROOF
<1>1. TypeOKCategories' /\ SystemRows'
  BY DEF Typed, TypeOKCategories, SystemRows
<1>2. \A q \in Requests : asked'[q] = IF q = r THEN ask ELSE asked[q]
  BY DEF Typed, TypeOKCategories
<1>3. AsksFound'
  BY <1>2 DEF Typed, AsksFound, Kept
<1> QED
  BY <1>1, <1>3 DEF Typed

(* The three checks end in an ask that holds. *)
Asked(r) ==
  \E ask \in Asks :
    /\ ~ask.overtaken
    /\ ask.kind # "create" => ask.id \in Kept
    /\ Holds(ask)
    /\ asked' = [asked EXCEPT ![r] = ask]
    /\ UNCHANGED <<category, used, raced>>

LEMMA ChecksAsk ==
  ASSUME RowsApart, Typed, NEW r \in Requests, CheckCreate(r) \/ CheckUpdate(r) \/ CheckRestore(r)
  PROVE  Asked(r)
PROOF
<1> DEFINE Row(kind, c, fields, parent, type) ==
             [kind |-> kind, id |-> c, fields |-> fields, parent |-> parent, type |-> type,
              overtaken |-> FALSE]
<1>1. ASSUME NEW c \in Categories, NEW p \in Known \cup {Absent}, NEW type \in Types,
             NEW fields \in SUBSET {"parent", "type"},
             NEW kind \in {"create", "update", "restore"}
      PROVE  LET ask == Row(kind, c, fields, p, type)
             IN  /\ ask \in Asks /\ ~ask.overtaken /\ ask.kind = kind /\ ask.id = c
                 /\ ask.fields = fields /\ ask.parent = p /\ ask.type = type
  BY DEF Asks
<1>2. CASE CheckCreate(r)
  <2>1. PICK c \in Categories, p \in Known \cup {Absent}, type \in Types :
          /\ category[c] = Absent /\ ValidParent(p, type)
          /\ Ask(r, "create", c, {"parent", "type"}, p, type)
    BY <1>2 DEF CheckCreate
  <2>2. PICK ask : ask = Row("create", c, {"parent", "type"}, p, type)
    OBVIOUS
  <2>3. ask \in Asks /\ ~ask.overtaken /\ ask.kind = "create" /\ ask.id = c
        /\ ask.parent = p /\ ask.type = type
    BY <1>1, <2>2
  <2>4. Holds(ask)
    BY <2>1, <2>3 DEF Holds, Kept
  <2>5. asked' = [asked EXCEPT ![r] = ask] /\ UNCHANGED <<category, used, raced>>
    BY <2>1, <2>2 DEF Ask
  <2> QED
    BY <2>3, <2>4, <2>5 DEF Asked
<1>3. CASE CheckUpdate(r)
  <2>1. PICK c \in Categories, p \in Known \cup {Absent}, type \in Types,
             fields \in SUBSET {"parent", "type"} :
          /\ category[c] # Absent /\ ~category[c].isArchived
          /\ "parent" \notin fields => p = category[c].parent
          /\ "type" \notin fields => type = category[c].type
          /\ type # category[c].type => ~HasDependencies(c)
          /\ ValidParent(p, type)
          /\ p # Absent => ~WouldCreateCycle(c, p)
          /\ Ask(r, "update", c, fields, p, type)
    BY <1>3 DEF CheckUpdate
  <2>2. PICK ask : ask = Row("update", c, fields, p, type)
    OBVIOUS
  <2>3. ask \in Asks /\ ~ask.overtaken /\ ask.kind = "update" /\ ask.id = c
        /\ ask.fields = fields /\ ask.parent = p /\ ask.type = type
    BY <1>1, <2>2
  <2>4. Holds(ask)
    BY <2>1, <2>3 DEF Holds
  <2>5. asked' = [asked EXCEPT ![r] = ask] /\ UNCHANGED <<category, used, raced>>
    BY <2>1, <2>2 DEF Ask
  <2>6. c \in Kept
    BY <2>1 DEF Kept, Known
  <2> QED
    BY <2>3, <2>4, <2>5, <2>6 DEF Asked
<1>4. CASE CheckRestore(r)
  <2>1. PICK c \in Categories :
          /\ category[c] # Absent
          /\ ValidParent(category[c].parent, category[c].type)
          /\ Ask(r, "restore", c, {}, category[c].parent, category[c].type)
    BY <1>4 DEF CheckRestore
  <2>2. PICK ask : ask = Row("restore", c, {}, category[c].parent, category[c].type)
    OBVIOUS
  <2>3. c \in Kept
    BY <2>1 DEF Kept, Known
  <2>4. category[c].parent \in Known \cup {Absent} /\ category[c].type \in Types
    BY <2>3, RowTypes DEF Typed, CategoryRows
  <2>5. ask \in Asks /\ ~ask.overtaken /\ ask.kind = "restore" /\ ask.id = c
    BY <1>1, <2>2, <2>4
  <2>6. Holds(ask)
    BY <2>1, <2>5 DEF Holds
  <2>7. asked' = [asked EXCEPT ![r] = ask] /\ UNCHANGED <<category, used, raced>>
    BY <2>1, <2>2 DEF Ask
  <2> QED
    BY <2>3, <2>5, <2>6, <2>7 DEF Asked
<1> QED
  BY <1>2, <1>3, <1>4

(* What a request writes. *)
LEMMA WrittenRow ==
  ASSUME RowsApart, Typed, NEW r \in Requests, asked[r] # Absent, NEW row,
         row = Written(category[asked[r].id], asked[r])
  PROVE  row \in CategoryRows /\ asked[r].id \in Categories
PROOF
<1>1. PICK ask : ask = asked[r] /\ ask \in Asks
  BY RowTypes DEF Typed
<1>2. PICK old : old = category[ask.id]
  OBVIOUS
<1>3. ask.kind # "create" => old \in CategoryRows
  BY <1>1, <1>2, RowTypes DEF Typed, AsksFound
<1>4. row = Written(old, ask)
  BY <1>1, <1>2
<1>5. CASE ask.kind = "create"
  BY <1>1, <1>4, <1>5 DEF Written, CategoryRows, Asks
<1>6. CASE ask.kind = "update"
  <2>1. PICK parent, type : /\ parent = IF "parent" \in ask.fields THEN ask.parent ELSE old.parent
                            /\ type = IF "type" \in ask.fields THEN ask.type ELSE old.type
    OBVIOUS
  <2>2. row = [old EXCEPT !.parent = parent, !.type = type]
    BY <1>4, <1>6, <2>1 DEF Written
  <2>3. parent \in Known \cup {Absent} /\ type \in Types
    BY <1>1, <1>3, <1>6, <2>1 DEF CategoryRows, Asks
  <2> QED
    BY <1>1, <1>3, <1>6, <2>2, <2>3 DEF CategoryRows, Asks
<1>7. CASE ask.kind = "restore"
  BY <1>1, <1>3, <1>4, <1>7 DEF Written, CategoryRows, Asks
<1>8. ask.kind \in {"create", "update", "restore"} /\ ask.id \in Categories
  BY <1>1 DEF Asks
<1> QED
  BY <1>1, <1>5, <1>6, <1>7, <1>8

LEMMA OvertakeTyped ==
  ASSUME RowsApart, Typed, NEW others \in SUBSET Requests
  PROVE  /\ Overtake(others) \in [Requests -> Asks \cup {Absent}]
         /\ \A r \in Requests : Overtake(others)[r] # Absent =>
              /\ asked[r] # Absent
              /\ Overtake(others)[r].kind = asked[r].kind
              /\ Overtake(others)[r].id = asked[r].id
              /\ r \in others => Overtake(others)[r].overtaken
PROOF
<1>1. ASSUME NEW r \in Requests, asked[r] # Absent
      PROVE  LET ask == [asked[r] EXCEPT !.overtaken = TRUE]
             IN  ask \in Asks /\ ask.kind = asked[r].kind /\ ask.id = asked[r].id /\ ask.overtaken
  BY <1>1, RowTypes DEF Typed, Asks
<1>2. \A r \in Requests : asked[r] \in Asks \cup {Absent}
  BY DEF Typed, TypeOKCategories
<1>3. ASSUME NEW r \in Requests PROVE Overtake(others)[r] \in Asks \cup {Absent}
  BY <1>1, <1>2 DEF Overtake
<1>4. Overtake(others) = [r \in Requests |-> Overtake(others)[r]]
  BY DEF Overtake
<1>5. Overtake(others) \in [Requests -> Asks \cup {Absent}]
  BY <1>3, <1>4
<1>6. ASSUME NEW r \in Requests, Overtake(others)[r] # Absent
      PROVE  /\ asked[r] # Absent
             /\ Overtake(others)[r].kind = asked[r].kind
             /\ Overtake(others)[r].id = asked[r].id
             /\ r \in others => Overtake(others)[r].overtaken
  BY <1>1, <1>6 DEF Overtake
<1> QED
  BY <1>5, <1>6

LEMMA WriteTyped ==
  ASSUME RowsApart, Typed, NEW r \in Requests, Write(r)
  PROVE  Typed'
PROOF
<1>1. PICK c, row : c = asked[r].id /\ row = Written(category[c], asked[r])
  OBVIOUS
<1>2. row \in CategoryRows /\ c \in Categories /\ c \in Known /\ row # Absent
  BY <1>1, WrittenRow DEF Write, Known, RowsApart
<1>3. category' = [category EXCEPT ![c] = row]
  BY <1>1 DEF Write
<1>4. category' \in [Known -> CategoryRows \cup {Absent}]
  BY <1>2, <1>3 DEF Typed, TypeOKCategories
<1>5. SystemRows'
  BY <1>2, <1>3 DEF Typed, TypeOKCategories, SystemRows, RowsApart, Known
<1>6. \A d \in Kept : d \in Kept'
  BY <1>2, <1>3 DEF Typed, TypeOKCategories, Kept
<1>7. asked' = [Overtake(Requests \ {r}) EXCEPT ![r] = Absent]
  BY DEF Write
<1>8. asked' \in [Requests -> Asks \cup {Absent}]
  BY <1>7, OvertakeTyped
<1>9. ASSUME NEW q \in Requests, asked'[q] # Absent, asked'[q].kind # "create"
      PROVE  asked'[q].id \in Kept'
  <2>1. q # r /\ asked'[q] = Overtake(Requests \ {r})[q]
    BY <1>7, <1>9, OvertakeTyped
  <2> QED
    BY <1>6, <1>9, <2>1, OvertakeTyped DEF Typed, AsksFound
<1>10. raced' \in BOOLEAN /\ used' \in [Categories -> SUBSET Types]
  BY RowTypes DEF Write, Typed, TypeOKCategories, Asks
<1> QED
  BY <1>4, <1>5, <1>8, <1>9, <1>10 DEF Typed, TypeOKCategories, AsksFound

LEMMA OvertakeAllTyped ==
  ASSUME RowsApart, Typed, asked' = Overtake(Requests), \A c \in Kept : c \in Kept'
  PROVE  asked' \in [Requests -> Asks \cup {Absent}] /\ AsksFound'
PROOF
<1>1. ASSUME NEW q \in Requests, asked'[q] # Absent, asked'[q].kind # "create"
      PROVE  asked'[q].id \in Kept'
  BY <1>1, OvertakeTyped DEF Typed, AsksFound
<1> QED
  BY <1>1, OvertakeTyped DEF AsksFound

(* What the archiving of a branch leaves of the tree. *)
LEMMA ArchivedRows ==
  ASSUME RowsApart, Typed, NEW c \in Categories, category[c] # Absent,
         category' = [d \in Known |->
           IF d \in Branch(c) THEN [category[d] EXCEPT !.isArchived = TRUE] ELSE category[d]]
  PROVE  /\ category' \in [Known -> CategoryRows \cup {Absent}]
         /\ \A d \in Known : d \notin Branch(c) => category'[d] = category[d]
         /\ \A d \in Known : d \in Branch(c) => d \in Kept /\ category'[d].isArchived
         /\ \A d \in Kept : /\ category'[d] \in CategoryRows
                            /\ category'[d].parent = category[d].parent
                            /\ category'[d].type = category[d].type
PROOF
<1>1. Branch(c) \subseteq Kept /\ Kept \subseteq Known
  BY BranchClosed DEF Kept
<1>2. ASSUME NEW d \in Kept
      PROVE  LET row == [category[d] EXCEPT !.isArchived = TRUE]
             IN  /\ row \in CategoryRows /\ row.isArchived
                 /\ row.parent = category[d].parent /\ row.type = category[d].type
  BY RowTypes DEF Typed, CategoryRows
<1>3. ASSUME NEW d \in Known, d \notin Branch(c) PROVE category'[d] = category[d]
  BY <1>3
<1>4. ASSUME NEW d \in Known, d \in Branch(c)
      PROVE  /\ d \in Kept /\ category'[d] \in CategoryRows /\ category'[d].isArchived
             /\ category'[d].parent = category[d].parent
             /\ category'[d].type = category[d].type
  BY <1>1, <1>2, <1>4
<1>5. ASSUME NEW d \in Kept
      PROVE  /\ category'[d] \in CategoryRows
             /\ category'[d].parent = category[d].parent
             /\ category'[d].type = category[d].type
  BY <1>1, <1>3, <1>4, RowTypes DEF Typed
<1>6. \A d \in Known : category'[d] \in CategoryRows \cup {Absent}
  BY <1>3, <1>4 DEF Typed, TypeOKCategories
<1>7. category' = [d \in Known |-> category'[d]]
  OBVIOUS
<1> QED
  BY <1>3, <1>4, <1>5, <1>6, <1>7

LEMMA ArchiveTyped ==
  ASSUME RowsApart, Typed, ArchiveBranch
  PROVE  Typed'
PROOF
<1>1. PICK c \in Categories :
        /\ category[c] # Absent
        /\ category' = [d \in Known |->
             IF d \in Branch(c) THEN [category[d] EXCEPT !.isArchived = TRUE] ELSE category[d]]
        /\ asked' = Overtake(Requests)
        /\ UNCHANGED <<used, raced>>
  BY DEF ArchiveBranch
<1>2. category' \in [Known -> CategoryRows \cup {Absent}]
  BY <1>1, ArchivedRows
<1>3. \A d \in Kept : category'[d] \in CategoryRows
  BY <1>1, ArchivedRows
<1>4. \A d \in Kept : d \in Kept'
  BY <1>3 DEF RowsApart, Kept
<1>5. ASSUME NEW d \in SystemCategories PROVE category'[d] = category[d]
  <2>1. d \in Known /\ d \notin Branch(c)
    BY <1>1, BranchClosed DEF RowsApart, Known
  <2> QED
    BY <1>1, <2>1, ArchivedRows
<1>6. SystemRows'
  BY <1>5 DEF Typed, SystemRows
<1>7. asked' \in [Requests -> Asks \cup {Absent}] /\ AsksFound'
  BY <1>1, <1>4, OvertakeAllTyped
<1> QED
  BY <1>1, <1>2, <1>6, <1>7 DEF Typed, TypeOKCategories

LEMMA UseTyped == ASSUME RowsApart, Typed, Use PROVE Typed'
PROOF
<1>1. PICK c \in Categories :
        /\ category[c] # Absent
        /\ used' = [used EXCEPT ![c] = @ \cup {category[c].type}]
        /\ asked' = Overtake(Requests)
        /\ UNCHANGED <<category, raced>>
  BY DEF Use
<1>2. category[c].type \in Types
  BY <1>1, RowTypes DEF Typed, Kept, Known, CategoryRows
<1>3. used' \in [Categories -> SUBSET Types]
  BY <1>1, <1>2 DEF Typed, TypeOKCategories
<1>4. \A d \in Kept : d \in Kept'
  BY <1>1 DEF Kept
<1>5. asked' \in [Requests -> Asks \cup {Absent}] /\ AsksFound'
  BY <1>1, <1>4, OvertakeAllTyped
<1> QED
  BY <1>1, <1>3, <1>5 DEF Typed, TypeOKCategories, SystemRows

(* Categories stay, what they are used for does not grow, and a request    *)
(* ends.                                                                   *)
LEMMA QuietTyped ==
  ASSUME RowsApart, Typed, Release \/ \E r \in Requests : Abandon(r)
  PROVE  /\ Typed'
         /\ UNCHANGED <<category, raced>>
         /\ \A c \in Categories : used'[c] \subseteq used[c]
         /\ \A r \in Requests : asked'[r] \in {asked[r], Absent}
PROOF
<1>1. CASE Release
  <2>1. PICK c \in Categories : used' = [used EXCEPT ![c] = {}]
    BY <1>1 DEF Release
  <2>2. used' \in [Categories -> SUBSET Types] /\ \A d \in Categories : used'[d] \subseteq used[d]
    BY <2>1 DEF Typed, TypeOKCategories
  <2>3. UNCHANGED <<category, asked, raced>>
    BY <1>1 DEF Release
  <2> QED
    BY <2>2, <2>3 DEF Typed, TypeOKCategories, SystemRows, AsksFound, Kept
<1>2. CASE \E r \in Requests : Abandon(r)
  <2>1. PICK r \in Requests : /\ asked' = [asked EXCEPT ![r] = Absent]
                             /\ UNCHANGED <<category, used, raced>>
    BY <1>2 DEF Abandon
  <2>2. \A q \in Requests : asked'[q] = IF q = r THEN Absent ELSE asked[q]
    BY <2>1 DEF Typed, TypeOKCategories
  <2>3. TypeOKCategories' /\ SystemRows'
    BY <2>1 DEF Typed, TypeOKCategories, SystemRows
  <2>4. AsksFound'
    BY <2>1, <2>2 DEF Typed, AsksFound, Kept
  <2> QED
    BY <2>1, <2>2, <2>3, <2>4 DEF Typed
<1> QED
  BY <1>1, <1>2

-----------------------------------------------------------------------------
(* Every step keeps the forest while no request has written late. *)

LEMMA ForestParents ==
  ASSUME RowsApart, Typed, Forest
  PROVE  ParentsKept
PROOF
<1>1. ASSUME NEW c \in Kept PROVE category[c].parent \in Kept \cup {Absent}
  <2>1. CASE c \in Categories
    BY <2>1 DEF Forest, Sound
  <2>2. CASE c \in SystemCategories
    BY <2>2 DEF Typed, SystemRows
  <2> QED
    BY <2>1, <2>2 DEF Kept, Known
<1> QED
  BY <1>1 DEF ParentsKept

LEMMA SameParents ==
  ASSUME RowsApart, Loopless, NEW tree,
         \A c \in Known : tree[c] # Absent => category[c] # Absent /\ tree[c].parent = category[c].parent
  PROVE  \A S \in SUBSET Known : ~Loop(tree, S)
PROOF
<1> SUFFICES ASSUME NEW S \in SUBSET Known, Loop(tree, S) PROVE FALSE
  OBVIOUS
<1>1. Loop(category, S)
  BY DEF Loop
<1> QED
  BY <1>1 DEF Loopless

LEMMA ForestStays ==
  ASSUME Forest, UNCHANGED category, \A c \in Categories : used'[c] \subseteq used[c]
  PROVE  Forest'
PROOF
<1>1. Kept' = Kept
  BY DEF Kept
<1>2. Loopless'
  BY DEF Forest, Loopless
<1>3. ASSUME NEW c \in Categories PROVE IF c \in Kept' THEN Sound(c)' ELSE used'[c] = {}
  <2>1. CASE c \in Kept
    <3>1. Sound(c)
      BY <2>1 DEF Forest
    <3> QED
      BY <1>1, <2>1, <3>1 DEF Sound, ValidParent
  <2>2. CASE c \notin Kept
    BY <1>1, <2>2 DEF Forest
  <2> QED
    BY <2>1, <2>2
<1> QED
  BY <1>2, <1>3 DEF Forest

LEMMA HoldsStays ==
  ASSUME UNCHANGED category, \A c \in Categories : used'[c] \subseteq used[c],
         NEW ask \in Asks, Holds(ask)
  PROVE  Holds(ask)'
PROOF
<1>1. ask.id \in Categories
  BY DEF Asks
<1>2. \A p, type : ValidParent(p, type)' <=> ValidParent(p, type)
  BY DEF ValidParent
<1>3. HasDependencies(ask.id)' => HasDependencies(ask.id)
  BY <1>1 DEF HasDependencies
<1>4. WouldCreateCycle(ask.id, ask.parent)' <=> WouldCreateCycle(ask.id, ask.parent)
  BY DEF WouldCreateCycle
<1>5. Kept' = Kept
  BY DEF Kept
<1> QED
  BY <1>2, <1>3, <1>4, <1>5 DEF Holds

(* One row is written: it agrees with its parent, and its children with it. *)
LEMMA RowWritten ==
  ASSUME RowsApart, Typed, Forest, NEW c \in Categories, NEW row \in CategoryRows,
         category' = [category EXCEPT ![c] = row], used' = used,
         \A S \in SUBSET Known : ~Loop(category', S),
         \A d \in Categories \cap Kept : category[d].parent = c =>
           row.type = category[c].type /\ (row.isArchived => category[c].isArchived),
         row.parent # Absent =>
           /\ row.parent \in Kept \ {c} /\ category[row.parent].type = row.type,
         row.isArchived \/ ValidParent(row.parent, row.type),
         used[c] \subseteq {row.type}
  PROVE  Forest'
PROOF
<1>1. ParentsKept
  BY ForestParents
<1>2. \A d \in Known : category'[d] = IF d = c THEN row ELSE category[d]
  BY DEF Typed, TypeOKCategories
<1>3. c \in Known /\ row # Absent
  BY DEF RowsApart, Known
<1>4. Kept' = Kept \cup {c}
  BY <1>2, <1>3 DEF Kept
<1>5. Loopless'
  BY DEF Loopless
<1>6. Sound(c)'
  <2>1. category'[c] = row
    BY <1>2, <1>3
  <2>2. row.parent # Absent => category'[row.parent] = category[row.parent]
    BY <1>2 DEF Kept
  <2>3. row.isArchived \/ ValidParent(row.parent, row.type)'
    BY <2>2 DEF ValidParent
  <2> QED
    BY <1>4, <2>1, <2>2, <2>3 DEF Sound
<1>7. ASSUME NEW d \in Categories, d # c, d \in Kept PROVE Sound(d)'
  <2>1. Sound(d) /\ category'[d] = category[d]
    BY <1>2, <1>7 DEF Forest, Kept
  <2>2. CASE category[d].parent = c
    <3>1. /\ category'[c] = row /\ c \in Kept /\ c # Absent
          /\ row.type = category[c].type /\ (row.isArchived => category[c].isArchived)
      BY <1>2, <1>3, <1>7, <2>1, <2>2, KnownIsFinite DEF Sound
    <3>2. category[d].isArchived \/ ValidParent(c, category[d].type)'
      BY <1>3, <2>1, <2>2, <3>1 DEF Sound, ValidParent
    <3> QED
      BY <1>4, <2>1, <2>2, <3>1, <3>2 DEF Sound
  <2>3. CASE category[d].parent # c
    <3>1. category[d].parent # Absent => category'[category[d].parent] = category[category[d].parent]
      BY <1>2, <2>1, <2>3 DEF Sound, Kept
    <3>2. category[d].isArchived \/ ValidParent(category[d].parent, category[d].type)'
      BY <2>1, <3>1 DEF Sound, ValidParent
    <3> QED
      BY <1>4, <2>1, <3>1, <3>2 DEF Sound
  <2> QED
    BY <2>2, <2>3
<1>8. \A d \in Categories : d \notin Kept' => used'[d] = {}
  BY <1>4 DEF Forest
<1> QED
  BY <1>4, <1>5, <1>6, <1>7, <1>8 DEF Forest

LEMMA CreateKeepsForest ==
  ASSUME RowsApart, Typed, Forest, NEW ask \in Asks, ask.kind = "create", Holds(ask),
         NEW row, row = Written(category[ask.id], ask), row \in CategoryRows,
         category' = [category EXCEPT ![ask.id] = row], used' = used
  PROVE  Forest'
PROOF
<1>1. PICK c, p : c = ask.id /\ p = ask.parent
  OBVIOUS
<1>2. c \in Categories /\ c \in Known /\ c \notin Kept /\ ValidParent(p, ask.type)
      /\ p \in Known \cup {Absent} /\ Absent \notin Known
  BY <1>1, KnownIsFinite DEF Holds, Asks, Known
<1>3. row.parent = p /\ row.type = ask.type /\ ~row.isArchived
  BY <1>1 DEF Written
<1>4. ParentsKept
  BY ForestParents
<1>5. \A d \in Known : category'[d] = IF d = c THEN row ELSE category[d]
  BY <1>1 DEF Typed, TypeOKCategories
<1>6. p # Absent => p \in Kept /\ p # c /\ category[p].type = row.type
  BY <1>2, <1>3 DEF ValidParent, Kept
<1>7. ASSUME NEW S \in SUBSET Known, Loop(category', S) PROVE FALSE
  <2>1. ASSUME NEW d \in S, d # c PROVE d \in Kept /\ category[d].parent \in S \ {c}
    <3>1. category[d] # Absent /\ category[d].parent \in S
      BY <1>5, <1>7, <2>1 DEF Loop
    <3> QED
      BY <1>2, <1>4, <3>1 DEF ParentsKept, Kept
  <2>2. c \in S => p \in S \ {c}
    BY <1>2, <1>3, <1>5, <1>6, <1>7 DEF Loop
  <2>3. S \ {c} # {}
    BY <1>7, <2>2 DEF Loop
  <2>4. Loop(category, S \ {c})
    BY <2>1, <2>3 DEF Loop, Kept
  <2> QED
    BY <2>4 DEF Forest, Loopless
<1>8. \A d \in Categories \cap Kept : category[d].parent # c
  BY <1>2, <1>4 DEF ParentsKept
<1>9. used[c] = {}
  BY <1>2 DEF Forest
<1>10. category' = [category EXCEPT ![c] = row]
  BY <1>1
<1> QED
  BY <1>2, <1>3, <1>6, <1>7, <1>8, <1>9, <1>10, RowWritten

LEMMA UpdateKeepsForest ==
  ASSUME RowsApart, Typed, Forest, NEW ask \in Asks, ask.kind = "update", Holds(ask),
         ask.id \in Kept,
         NEW row, row = Written(category[ask.id], ask), row \in CategoryRows,
         category' = [category EXCEPT ![ask.id] = row], used' = used
  PROVE  Forest'
PROOF
<1>1. PICK c, p : c = ask.id /\ p = ask.parent
  OBVIOUS
<1>2. /\ c \in Categories /\ c \in Known /\ c \in Kept /\ ValidParent(p, ask.type)
      /\ p \in Known \cup {Absent} /\ Absent \notin Known
      /\ ask.type # category[c].type => ~HasDependencies(c)
      /\ p # Absent => ~WouldCreateCycle(c, p)
  BY <1>1, KnownIsFinite DEF Holds, Asks, Known
<1>3. row.parent = p /\ row.type = ask.type /\ ~row.isArchived
  <2>1. category[c] \in CategoryRows /\ ~category[c].isArchived
    BY <1>1, <1>2, RowTypes DEF Typed, Holds
  <2> QED
    BY <1>1, <2>1 DEF Written, Holds, CategoryRows
<1>4. ParentsKept
  BY ForestParents
<1>5. \A d \in Known : category'[d] = IF d = c THEN row ELSE category[d]
  BY <1>1 DEF Typed, TypeOKCategories
<1>6. p # Absent => p \in Kept /\ category[p].type = row.type
  BY <1>2, <1>3 DEF ValidParent, Kept
<1>7. ASSUME p # Absent, p = c PROVE FALSE
  <2>1. PICK g : /\ Walk(g, p)
                 /\ WouldCreateCycle(c, p) <=>
                      \/ g[Cardinality(Known)] # Absent
                      \/ \E n \in 0..Cardinality(Known) : g[n] = c
    BY <1>4, <1>6, <1>7, Walks
  <2>2. 0 \in 0..Cardinality(Known) /\ g[0] = c
    BY <1>7, <2>1, KnownIsFinite DEF Walk
  <2> QED
    BY <1>2, <1>7, <2>1, <2>2
<1>8. ASSUME NEW S \in SUBSET Known, Loop(category', S) PROVE FALSE
  <2>1. CASE p = Absent
    <3>1. c \notin S
      BY <1>2, <1>3, <1>5, <1>8, <2>1 DEF Loop
    <3>2. Loop(category, S)
      BY <1>5, <1>8, <3>1 DEF Loop
    <3> QED
      BY <3>2 DEF Forest, Loopless
  <2>2. CASE p # Absent
    <3>1. PICK tree : tree = category'
      OBVIOUS
    <3>2. /\ tree[c].parent = p /\ Loop(tree, S)
          /\ \A d \in Known \ {c} : tree[d] = category[d]
      BY <1>2, <1>3, <1>5, <1>8, <3>1
    <3>3. Loopless /\ p \in Kept /\ ~WouldCreateCycle(c, p)
      BY <1>2, <1>6, <2>2 DEF Forest
    <3> QED
      BY <1>2, <1>4, <3>2, <3>3, MoveIsLoopless
  <2> QED
    BY <2>1, <2>2
<1>9. ASSUME NEW d \in Categories \cap Kept, category[d].parent = c
      PROVE  row.type = category[c].type
  BY <1>2, <1>3, <1>9 DEF HasDependencies, Kept
<1>10. used[c] \subseteq {row.type}
  <2>1. CASE ask.type = category[c].type
    BY <1>2, <1>3, <2>1 DEF Forest, Sound
  <2>2. CASE ask.type # category[c].type
    BY <1>2, <2>2 DEF HasDependencies
  <2> QED
    BY <2>1, <2>2
<1>11. category' = [category EXCEPT ![c] = row]
  BY <1>1
<1>12. row.parent # Absent => row.parent \in Kept \ {c} /\ category[row.parent].type = row.type
  BY <1>3, <1>6, <1>7
<1>13. row.isArchived \/ ValidParent(row.parent, row.type)
  BY <1>2, <1>3
<1>14. \A S \in SUBSET Known : ~Loop(category', S)
  BY <1>8
<1>15. \A d \in Categories \cap Kept : category[d].parent = c =>
         row.type = category[c].type /\ (row.isArchived => category[c].isArchived)
  BY <1>3, <1>9
<1>16. RowsApart /\ Typed /\ Forest /\ row \in CategoryRows /\ c \in Categories /\ used' = used
  BY <1>2
<1> QED
  BY ONLY <1>10, <1>11, <1>12, <1>13, <1>14, <1>15, <1>16, RowWritten

LEMMA RestoreKeepsForest ==
  ASSUME RowsApart, Typed, Forest, NEW ask \in Asks, ask.kind = "restore", Holds(ask),
         ask.id \in Kept,
         NEW row, row = Written(category[ask.id], ask), row \in CategoryRows,
         category' = [category EXCEPT ![ask.id] = row], used' = used
  PROVE  Forest'
PROOF
<1>1. PICK c : c = ask.id
  OBVIOUS
<1>2. /\ c \in Categories /\ c \in Known /\ c \in Kept
      /\ ValidParent(category[c].parent, category[c].type)
  BY <1>1 DEF Holds, Asks, Known
<1>3. /\ row.parent = category[c].parent /\ row.type = category[c].type /\ ~row.isArchived
  <2>1. category[c] \in CategoryRows
    BY <1>2, RowTypes DEF Typed
  <2> QED
    BY <1>1, <2>1 DEF Written, CategoryRows
<1>4. \A d \in Known : category'[d] = IF d = c THEN row ELSE category[d]
  BY <1>1 DEF Typed, TypeOKCategories
<1>5. \A S \in SUBSET Known : ~Loop(category', S)
  <2>1. PICK tree : tree = category'
    OBVIOUS
  <2>2. \A d \in Known : tree[d] # Absent => category[d] # Absent /\ tree[d].parent = category[d].parent
    BY <1>2, <1>3, <1>4, <2>1 DEF Kept
  <2> QED
    BY <2>1, <2>2, SameParents DEF Forest
<1>6. row.parent # c
  <2>1. ASSUME category[c].parent = c PROVE FALSE
    <3>1. Loop(category, {c})
      BY <1>2, <2>1 DEF Loop, Kept
    <3> QED
      BY <1>2, <3>1 DEF Forest, Loopless
  <2> QED
    BY <1>3, <2>1
<1>7. Sound(c)
  BY <1>2 DEF Forest
<1>8. row.parent # Absent => row.parent \in Kept /\ category[row.parent].type = row.type
  BY <1>3, <1>7 DEF Sound
<1>9. used[c] \subseteq {row.type}
  BY <1>3, <1>7 DEF Sound
<1>10. category' = [category EXCEPT ![c] = row]
  BY <1>1
<1> QED
  BY <1>2, <1>3, <1>5, <1>6, <1>8, <1>9, <1>10, RowWritten

LEMMA WriteKeepsForest ==
  ASSUME RowsApart, Typed, Forest, NEW r \in Requests, Write(r), Holds(asked[r])
  PROVE  Forest'
PROOF
<1>1. PICK ask, row : /\ ask = asked[r] /\ ask \in Asks
                      /\ row = Written(category[ask.id], ask)
  BY RowTypes DEF Write, Typed
<1>2. row \in CategoryRows
  BY <1>1, WrittenRow DEF Write
<1>3. category' = [category EXCEPT ![ask.id] = row] /\ used' = used
  BY <1>1 DEF Write
<1>4. Holds(ask) /\ (ask.kind # "create" => ask.id \in Kept)
  BY <1>1 DEF Write, Typed, AsksFound
<1>5. ask.kind \in {"create", "update", "restore"}
  BY <1>1 DEF Asks
<1> QED
  BY <1>1, <1>2, <1>3, <1>4, <1>5, CreateKeepsForest, UpdateKeepsForest, RestoreKeepsForest

LEMMA ArchiveKeepsForest ==
  ASSUME RowsApart, Typed, Forest, ArchiveBranch
  PROVE  Forest'
PROOF
<1>1. PICK c \in Categories :
        /\ category[c] # Absent
        /\ category' = [d \in Known |->
             IF d \in Branch(c) THEN [category[d] EXCEPT !.isArchived = TRUE] ELSE category[d]]
        /\ used' = used
  BY DEF ArchiveBranch
<1>2. PICK branch : branch = Branch(c)
  OBVIOUS
<1>3. /\ \A d \in Known : d \notin branch => category'[d] = category[d]
      /\ \A d \in Known : d \in branch => d \in Kept /\ category'[d].isArchived
      /\ \A d \in Kept : /\ category'[d] \in CategoryRows
                         /\ category'[d].parent = category[d].parent
                         /\ category'[d].type = category[d].type
  BY <1>1, <1>2, ArchivedRows
<1>4. \A d \in Categories \cap Kept : category[d].parent \in branch => d \in branch
  BY <1>1, <1>2, BranchClosed
<1>5. Kept' = Kept
  <2>1. \A d \in Known : d \in Kept <=> category'[d] # Absent
    BY <1>3 DEF Kept, RowsApart
  <2> QED
    BY <2>1 DEF Kept
<1>6. Loopless'
  <2>1. PICK tree : tree = category'
    OBVIOUS
  <2>2. \A d \in Known : tree[d] # Absent => category[d] # Absent /\ tree[d].parent = category[d].parent
    BY <1>3, <1>5, <2>1 DEF Kept
  <2>3. \A S \in SUBSET Known : ~Loop(tree, S)
    BY <2>2, SameParents DEF Forest
  <2> QED
    BY <2>1, <2>3 DEF Loopless
<1>7. ASSUME NEW d \in Categories, d \in Kept PROVE Sound(d)'
  <2>1. Sound(d)
    BY <1>7 DEF Forest
  <2>2. PICK p, type : p = category[d].parent /\ type = category[d].type
    OBVIOUS
  <2>3. category'[d].parent = p /\ category'[d].type = type
    BY <1>3, <1>7, <2>2
  <2>4. p # Absent => p \in Kept' /\ category'[p].type = type
    BY <1>3, <1>5, <2>1, <2>2 DEF Sound
  <2>5. category'[d].isArchived \/ ValidParent(p, type)'
    <3>1. CASE d \in branch
      BY <1>3, <1>7, <3>1 DEF Kept
    <3>2. CASE d \notin branch
      <4>1. category'[d] = category[d]
        BY <1>3, <1>7, <3>2 DEF Kept
      <4>2. p # Absent => category'[p] = category[p]
        BY <1>3, <1>4, <1>7, <2>1, <2>2, <3>2 DEF Sound, Kept
      <4> QED
        BY <2>1, <2>2, <4>1, <4>2 DEF Sound, ValidParent
    <3> QED
      BY <3>1, <3>2
  <2>6. used'[d] \subseteq {type}
    BY <1>1, <2>1, <2>2 DEF Sound
  <2> QED
    BY <2>3, <2>4, <2>5, <2>6 DEF Sound
<1>8. \A d \in Categories : d \notin Kept' => used'[d] = {}
  BY <1>1, <1>5 DEF Forest
<1> QED
  BY <1>5, <1>6, <1>7, <1>8 DEF Forest

LEMMA UseKeepsForest ==
  ASSUME RowsApart, Typed, Forest, Use
  PROVE  Forest'
PROOF
<1>1. PICK c \in Categories :
        /\ category[c] # Absent
        /\ used' = [used EXCEPT ![c] = @ \cup {category[c].type}]
        /\ category' = category
  BY DEF Use
<1>2. \A d \in Categories :
        used'[d] = IF d = c THEN used[c] \cup {category[c].type} ELSE used[d]
  BY <1>1 DEF Typed, TypeOKCategories
<1>3. Kept' = Kept /\ c \in Kept
  BY <1>1 DEF Kept, Known
<1>4. Loopless'
  BY <1>1 DEF Forest, Loopless
<1>5. ASSUME NEW d \in Categories, d \in Kept PROVE Sound(d)'
  <2>1. Sound(d)
    BY <1>5 DEF Forest
  <2>2. used'[d] \subseteq {category[d].type}
    BY <1>2, <2>1 DEF Sound
  <2> QED
    BY <1>1, <1>3, <2>1, <2>2 DEF Sound, ValidParent
<1>6. \A d \in Categories : d \notin Kept' => used'[d] = {}
  BY <1>2, <1>3 DEF Forest
<1> QED
  BY <1>3, <1>4, <1>5, <1>6 DEF Forest

-----------------------------------------------------------------------------
(* The invariant. *)

LEMMA AllOvertaken ==
  ASSUME RowsApart, Typed, NEW r,
         asked' = Overtake(Requests) \/ asked' = [Overtake(Requests \ {r}) EXCEPT ![r] = Absent]
  PROVE  \A q \in Requests : asked'[q] # Absent => asked'[q].overtaken
PROOF
<1>1. CASE asked' = Overtake(Requests)
  BY <1>1, OvertakeTyped
<1>2. CASE asked' = [Overtake(Requests \ {r}) EXCEPT ![r] = Absent]
  <2>1. ASSUME NEW q \in Requests, asked'[q] # Absent PROVE asked'[q].overtaken
    <3>1. q # r /\ asked'[q] = Overtake(Requests \ {r})[q]
      BY <1>2, <2>1, OvertakeTyped
    <3> QED
      BY <2>1, <3>1, OvertakeTyped
  <2> QED
    BY <2>1
<1> QED
  BY <1>1, <1>2

LEMMA CategoriesNext ==
  ASSUME RowsApart, CategoriesInv, [NextCategories]_categoryVars
  PROVE  CategoriesInv'
PROOF
<1>1. Typed
  BY DEF CategoriesInv, Typed
<1>2. SUFFICES Typed' /\ (~raced' => Forest' /\ AsksHold')
  BY DEF CategoriesInv, Typed
<1>3. ASSUME NEW r \in Requests, Asked(r) PROVE Typed' /\ (~raced' => Forest' /\ AsksHold')
  <2>1. PICK ask \in Asks :
          /\ ~ask.overtaken
          /\ ask.kind # "create" => ask.id \in Kept
          /\ Holds(ask)
          /\ asked' = [asked EXCEPT ![r] = ask]
          /\ UNCHANGED <<category, used, raced>>
    BY <1>3 DEF Asked
  <2>2. Typed'
    BY <1>1, <2>1, AskTyped
  <2>3. ASSUME ~raced' PROVE Forest' /\ AsksHold'
    <3>1. Forest /\ AsksHold
      BY <2>1, <2>3 DEF CategoriesInv
    <3>2. Forest'
      BY <2>1, <3>1, ForestStays
    <3>3. ASSUME NEW q \in Requests, asked'[q] # Absent, ~asked'[q].overtaken
          PROVE  Holds(asked[q])'
      <4>1. PICK a : a = asked'[q]
        OBVIOUS
      <4>2. a \in Asks /\ Holds(a)
        <5>1. CASE q = r
          BY <1>1, <2>1, <4>1, <5>1 DEF Typed, TypeOKCategories
        <5>2. CASE q # r
          <6>1. a = asked[q]
            BY <1>1, <2>1, <4>1, <5>2 DEF Typed, TypeOKCategories
          <6> QED
            BY <1>1, <3>1, <3>3, <4>1, <6>1, RowTypes DEF Typed, AsksHold
        <5> QED
          BY <5>1, <5>2
      <4>3. Holds(a)'
        BY <2>1, <4>2, HoldsStays
      <4> QED
        BY <4>1, <4>3
    <3> QED
      BY <3>2, <3>3 DEF AsksHold
  <2> QED
    BY <2>2, <2>3
<1>4. ASSUME NEW r \in Requests, Write(r) PROVE Typed' /\ (~raced' => Forest' /\ AsksHold')
  <2>1. Typed'
    BY <1>1, <1>4, WriteTyped
  <2>2. ASSUME ~raced' PROVE Forest' /\ AsksHold'
    <3>1. ~raced /\ asked[r] # Absent /\ ~asked[r].overtaken
      BY <1>4, <2>2 DEF Write
    <3>2. Forest /\ Holds(asked[r])
      BY <3>1 DEF CategoriesInv, AsksHold
    <3>3. Forest'
      BY <1>1, <1>4, <3>2, WriteKeepsForest
    <3>4. \A q \in Requests : asked'[q] # Absent => asked'[q].overtaken
      BY <1>1, <1>4, AllOvertaken DEF Write
    <3> QED
      BY <3>3, <3>4 DEF AsksHold
  <2> QED
    BY <2>1, <2>2
<1>5. ASSUME ArchiveBranch \/ Use PROVE Typed' /\ (~raced' => Forest' /\ AsksHold')
  <2>1. Typed'
    BY <1>1, <1>5, ArchiveTyped, UseTyped
  <2>2. raced' = raced /\ asked' = Overtake(Requests)
    BY <1>5 DEF ArchiveBranch, Use
  <2>3. ~raced' => Forest'
    BY <1>1, <1>5, <2>2, ArchiveKeepsForest, UseKeepsForest DEF CategoriesInv
  <2>4. \A q \in Requests : asked'[q] # Absent => asked'[q].overtaken
    BY <1>1, <2>2, AllOvertaken
  <2> QED
    BY <2>1, <2>3, <2>4 DEF AsksHold
<1>6. ASSUME Release \/ \E r \in Requests : Abandon(r)
      PROVE  Typed' /\ (~raced' => Forest' /\ AsksHold')
  <2>1. /\ Typed' /\ UNCHANGED <<category, raced>>
        /\ \A c \in Categories : used'[c] \subseteq used[c]
        /\ \A r \in Requests : asked'[r] \in {asked[r], Absent}
    BY <1>1, <1>6, QuietTyped
  <2>2. ASSUME ~raced' PROVE Forest' /\ AsksHold'
    <3>1. Forest /\ AsksHold
      BY <2>1, <2>2 DEF CategoriesInv
    <3>2. Forest'
      BY <2>1, <3>1, ForestStays
    <3>3. ASSUME NEW q \in Requests, asked'[q] # Absent, ~asked'[q].overtaken
          PROVE  Holds(asked[q])'
      <4>1. PICK a : a = asked'[q] /\ a = asked[q]
        BY <2>1, <3>3
      <4>2. a \in Asks /\ Holds(a)
        BY <1>1, <3>1, <3>3, <4>1, RowTypes DEF Typed, AsksHold
      <4>3. Holds(a)'
        BY <2>1, <4>2, HoldsStays
      <4> QED
        BY <4>1, <4>3
    <3> QED
      BY <3>2, <3>3 DEF AsksHold
  <2> QED
    BY <2>1, <2>2
<1>7. CASE UNCHANGED categoryVars
  <2>1. Typed'
    BY <1>1, <1>7 DEF categoryVars, Typed, TypeOKCategories, SystemRows, AsksFound, Kept
  <2>2. ASSUME ~raced' PROVE Forest' /\ AsksHold'
    <3>1. Forest /\ AsksHold /\ UNCHANGED <<category, used, asked>>
      BY <1>7, <2>2 DEF categoryVars, CategoriesInv
    <3>2. Forest'
      BY <3>1, ForestStays
    <3>3. ASSUME NEW q \in Requests, asked'[q] # Absent, ~asked'[q].overtaken
          PROVE  Holds(asked[q])'
      <4>1. PICK a : a = asked'[q] /\ a = asked[q]
        BY <3>1
      <4>2. a \in Asks /\ Holds(a)
        BY <1>1, <3>1, <3>3, <4>1, RowTypes DEF Typed, AsksHold
      <4>3. Holds(a)'
        BY <3>1, <4>2, HoldsStays
      <4> QED
        BY <4>1, <4>3
    <3> QED
      BY <3>2, <3>3 DEF AsksHold
  <2> QED
    BY <2>1, <2>2
<1> QED
  BY <1>1, <1>3, <1>4, <1>5, <1>6, <1>7, ChecksAsk DEF NextCategories

LEMMA CategoriesInit == ASSUME RowsApart, InitCategories PROVE CategoriesInv
PROOF
<1>1. [parent |-> Absent, type |-> SystemType, isArchived |-> FALSE] \in CategoryRows
  BY DEF RowsApart, CategoryRows
<1>2. TypeOKCategories
  BY <1>1 DEF InitCategories, TypeOKCategories
<1>3. SystemRows /\ AsksFound /\ AsksHold
  BY DEF InitCategories, SystemRows, AsksFound, AsksHold, Known
<1>4. \A c \in Categories : c \notin Kept /\ used[c] = {}
  BY DEF InitCategories, Kept, RowsApart, Known
<1>5. Loopless
  <2>1. ASSUME NEW S \in SUBSET Known, Loop(category, S) PROVE FALSE
    <3>1. PICK c \in S : category[c] # Absent /\ category[c].parent \in S
      BY <2>1 DEF Loop
    <3>2. category[c].parent = Absent
      BY <2>1, <3>1 DEF InitCategories
    <3> QED
      BY <2>1, <3>1, <3>2, KnownIsFinite
  <2> QED
    BY <2>1 DEF Loopless
<1> QED
  BY <1>2, <1>3, <1>4, <1>5 DEF CategoriesInv, Forest

LEMMA ForestHolds == ASSUME RowsApart, CategoriesInv PROVE CategoriesFormForest
PROOF
<1>1. ASSUME ~raced, NEW c \in Categories, category[c] # Absent
      PROVE  /\ category[c].parent # Absent => ~WouldCreateCycle(c, category[c].parent)
             /\ category[c].isArchived \/ ValidParent(category[c].parent, category[c].type)
             /\ category[c].parent # Absent => category[category[c].parent].type = category[c].type
             /\ used[c] \subseteq {category[c].type}
  <2>1. Forest /\ Typed /\ c \in Kept
    BY <1>1 DEF CategoriesInv, Typed, Kept, Known
  <2>2. Sound(c)
    BY <2>1 DEF Forest
  <2>3. category[c].parent # Absent => ~WouldCreateCycle(c, category[c].parent)
    BY <2>1, ForestHasNoCycle, ForestParents DEF Forest
  <2> QED
    BY <2>2, <2>3 DEF Sound
<1> QED
  BY <1>1 DEF CategoriesFormForest

(* What holds of every reachable state, whatever the requests do. *)
THEOREM CategoriesInvHolds == SpecCategories => []CategoriesInv
PROOF
<1>1. InitCategories => CategoriesInv
  BY CategoriesInit, CategoriesAssumption
<1>2. CategoriesInv /\ [NextCategories]_categoryVars => CategoriesInv'
  BY CategoriesNext, CategoriesAssumption
<1> QED
  BY <1>1, <1>2, PTL DEF SpecCategories

(* Moves, edits, archiving and restoring leave a forest, unless a request  *)
(* wrote after others had written since its checks (category.service.ts).  *)
THEOREM FormForest == SpecCategories => []CategoriesFormForest
PROOF
<1>1. CategoriesInv => CategoriesFormForest
  BY ForestHolds, CategoriesAssumption
<1> QED
  BY <1>1, CategoriesInvHolds, PTL

(* Rows and requests have the types of their columns, races or not.        *)
THEOREM CategoriesTyped == SpecCategories => []TypeOKCategories
PROOF
<1>1. CategoriesInv => TypeOKCategories
  BY DEF CategoriesInv
<1> QED
  BY <1>1, CategoriesInvHolds, PTL
===============================================================================
