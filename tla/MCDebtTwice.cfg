SPECIFICATION Spec
CONSTANTS
  None = None
  RateUnit = 10
  Loans <- ShortLoans
  PenaltyFees = {0, 1}
  InitialBalance = 7
  MonthDays = 2
  NoticeDays = 1
  LastDay = 5
  MaxFailures = 0
INVARIANTS
  PaidOnce
