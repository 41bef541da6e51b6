SPECIFICATION Spec
CONSTANTS
  None = None
  RateUnit = 10
  Loans <- MCLoans
  PenaltyFees = {0, 1}
  InitialBalance = 7
  MonthDays = 2
  NoticeDays = 1
  LastDay = 5
  MaxFailures = 1
INVARIANTS
  TypeOK
  LoanAddsUp
PROPERTIES
  OverdueIsMarked
