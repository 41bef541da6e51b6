SPECIFICATION Spec
CONSTANTS
  d1 = d1
  w1 = w1
  k1 = k1
  k2 = k2
  r1 = r1
  None = None
  Wallets <- MCWallets
  Deposits <- MCDeposits
  Workers <- OneWorker
  Requests <- MCRequests
  Amounts <- MCAmounts
  Rates <- MCRates
  StartDays <- MCStartDays
  NonTermRate = 0
  Patches <- MCPatches
  InitialBalance = 1
  LastDay = 1
  MaxFailures = 0
PROPERTIES
  CapitalConserved
