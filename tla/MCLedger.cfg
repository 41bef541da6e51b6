SPECIFICATION Spec
CONSTANTS
  None = None
  Users = {u1}
  Wallets = {w1, w2}
  Txns = {t1, t2}
  Transfers = {x1}
  Currencies = {VND}
  Months = {jan}
  Amounts = {1, 2}
  Balances = {1}
  Limits = {}
SYMMETRY Ids
INVARIANTS
  TypeOK
  BalanceConserved
  DefaultWallets
  NoSavingsSpending
PROPERTIES
  BookSpec
  ArchivedOnlyLosesRows
