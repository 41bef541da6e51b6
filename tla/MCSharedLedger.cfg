SPECIFICATION Spec
CONSTANTS
  None = None
  Users = {ann, bob}
  Wallets = {w1, w2}
  Txns = {t1, t2}
  Transfers = {}
  Currencies = {VND}
  Months = {jan, feb}
  Amounts = {1}
  Balances = {}
  Limits = {1}
SYMMETRY Ids
PROPERTIES
  RolesRespected
  QuotaOfAdditions
