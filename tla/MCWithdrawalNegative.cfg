SPECIFICATION Spec
CONSTANTS
  t1 = t1
  t2 = t2
  t3 = t3
  a1 = a1
  a2 = a2
  w1 = w1
  w2 = w2
  w3 = w3
  NoOne = NoOne
  Withdrawals = {t1}
  Accounts = {a1}
  Workers = {w1}
  OwnerOf <- OneOwner
  Amount <- NegativeAmounts
  Funds = 1
  Suspended = {}
  MaxRefunds = 2
INVARIANT
  OnlyPositiveAmounts
