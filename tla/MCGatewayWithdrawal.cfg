SPECIFICATION FairSpec
CONSTANTS
  NoOne = NoOne
  Withdrawals = {t1, t2}
  Accounts = {a1}
  Workers = {w1, w2, w3}
  OwnerOf <- OneOwner
  Assigned = {t1}
INVARIANTS
  TypeOK
  CreditedOnce
PROPERTIES
  SettledIsFinal
  NoCreditWhileSuspended
  EveryCallbackEnds
