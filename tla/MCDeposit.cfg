SPECIFICATION Spec
CONSTANTS
  d1 = d1
  d2 = d2
  d3 = d3
  a1 = a1
  a2 = a2
  w1 = w1
  w2 = w2
  w3 = w3
  NoOne = NoOne
  Deposits = {d1, d2}
  Accounts = {a1}
  Workers = {w1, w2}
  OwnerOf <- OneOwner
  Gateway = {d2}
  Online = {}
SYMMETRY Symmetric
INVARIANTS
  TypeOK
  DecisionToldToWallet
  WalletAgreesWithRow
  FirstBeforeLast
  LocksMatchTransactions
PROPERTIES
  NoApprovalWhileSuspended
  ApprovesOnlyUndecided
  SettledIsFinal
  ImplementsLedger
