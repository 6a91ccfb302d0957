SPECIFICATION Spec
CONSTANTS
  ReviewPages <- NoPage
  AdjustPages <- NoPage
  WithdrawPages <- NoPage
  AmountFields <- NoPage
  Tables <- NoPage
  ReportPages <- NoPage
  BetPages <- NoPage
  BetWindows <- NoPage
  MoneyTables <- NoPage
  ExportPages <- NoPage
  PhotoDialogs <- ThePhotoDialogs
  ProfilePages <- NoPage
  PasswordForms <- NoPage
  SearchPages <- NoPage
  LimitPages <- NoPage
  LogPages <- NoPage
  IconPages <- NoPage
  GamePages <- NoPage
  ProviderPages <- NoPage
  MenuBars <- NoPage
  Bells <- NoPage
  TaskQueues <- NoPage
  Logins <- NoPage
  ConstPages = {}
INVARIANTS
  PhotosClearedByUser
CHECK_DEADLOCK FALSE
