SPECIFICATION FairSpec
CONSTANTS
  ReviewPages <- NoPage
  AdjustPages <- NoPage
  WithdrawPages <- NoPage
  AmountFields <- NoPage
  Tables <- NoPage
  ReportPages <- NoPage
  BetPages <- NoPage
  BetWindows <- NoPage
  MoneyTables <- NoPage
  ExportPages <- LiveExportPages
  PhotoDialogs <- NoPage
  ProfilePages <- LiveProfilePages
  PasswordForms <- NoPage
  SearchPages <- NoPage
  LimitPages <- NoPage
  LogPages <- NoPage
  IconPages <- NoPage
  GamePages <- NoPage
  ProviderPages <- NoPage
  MenuBars <- NoPage
  Bells <- LiveBells
  TaskQueues <- LiveTaskQueues
  Logins <- LiveLogins
  ConstPages = {}
INVARIANTS
  CachedIsHere
PROPERTIES
  SessionsSettle
  NothingStaysStuck
CHECK_DEADLOCK FALSE
