SPECIFICATION Spec
CONSTANTS
  ReviewPages <- TheReviewPages
  AdjustPages <- TheAdjustPages
  WithdrawPages <- TheWithdrawPages
  AmountFields <- TheAmountFields
  Tables <- TheTables
  ReportPages <- TheReportPages
  BetPages <- TheBetPages
  BetWindows <- TheBetWindows
  MoneyTables <- TheMoneyTables
  ExportPages <- TheExportPages
  PhotoDialogs <- ThePhotoDialogs
  ProfilePages <- TheProfilePages
  PasswordForms <- ThePasswordForms
  SearchPages <- TheSearchPages
  LimitPages <- TheLimitPages
  LogPages <- TheLogPages
  IconPages <- TheIconPages
  GamePages <- TheGamePages
  ProviderPages <- TheProviderPages
  MenuBars <- TheMenuBars
  Bells <- TheBells
  TaskQueues <- TheTaskQueues
  Logins <- NoPage
  ConstPages = {"all"}
INVARIANTS
  TypeOK
  QuietPagesAreFresh
  ActsOnWhatIsShown
  StoredCanBeRead
  CodesAreUnderstood
PROPERTIES
  SavesOnlyWhatWasEdited
  OneRequestAtATime
  WalletIsExplained
  DecidedOnce
  TablesTurnTheirPages
  AmountsReadTrue
  MenuAndBellFollow
CHECK_DEADLOCK FALSE
