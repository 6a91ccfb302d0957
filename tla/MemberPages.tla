---------------------------- MODULE MemberPages -----------------------------
(***************************************************************************)
(* The pages on which a manager works on a member: his money, documents,   *)
(* profile, limits and report, with the cells that show amounts and the    *)
(* bell that tells of payments: like what every page carries, these share  *)
(* no state with the rest of the page and so are pages of their own.       *)
(***************************************************************************)
EXTENDS OnePage

(* The pages of each script: a function from their names to records that   *)
(* give the constants of the script's module their values.                 *)
CONSTANTS
  AdjustPages,    \* the dialog that adjusts a wallet
  WithdrawPages,  \* the dialog that creates a withdrawal
  AmountFields,   \* fields for amounts
  ReportPages,    \* the seven tabs of a member's report
  MoneyTables,    \* cells, totals and badges with amounts
  PhotoDialogs,   \* the photos of a member's documents
  ProfilePages,   \* the profile of a member with its dialogs
  PasswordForms,  \* forms for a new password
  SearchPages,    \* the list of members
  LimitPages,     \* the play limits of a member
  LogPages,       \* the update log of a member
  Bells           \* the bell above every page

-----------------------------------------------------------------------------
Adjust(k) == INSTANCE Adjustment WITH
  Members <- AdjustPages[k].Members, MaxAmount <- AdjustPages[k].MaxAmount,
  Typed <- AdjustPages[k].Typed, InitWallet <- AdjustPages[k].InitWallet,
  MaxWallet <- AdjustPages[k].MaxWallet,
  MaxRequests <- AdjustPages[k].MaxRequests, dialog <- x1, chosen <- x2,
  general <- x3, minAmount <- x4, flight <- x5, posts <- x6, sent <- x7,
  wallet <- x8, raced <- x9, without <- x10, overtaken <- x11,
  misposted <- x12
Withdraw(k) == INSTANCE WithdrawalForm WITH
  Members <- WithdrawPages[k].Members, HasCard <- WithdrawPages[k].HasCard,
  InitBalance <- WithdrawPages[k].InitBalance,
  Typed <- WithdrawPages[k].Typed,
  MaxRequests <- WithdrawPages[k].MaxRequests, dialog <- x1, chosen <- x2,
  shown <- x3, card <- x4, available <- x5, box <- x6, amount <- x7,
  locked <- x8, flight <- x9, sent <- x10, wallet <- x11, rows <- x12,
  balanceOf <- x13, raced <- x14, overtaken <- x15
Amount(k) == INSTANCE AmountInput WITH
  Digits <- AmountFields[k].Digits, Restricts <- AmountFields[k].Restricts,
  KeyFilter <- AmountFields[k].KeyFilter, Pasted <- AmountFields[k].Pasted,
  MaxLen <- AmountFields[k].MaxLen, value <- x1, caret <- x2, all <- x3,
  pasted <- x4
Report(k) == INSTANCE MemberReport WITH
  Offered <- ReportPages[k].Offered, Picks <- ReportPages[k].Picks,
  LastMonth <- ReportPages[k].LastMonth, Period <- ReportPages[k].Period,
  Days <- ReportPages[k].Days, DayPages <- ReportPages[k].DayPages,
  Games <- ReportPages[k].Games, Sport <- ReportPages[k].Sport,
  Pages <- ReportPages[k].Pages, MaxOut <- ReportPages[k].MaxOut, tab <- x1,
  shown <- x2, sends <- x3, valid <- x4, day <- x5, bet <- x6, page <- x7,
  rows <- x8, columns <- x9, modals <- x10, flight <- x11, blocked <- x12,
  clicked <- x13, raced <- x14
Cells(k) == INSTANCE NumberFormat WITH
  Amounts <- MoneyTables[k].Amounts, Counts <- MoneyTables[k].Counts,
  Mode <- MoneyTables[k].Mode, MaxRows <- MoneyTables[k].MaxRows, rows <- x1,
  total <- x2, cell <- x3, foot <- x4, badge <- x5
Photo(k) == INSTANCE DocumentEdit WITH
  Fields <- PhotoDialogs[k].Fields, Required <- PhotoDialogs[k].Required,
  Photos <- PhotoDialogs[k].Photos, AtFirst <- PhotoDialogs[k].AtFirst,
  None <- PhotoDialogs[k].None, Views <- PhotoDialogs[k].Views, stored <- x1,
  input <- x2, preview <- x3, cached <- x4, changed <- x5, original <- x6,
  open <- x7, views <- x8, readers <- x9, post <- x10, touched <- x11,
  vanished <- x12
Profile(k) == INSTANCE MemberProfile WITH
  Items <- ProfilePages[k].Items, Values <- ProfilePages[k].Values,
  Blank <- ProfilePages[k].Blank, Slots <- ProfilePages[k].Slots,
  server <- x1, cacheData <- x2, marks <- x3, dialog <- x4, busy <- x5,
  flight <- x6, disturbed <- x7
Password(k) == INSTANCE PasswordBox WITH
  Pages <- PasswordForms[k].Pages,
  Requirements <- PasswordForms[k].Requirements,
  Passwords <- PasswordForms[k].Passwords, page <- x1, open <- x2,
  password <- x3, confirm <- x4, met <- x5, interacted <- x6, box <- x7,
  marks <- x8, post <- x9
Search(k) == INSTANCE MemberSearch WITH
  Kinds <- SearchPages[k].Kinds, Members <- SearchPages[k].Members,
  AtFirst <- SearchPages[k].AtFirst, Statuses <- SearchPages[k].Statuses,
  New <- SearchPages[k].New, None <- SearchPages[k].None,
  Slots <- SearchPages[k].Slots, server <- x1, rows <- x2, dialog <- x3,
  form <- x4, kept <- x5, busy <- x6, blocked <- x7, flight <- x8,
  clicked <- x9, overtaken <- x10
Limits(k) == INSTANCE PlayLimitSetting WITH
  Amounts <- LimitPages[k].Amounts, TimeSpent <- LimitPages[k].TimeSpent,
  Exclusions <- LimitPages[k].Exclusions, Typed <- LimitPages[k].Typed,
  Choices <- LimitPages[k].Choices, MaxAmount <- LimitPages[k].MaxAmount,
  Slots <- LimitPages[k].Slots, row <- x1, cacheData <- x2, input <- x3,
  label <- x4, message <- x5, flight <- x6, edited <- x7, elsewhere <- x8,
  disturbed <- x9
Log(k) == INSTANCE UpdateLog WITH
  Managers <- LogPages[k].Managers, Values <- LogPages[k].Values,
  None <- LogPages[k].None, Readable <- LogPages[k].Readable,
  Changes <- LogPages[k].Changes, stored <- x1, job <- x2, log <- x3,
  left <- x4, asked <- x5, dialog <- x6, clicked <- x7
Bell(k) == INSTANCE PaymentAlert WITH
  Windows <- Bells[k].Windows, Kinds <- Bells[k].Kinds,
  MaxCount <- Bells[k].MaxCount, Gap <- Bells[k].Gap, pending <- x1,
  stored <- x2, lastRing <- x3, flight <- x4, badge <- x5, menu <- x6,
  rang <- x7, heard <- x8

(* What the scripts ask of their constants. *)
MemberPagesAssumption ==
  /\ \A k \in DOMAIN AdjustPages : Adjust(k)!AdjustmentAssumption
  /\ \A k \in DOMAIN WithdrawPages : Withdraw(k)!WithdrawalFormAssumption
  /\ \A k \in DOMAIN AmountFields : Amount(k)!AmountInputAssumption
  /\ \A k \in DOMAIN ReportPages : Report(k)!MemberReportAssumption
  /\ \A k \in DOMAIN MoneyTables : Cells(k)!NumberFormatAssumption
  /\ \A k \in DOMAIN PhotoDialogs : Photo(k)!DocumentEditAssumption
  /\ \A k \in DOMAIN ProfilePages : Profile(k)!MemberProfileAssumption
  /\ \A k \in DOMAIN PasswordForms : Password(k)!PasswordBoxAssumption
  /\ \A k \in DOMAIN SearchPages : Search(k)!MemberSearchAssumption
  /\ \A k \in DOMAIN LimitPages : Limits(k)!PlayLimitSettingAssumption
  /\ \A k \in DOMAIN LogPages : Log(k)!UpdateLogAssumption
  /\ \A k \in DOMAIN Bells : Bell(k)!PaymentAlertAssumption

ASSUME MemberPagesAreSound == MemberPagesAssumption

MemberInit ==
  \/ \E k \in DOMAIN AdjustPages : script = "adjust" /\ page = k /\ Adjust(k)!Init /\ Unused13
  \/ \E k \in DOMAIN WithdrawPages : script = "withdraw" /\ page = k /\ Withdraw(k)!Init /\ Unused16
  \/ \E k \in DOMAIN AmountFields : script = "amount" /\ page = k /\ Amount(k)!Init /\ Unused5
  \/ \E k \in DOMAIN ReportPages : script = "report" /\ page = k /\ Report(k)!Init /\ Unused15
  \/ \E k \in DOMAIN MoneyTables : script = "cells" /\ page = k /\ Cells(k)!Init /\ Unused6
  \/ \E k \in DOMAIN PhotoDialogs : script = "photo" /\ page = k /\ Photo(k)!Init /\ Unused13
  \/ \E k \in DOMAIN ProfilePages : script = "profile" /\ page = k /\ Profile(k)!Init /\ Unused8
  \/ \E k \in DOMAIN PasswordForms : script = "password" /\ page = k /\ Password(k)!Init /\ Unused10
  \/ \E k \in DOMAIN SearchPages : script = "search" /\ page = k /\ Search(k)!Init /\ Unused11
  \/ \E k \in DOMAIN LimitPages : script = "limits" /\ page = k /\ Limits(k)!Init /\ Unused10
  \/ \E k \in DOMAIN LogPages : script = "log" /\ page = k /\ Log(k)!Init /\ Unused8
  \/ \E k \in DOMAIN Bells : script = "bell" /\ page = k /\ Bell(k)!Init /\ Unused9

MemberNext ==
  \/ \E k \in On("adjust", AdjustPages) : Adjust(k)!Next /\ Same13
  \/ \E k \in On("withdraw", WithdrawPages) : Withdraw(k)!Next /\ Same16
  \/ \E k \in On("amount", AmountFields) : Amount(k)!Next /\ Same5
  \/ \E k \in On("report", ReportPages) : Report(k)!Next /\ Same15
  \/ \E k \in On("cells", MoneyTables) : Cells(k)!Next /\ Same6
  \/ \E k \in On("photo", PhotoDialogs) : Photo(k)!Next /\ Same13
  \/ \E k \in On("profile", ProfilePages) : Profile(k)!Next /\ Same8
  \/ \E k \in On("password", PasswordForms) : Password(k)!Next /\ Same10
  \/ \E k \in On("search", SearchPages) : Search(k)!Next /\ Same11
  \/ \E k \in On("limits", LimitPages) : Limits(k)!Next /\ Same10
  \/ \E k \in On("log", LogPages) : Log(k)!Next /\ Same8
  \/ \E k \in On("bell", Bells) : Bell(k)!Next /\ Same9

(* Such a page takes a step, or none. *)
MemberStep == MemberNext \/ UNCHANGED vars
=============================================================================
