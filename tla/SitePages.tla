----------------------------- MODULE SitePages ------------------------------
(***************************************************************************)
(* The pages and parts of pages that are about the site: payments to       *)
(* decide, tables, bets, games and providers, and what every page carries: *)
(* the menu and the tasks in the background, which share no state with     *)
(* what is on the page and so are pages of their own, as is the            *)
(* login of a manager.                                                     *)
(***************************************************************************)
EXTENDS OnePage

(* The pages of each script: a function from their names to records that   *)
(* give the constants of the script's module their values.                 *)
CONSTANTS
  ReviewPages,    \* the lists of deposits and withdrawals that wait
  Tables,         \* tables that the server fills
  BetPages,       \* the report of bets
  BetWindows,     \* windows of one bet
  ExportPages,    \* the export buttons
  IconPages,      \* the list of games with its status icons
  GamePages,      \* the profile and the setting of a game
  ProviderPages,  \* the list and the profile of game providers
  MenuBars,       \* the menu beside every page
  TaskQueues,     \* the tasks that every page runs
  Logins          \* the login of a manager on the servers

-----------------------------------------------------------------------------
Review(k) == INSTANCE PaymentReview WITH
  Managers <- ReviewPages[k].Managers, Payments <- ReviewPages[k].Payments,
  Page <- ReviewPages[k].Page, Gateway <- ReviewPages[k].Gateway,
  MaxRequests <- ReviewPages[k].MaxRequests, status <- x1, list <- x2,
  batch <- x3, detail <- x4, flight <- x5, sent <- x6, seen <- x7,
  selection <- x8, raced <- x9, settled <- x10, contested <- x11
Table(k) == INSTANCE DataTable WITH
  Criteria <- Tables[k].Criteria, Count <- Tables[k].Count,
  Lengths <- Tables[k].Lengths, InitLength <- Tables[k].InitLength,
  Filters <- Tables[k].Filters, FullPageTurns <- Tables[k].FullPageTurns,
  MaxDraws <- Tables[k].MaxDraws, form <- x1, made <- x2, start <- x3,
  length <- x4, desc <- x5, filter <- x6, records <- x7, loaded <- x8,
  pager <- x9, rows <- x10, flight <- x11, blocked <- x12, timer <- x13,
  sent <- x14, asked <- x15, raced <- x16, missed <- x17
Bets(k) == INSTANCE BetReport WITH
  Amounts <- BetPages[k].Amounts, Read <- BetPages[k].Read,
  Sorts <- BetPages[k].Sorts, MaxOut <- BetPages[k].MaxOut, tab <- x1,
  form <- x2, made <- x3, order <- x4, shown <- x5, rows <- x6,
  flights <- x7, blocked <- x8
Window(k) == INSTANCE GameTxnWindow WITH
  Days <- BetWindows[k].Days, Infos <- BetWindows[k].Infos,
  Steps <- BetWindows[k].Steps, bet <- x1, info <- x2, steps <- x3,
  row <- x4, asked <- x5, window <- x6, found <- x7
Export(k) == INSTANCE ExportReport WITH
  Pages <- ExportPages[k].Pages, None <- ExportPages[k].None,
  Orders <- ExportPages[k].Orders, template <- x1, button <- x2, order <- x3,
  making <- x4, failed <- x5, redrawn <- x6
Icons(k) == INSTANCE GamesPage WITH
  Pages <- IconPages[k].Pages, MaxDraws <- IconPages[k].MaxDraws,
  active <- x1, page <- x2, DataBase <- x3, showDialog <- x4, dialog <- x5,
  posting <- x6, draws <- x7, blocked <- x8, sent <- x9, stored <- x10,
  elsewhere <- x11, disturbed <- x12
Game(k) == INSTANCE GameForms WITH
  Page <- GamePages[k].Page, Statuses <- GamePages[k].Statuses,
  Orders <- GamePages[k].Orders, Typed <- GamePages[k].Typed,
  Slots <- GamePages[k].Slots, server <- x1, cacheData <- x2, field <- x3,
  open <- x4, disabled <- x5, flight <- x6, disturbed <- x7
Provider(k) == INSTANCE ProviderPage WITH
  OnProfile <- ProviderPages[k].OnProfile,
  Statuses <- ProviderPages[k].Statuses, Windows <- ProviderPages[k].Windows,
  Today <- ProviderPages[k].Today, Names <- ProviderPages[k].Names,
  LongNames <- ProviderPages[k].LongNames, Cut <- ProviderPages[k].Cut,
  Slots <- ProviderPages[k].Slots, object <- x1, db <- x2, vendor <- x3,
  provider <- x4, dialog <- x5, flight <- x6, disturbed <- x7
Menu(k) == INSTANCE SidebarMenu WITH
  Menus <- MenuBars[k].Menus, Current <- MenuBars[k].Current,
  Wide <- MenuBars[k].Wide, Positions <- MenuBars[k].Positions,
  DividerWidth <- MenuBars[k].DividerWidth,
  MaxRefreshes <- MenuBars[k].MaxRefreshes, asked <- x1, timers <- x2,
  nav <- x3, handlers <- x4, open <- x5, wanted <- x6, dividers <- x7,
  moves <- x8, pressed <- x9, width <- x10, refreshes <- x11, raced <- x12
Tasks(k) == INSTANCE BackgroundTasks WITH
  Tasks <- TaskQueues[k].Tasks, CycleTime <- TaskQueues[k].CycleTime,
  Starts <- TaskQueues[k].Starts, Silent <- TaskQueues[k].Silent,
  queue <- x1, loops <- x2, cycleTick <- x3, flights <- x4, checks <- x5,
  runs <- x6
Login(k) == INSTANCE ManagerSession WITH
  Servers <- Logins[k].Servers, Sessions <- Logins[k].Sessions,
  None <- Logins[k].None, Logins <- Logins[k].Logins,
  Changes <- Logins[k].Changes, Crashes <- Logins[k].Crashes,
  Adoptions <- Logins[k].Adoptions, db <- x1, up <- x2, cache <- x3,
  bean <- x4, refresh <- x5, at <- x6, obj <- x7, doing <- x8, read <- x9,
  left <- x10

(* What the scripts ask of their constants. *)
SitePagesAssumption ==
  /\ \A k \in DOMAIN ReviewPages : Review(k)!PaymentReviewAssumption
  /\ \A k \in DOMAIN Tables : Table(k)!DataTableAssumption
  /\ \A k \in DOMAIN BetPages : Bets(k)!BetReportAssumption
  /\ \A k \in DOMAIN BetWindows : Window(k)!GameTxnWindowAssumption
  /\ \A k \in DOMAIN ExportPages : Export(k)!ExportReportAssumption
  /\ \A k \in DOMAIN IconPages : Icons(k)!GamesPageAssumption
  /\ \A k \in DOMAIN GamePages : Game(k)!GameFormsAssumption
  /\ \A k \in DOMAIN ProviderPages : Provider(k)!ProviderPageAssumption
  /\ \A k \in DOMAIN MenuBars : Menu(k)!SidebarAssumption
  /\ \A k \in DOMAIN TaskQueues : Tasks(k)!TasksAssumption
  /\ \A k \in DOMAIN Logins : Login(k)!ManagerSessionAssumption

ASSUME SitePagesAreSound == SitePagesAssumption

SiteInit ==
  \/ \E k \in DOMAIN ReviewPages : script = "review" /\ page = k /\ Review(k)!Init /\ Unused12
  \/ \E k \in DOMAIN Tables : script = "table" /\ page = k /\ Table(k)!Init
  \/ \E k \in DOMAIN BetPages : script = "bets" /\ page = k /\ Bets(k)!Init /\ Unused9
  \/ \E k \in DOMAIN BetWindows : script = "window" /\ page = k /\ Window(k)!Init /\ Unused8
  \/ \E k \in DOMAIN ExportPages : script = "export" /\ page = k /\ Export(k)!Init /\ Unused7
  \/ \E k \in DOMAIN IconPages : script = "icons" /\ page = k /\ Icons(k)!Init /\ Unused13
  \/ \E k \in DOMAIN GamePages : script = "game" /\ page = k /\ Game(k)!Init /\ Unused8
  \/ \E k \in DOMAIN ProviderPages : script = "provider" /\ page = k /\ Provider(k)!Init /\ Unused8
  \/ \E k \in DOMAIN MenuBars : script = "menu" /\ page = k /\ Menu(k)!Init /\ Unused13
  \/ \E k \in DOMAIN TaskQueues : script = "tasks" /\ page = k /\ Tasks(k)!Init /\ Unused7
  \/ \E k \in DOMAIN Logins : script = "login" /\ page = k /\ Login(k)!Init /\ Unused11

SiteNext ==
  \/ \E k \in On("review", ReviewPages) : Review(k)!Next /\ Same12
  \/ \E k \in On("table", Tables) : Table(k)!Next /\ Same18
  \/ \E k \in On("bets", BetPages) : Bets(k)!Next /\ Same9
  \/ \E k \in On("window", BetWindows) : Window(k)!Next /\ Same8
  \/ \E k \in On("export", ExportPages) : Export(k)!Next /\ Same7
  \/ \E k \in On("icons", IconPages) : Icons(k)!Next /\ Same13
  \/ \E k \in On("game", GamePages) : Game(k)!Next /\ Same8
  \/ \E k \in On("provider", ProviderPages) : Provider(k)!Next /\ Same8
  \/ \E k \in On("menu", MenuBars) : Menu(k)!Next /\ Same13
  \/ \E k \in On("tasks", TaskQueues) : Tasks(k)!Next /\ Same7
  \/ \E k \in On("login", Logins) : Login(k)!Next /\ Same11

(* Such a page takes a step, or none. *)
SiteStep == SiteNext \/ UNCHANGED vars
=============================================================================
