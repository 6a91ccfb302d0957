# Verification of the back-office portal

TLA+ specifications of the money flows, the caches, the manager's sessions and
the pages of the back-office portal in `src/`, checked with TLC on small
instances and proved with TLAPS for all instances.

## The system

The portal is a Java web application on Oracle (`com.nv.commons`, `com.nv.manage`),
run by several servers, with a JSP/JavaScript front end. It has no tests; the
only documentation is in comments. The balance of a player is kept by an external
*seamless wallet* (`SeamlessWalletApiService`, not in the repository).

| Part | State it keeps | Operations | How it interacts | What is hard | What makes it correct |
|---|---|---|---|---|---|
| Deposits (`MoneyTransactionBO`, `MoneyTransactionDAO`) | rows of `moneytransaction`, deposit times of the account | create, batch approve, batch reject, gateway callback, re-check of an order | wallet call, then row lock, then commit; the account row is locked by approvals and, for logged-in players, by rejections | decisions on stale reads; wallet call before the row is looked at; two lock orders; failures after the wallet call | a decision has reached the wallet; a confirmed row is final; checks made under a lock hold at commit |
| Back-office withdrawals (same classes) | rows, withdrawal times, wallet balance | create (debit), batch approve, batch reject (refund) | wallet debit inside the uncommitted insert; refunds before the update | check-then-debit; `UPDATE` by id; refunds without a reference | no row without a debit, no closed row without a refund, no double refund |
| Gateway withdrawals (`PaymentGatewayProxy`) | rows in PROCESSING, `account.balance` | settle, reject | callbacks of the payment gateway | repeated callbacks; suspended accounts; NULL executor | credited exactly once |
| Table caches (`cache/*Cache`) | a map of rows and `lastUpdateTime` | `init`, `update`, `refresh` | polled by cron jobs, called by the flows above after commit | rows become visible after their `update_time`; `update()` without a lock | no row is skipped for ever |
| Manager login and sessions (`ManagerBO`, `ManagerCache`, `ManagerFilter`) | row of the manager (session, server), cache and session objects on every server | login, filter, logout, password change, per-second refresh, take-over after a server died | one object is shared by session and cache | row, cache and object change in different steps; logins and other refreshes during a refresh, which takes no lock | a closed manager is out, one session is left |
| Server-side tables (`DataTableUtils.js` over DataTables 1.9.4) | page, length, sort, rows, overlay | search, page, length, sort, filter, redraw | a request per draw | answers are not told apart | the screen shows the last request |
| Payment review (`deposit.js`, `withdrawal.js`) | list, batch and detail dialogs | decide one or many | posts to Deposits and Withdrawals | several managers on lists of different age | each payment is decided once, unless two decisions work on it at once |
| Adjustments, withdrawal dialog (`adjustment.js`, `withdrawal.js`, `PaymentServlet`) | chosen member, balance, cards, amount | choose, type, create | wallet calls | answers for another member; wallet read, then moved, with bets between; a call that fails after it was applied | money follows the row; the card is the member's |
| Member pages (`search.js`, `profile.js`, `report.js`, `setting.js`) | the last answer, dialogs, flags, disabled buttons | load, edit, reset, save | the server's rows; the player and a job change them meanwhile | late answers, shared dialogs and tables | what is saved is what was edited |
| Games and providers (`cms/*`, `ContentManageServlet`) | rows, dialogs | toggle, edit, save | cached objects of the server | questions about rows that have changed | stored as named |
| Bet report (`Bet.js`) | two tabs over one form | search, sort, open a bet | `MemberServlet`, `GameTransactionDAO` | late answers, stale rows | rows of the tab |
| Menu, bell, tasks (`Sidebar.js`, `Top.js`, `JSUtil.js`) | drawn menu, badges, remembered counts, task stack | polls, clicks | windows share `localStorage` | chains without an owner | polls go on, bells ring |
| Export (`ExcelUtils.js`) | button, template, orders | ask, confirm, order | external report service | the table replaces the button | one report unless confirmed |
| Money texts, constants (`JSUtil.js`, `const.js`) | — | format, look up | every page | doubles; containers extended twice; copies of the server's enumerations | amounts and codes mean what the server means |
| Automatic withdrawals (`MoneyTransactionCreateJob`) | — | one withdrawal per closed account | uses `createWithdrawal` | job on several servers | one withdrawal per balance |
| Game summaries (`GameTransactionBO`, `GameTxnSummaryByUserTask`) | summary tables, progress marks | hourly, per-user and daily summaries | cron jobs; one of them has its lock commented out | overlapping runs, crash between delete and insert | each transaction counted once |
| Thread pools (`GlobalThreadPool`) | permits, queues | submit, run, release | every background task | permits lost on exceptions, full queue | permits are given back |
| Play limits, self-exclusion, session usage, reality check | settings with a pending value and an effective time; usage counters | request, cancel, apply, reset | player requests and jobs | a job applying what a player is cancelling; resets at period ends | the stricter limit is in force at once |
| Player login (`UserBO`) | failed-login counters, `server_id`, status | login, logout, lock, expire | filter, jobs | concurrent logins, expiry race | one session, lock after n failures |
| KYC documents | review status | upload, review | managers, external reviewer | late review answers | a decided document is final |
| Remote cache refresh (`RemotingCaller`) | queue of calls | call, retry | server to server | lost calls | caches converge |
| Connection pool (`DBPool`, `DBNode`) | nodes, connections | get, release, fail over | all DAOs | abandoned connections | no leak |
| Other servlets, DAOs, helpers | none of their own | — | — | — | — |

## Modules

| Module | Models | Uses |
|---|---|---|
| `Deposit` | the deposit flows with Oracle row locks, wallet failures, SQL errors, crashes | |
| `DepositLedger` | abstract specification: rows are decided only after the wallet was told, only from a status they may be decided from | refined by `Deposit` (same variables `status` and `told`) |
| `DepositProofs` | theorems about `Deposit` | `Deposit`, TLAPS |
| `Withdrawal` | creation and manager's decisions of withdrawals, with bets and wins | |
| `WithdrawalProofs` | theorems about `Withdrawal` | `Withdrawal`, TLAPS |
| `GatewayWithdrawal` | callbacks that settle rows in PROCESSING | |
| `GatewayWithdrawalProofs` | theorems about it | `GatewayWithdrawal`, TLAPS |
| `IncrementalCache` | the caches that poll their table by `update_time` | |
| `IncrementalCacheProofs` | theorems about it | `IncrementalCache`, TLAPS |
| `ManagerSession` | the login of one manager on several servers | |
| `DataTable` | a server-side table | |
| `ReviewQueue` | abstract specification: a payment is decided at most once | refined by `PaymentReview` |
| `PaymentReview` | the review pages of deposits and withdrawals | `ReviewQueue` |
| `Adjustment`, `WithdrawalForm` | the dialogs that move money and the server behind them, wallet call by wallet call | |
| `AmountInput`, `NumberFormat` | typed amounts, written amounts | |
| `MemberSearch`, `MemberProfile`, `DocumentEdit`, `PasswordBox`, `MemberReport`, `UpdateLog` | the pages of a member | |
| `PlayLimitSetting` | the play limits, with the rule by which a new value is taken | |
| `GamesPage`, `GameForms`, `ProviderPage` | the catalogue | |
| `BetReport`, `GameTxnWindow` | the bet report and the window of one bet | |
| `SidebarMenu`, `PaymentAlert`, `BackgroundTasks`, `ExportReport` | what every page carries, the export | |
| `ConstRegistry`, `ConstTables` | `const.js` as a program over the tables it declares | |
| `OnePage`, `MemberPages`, `SitePages`, `Pages` | the pages and the sessions together: see below | all page modules |
| `MemberPagesProofs`, `SitePagesProofs` | the inductive invariant of each page, per script | `MemberPages`, `SitePages`, TLAPS |
| `CountingPagesProofs` | the same for the scripts whose invariants count or add up | `MemberPages`, TLAPS |
| `PagesProofs` | theorems about the pages together | `Pages`, the three above |
| `MC*` | instances for TLC; the gateway and the cache need no module of their own | |

Operators marked `\* mutant` are plausible bugs; they are not used by any
specification. Each is put in the place of the definition it follows to see that
a property notices.

### Deposit

A *worker* is a request thread of any server. It reads rows on one connection
(`Begin`), calls the wallet, and then works in one database transaction at a time
whose row locks are `rowLock` and `acctLock` (a commit or rollback is `Release`).
What a transaction has written is `dirty`, and becomes visible at
`CommitApprove` / `CommitReject`.

| Action | Code |
|---|---|
| `MakeDeposit`, `MakePGDeposit` | `createDeposit`, then the call of the gateway, which may be rejected as "API Failed" |
| `ProcessSyncData`, `UpdateDepositOrderStatus`, `CheckOrderStatus` | gateway callback, a manager's re-check, the gateway's answer |
| `BatchApproveDeposit`, `DisapproveDeposit` | a manager's batch; rows not read as NEW are skipped |
| `ReadForApprove` … `StampAccount` | `approveDeposit`: re-read, lock and check the account, tell the wallet, lock and check the row, commit, stamp the deposit times in a second transaction |
| `FailWallet` … `CommitReject` | `rejectDeposit`: tell the wallet and close row by row, then one commit |
| `WalletError`, `DbError`, `Crash` | the wallet's exception (the call may have been applied), an SQL error, the end of the server |
| `UpdateStatus` | a manager suspends or releases the account |

`incident` records the deposits for which the code gives no guarantee: two
requests were on it at once, or a request told the wallet and then rolled back.
`WalletAgreesWithRow` states that nothing else separates wallet and row.

Abstractions: an amount is not modelled, only which outcomes the wallet has
accepted; statuses that no modelled flow writes are left out; waiting for a row
lock is the action not being enabled; notes, mails, logs and the cache update
after the commit are left out (the latter is `IncrementalCache`).

### Withdrawal

`createWithdrawal` is `CreateWithdrawal` (insert, uncommitted), `CheckBalance`,
`Debit` or `DebitFails`, `CommitCreate`. `boApproveWithdrawal` and
`disapproveWithdrawal` read the rows first (`Begin`) and later `UPDATE` them by
id. An approval writes its rows (`ApproveRows`) and then, row by row, the
withdrawal time of the account: `ReadAccount` reads it without a lock and decides
whether the first time is written too, `UpdateAccount` waits for the row of the
account; rows and times become visible together at `CommitApprove`. A rejection
refunds row by row (`Refund`) and closes what was refunded (`CloseRows`,
`CommitClose`). `Fail` is an SQL error, a failed commit or a crash at any of
these steps: whatever the wallet has done stays. `Spend` and `Earn` are the
player's bets and wins in the wallet.

History: `stale` marks requests whose balance went down after their check;
`incident` the withdrawals decided by two requests at once or with a wallet call
whose transaction failed; `crowded` the accounts that two approvals stamped at
once, and `restamped` those whose first time was overwritten.

Abstractions: an `UPDATE` of several rows takes all locks in one step; a failing
statement and a crash are one action. A refund's exception may come before or
after the wallet applied it.

### GatewayWithdrawal

`Callback` is the read by `processSyncData`, `CheckOrderStatus` the gateway's
answer, `ApproveWithdrawal` / `RejectWithdrawal` the guarded `UPDATE`s of
`settledWithdrawalByPaymentGateway`, `CreditAccount` the locked credit,
`CommitSettle` / `CommitReject` the rest of the transaction, `ConfirmWithdrawal`
the stamp afterwards. Nothing in the repository moves a row to PROCESSING, so
`Init` has the rows there. The stamp is not composed with the approvals of
`Withdrawal`, which may stamp the same account.

### IncrementalCache

`now` is the database clock, `stamp` the `update_time` of an uncommitted change,
`time` and `ver` the committed row. `update()` is `BeginUpdate`, `Query`, one
`Put` per row, `FinishUpdate`; `init()` is `BeginLoad`, `LoadQuery`, `Put`,
`FinishLoad`. `ComparesFirst` and `Reloads` select the two variants in the code:
`MoneyTransactionCache` (both FALSE) and `AccountCache` (both TRUE). `excused`
marks the rows with a cause the scheme has no answer to: a commit `Margin` or
more after its stamp, a commit around an `init()`, an `init()` that failed, an
older version put over a newer one.

Abstractions: the secondary index by user changes with the main map; a row's
content is its version; two changes of one row never carry the same stamp (row
lock and clock resolution).

### How the pages are put together

A browser window shows one page. A page load starts its scripts anew, so a page
shares nothing with the one before it but the server, and each page module
models its part of the server. `Pages` is therefore a *sum*: a behaviour picks a
script and a page, and is then a behaviour of the script's module with the
constants of that page; `x1`, `x2`, … are its variables. `OnePage` declares them,
`MemberPages` and `SitePages` instantiate the modules of the two halves of the
site, `Pages` joins them and states the properties. The constants of `Pages` are
functions from names of pages to records of constants, so the theorems speak of
any number of pages of each script, with any constants their modules allow
(`MemberPagesAreSound`, `SitePagesAreSound`); `MCPages` has the small ones.

No interaction is lost by the sum: what two windows share (the server,
`localStorage`) is inside the modules, which have several managers
(`PaymentReview`, `UpdateLog`), several windows (`PaymentAlert`, `ExportReport`)
or steps that change the rows elsewhere (`GamesPage`, `PlayLimitSetting`). Menu,
bell and tasks, which every page carries, share no variable with what the page
shows. A promise that several pages make is one property of `Pages`, with a
conjunct for each script. `MCPagesLive.cfg` instantiates the pages on which
something must go on, with each module's own fairness.

A request is a record in `flight`: it is *asked*, then *served* (the server reads
or writes and fixes the answer), then answered in the browser, or it fails before
or after it was served. Answers come in any order unless the page is blocked.
Where the server does more than one thing, each is a step. History variables
record what the code has no answer to, and the properties name them: `raced`,
`disturbed` and `elsewhere` that an answer overtook another or was lost,
`overtaken` that a wallet fell between a check and the call that relied on it,
`contested` that two decisions read a payment as pending.

| Module | State | Actions and code |
|---|---|---|
| `DataTable` | `start`, `length`, `desc`, `records`, `pager` are DataTables' settings, `flight` and `blocked` the handler's | `Create`, `Search` (which keeps the page the table is on), `OpenDetails` are `create` and its callers; `TurnPage`, `PageLink`, `ChangeLength`, `TimerFires`, `SortColumn`, `ChooseFilter` the controls; `Answered`, `Failed` the callbacks of `fnServerData` |
| `PaymentReview` | `status` the rows; `list`, `batch`, `detail` each manager's screen | `GoToBatchApprove`, `GotoDetail`, `BatchDecide`, `SingleDecide`; on the server `Query` answers a list, `ReadRows` reads which payments are pending and `Decide` writes them later by id (payment by payment when deposits are approved, which look again under the row lock), `Respond` answers; `Succeed` hides the dialog and draws again |
| `Adjustment` | dialog, `wallet`, `posts` with their stage | the page's handlers; `createAdjustment` step by step: `Cap` reads the wallet, `Adjust` inserts and moves it, `AdjustFails` may have moved it, `Commit` or `CommitFails`; `Play` is what bets and withdrawals do meanwhile |
| `WithdrawalForm` | `chosen`, `card`, `available`, `box`, `amount` | every handler of the dialog, the two requests a choice sends; on the server `Check` (insert, balance), then `Debit` or `DebitFails` as a second wallet call |
| `AmountInput` | the characters and the caret | key filter, paste and the change handler |
| `NumberFormat` | rows of a page, the total as a double beside its decimal (`drift`) | `formatMoney`, `thousandComma`, the footers |
| `MemberSearch` | list, dialogs shared by all rows | search, both status dialogs, creation |
| `MemberProfile` | `cacheData`, one dialog, disabled buttons | overview, contacts, `OpenDialog` … `SaveDialog`, answers |
| `DocumentEdit` | input, preview, flag, cached file and original state of each photo | open, pick, cancel, clear, reset, save; `editIdDocument` of the server |
| `PasswordBox` | fields, marks, box | the handlers of both copies |
| `MemberReport` | tabs, date fields with their hidden ranges, two modals | tab, search, page, open, close; the bets of a game are asked for again for each column that is shown or hidden, answers are not told apart, and a late one opens the modal again |
| `UpdateLog` | what is stored and logged per kind | the writers of the log (read, commit, log), the cells of the tab |
| `PlayLimitSetting` | settings, forms | load, draw, save of a form; the player's requests and the job as environment |
| `GamesPage`, `GameForms` | statuses, icons, question; forms | toggle, confirm, save, reload |
| `ProviderPage` | cached object, row, vendors, dialog | the two dialogs, the server's three writes |
| `BetReport`, `GameTxnWindow` | tabs, form; the row and its window | search, sort; open and find a bet |
| `SidebarMenu` | timers, handlers, open menus, divider | `initMenu`, refresh, clicks, mouse |
| `PaymentAlert` | `localStorage`, badges | poll, show, time |
| `BackgroundTasks` | stack, loops, counters, requests, timers | `run`, `check`, `execute`, the callbacks |
| `ExportReport` | button and template of each page, orders | click, question, answer, order, completion |
| `ConstRegistry` | containers, lists, lookups | one step per block of the script, then lookups |
| `ManagerSession` | `db` row, `cache`, `bean`/`obj` objects, `at`, `doing` | `login`, `managerAuthenticate`, `LoginAnswer`; the filter (`Refuse`, `AdoptCheck` …); `logout`; `ManagerCache.update` on threads that meet (`refresh`): started by the job (`RefreshRead`) or after a password change (`ChangeRefresh`), then `RefreshFind`, `RefreshWrite`, `RefreshCheck`, `RefreshRemove`; `Crash`, `StartServer` |

Abstractions: a value is one of a few, a form only what a property tells apart.
`Clamp`, `Formatted`, `HalfUp` and the lookups of `ConstRegistry` are
modelled by what they do. `PaymentReview` leaves the steps inside one approval to
`Deposit` and `Withdrawal`, and a decision of the gateway to `Deposit`. In `NumberFormat` a double is a decimal with a drift to
one side, which has more behaviours than doubles have. In `ExportReport` the button is
clicked with the mouse only (a disabled button's style takes no mouse events).
`ManagerSession` has one account, one handler per session, and sessions that the
container moves when a server dies; requests of scripts are refused the same way
as pages. The start of a refresh is taken to be a later millisecond than the
stamps before it, and a refresh whose read fails changes nothing and is left out.

## Runs

| Run | Instance | States | What it shows |
|---|---|---|---|
| `deposit` | 1 local and 1 gateway deposit of one account, 2 workers | 667,689 | the safety and action properties, and the refinement of `DepositLedger` |
| `deposit_live` | 1 gateway deposit, player logged in, 2 workers | 10,186 | `EveryRequestEnds` in spite of the two lock orders |
| `withdrawal` | 2 withdrawals of one account with money for one, 3 workers | 604,535 | money and rows; withdrawal times; finality |
| `withdrawal_suspended` | 1 withdrawal of a suspended account | | violated: see Findings |
| `withdrawal_negative` | 1 withdrawal of a negative amount | | violated: see Findings |
| `gateway_withdrawal` | 2 withdrawals, one without executor, 3 callbacks | 38,372 | credited once, final, never while suspended; every callback ends |
| `incremental_cache` | 2 rows, 2 threads, margin 1 | 1,516,900 | lost rows have a recorded cause |
| `incremental_cache_live` | 2 rows, 1 thread that also reloads | 50,527 | the cache catches up |
| `account_cache` | as `AccountCache`, margin 2 | | violated: see Findings |
| `pages` | the 43 pages of `MCPages` and `const.js` | 1,164,408 | all that the pages promise, below |
| `live` | the 6 pages of `MCPagesLive.cfg` | 127,508 | what must go on |
| `photo_late_view` | the photo dialogs of `MCPages` | | violated: see Findings |

The properties of `pages`: `QuietPagesAreFresh` (with every answer in, the screen
shows what is stored), `SavesOnlyWhatWasEdited`, `ActsOnWhatIsShown` (a decision,
a dialog, a search is about what the manager sees, while no two answers of a kind
were out at once), `OneRequestAtATime` (buttons,
overlays, task chains), `WalletIsExplained` (adjustments and withdrawals),
`DecidedOnce` (the review pages implement `ReviewQueue`: once, unless contested),
`TablesTurnTheirPages` (line and pager tell the records that are shown),
`AmountsReadTrue` (typed amounts and display orders), `StoredCanBeRead` (money
cells, log rows, bets, windows of maintenance), `CodesAreUnderstood` (constants),
`MenuAndBellFollow`. Those of `live`: `CachedIsHere`, `SessionsSettle` (a closed
manager is out, one session is left), `NothingStaysStuck`. Both runs allow a
behaviour to stop: a page whose bound of requests is used up has nothing more to
do.

Why the instances are enough: the hazards are pairwise. Two requests on one row
(or on one account, for two rows in opposite orders) show every stale read, lost
update and lock cycle; a third worker is added where the state space allows it.
Two deposits make a batch with a failing second row. One account makes them
compete for its lock; accounts are independent. Two cache rows let one row move
the watermark past the other, two threads overtake each other.

The pages need two of each: two members (or rows, or games) for a dialog to be
about the wrong one, two requests in flight to be answered out of order, two
managers or windows, three draws for a page turn between a search and its answer.
Where both cannot be had at once, there are two instances: `Search` has two slots
and one dialog, `Rows` two dialogs and one slot; `Bets`, `Dates` and `Records`
share the tabs of the member's report; `Photo` has an optional photo, `Front` a
required one. The bounds of the page modules (`MaxRequests`, `MaxDraws`, `Slots`,
`Orders`, `Changes`, `Steps`, `MaxRefreshes`, `MaxOut`, `MaxWallet`, `Views`) are their
constants. The poll cycles of 5 and 15 checks are cut to 1 and 2, and the 30
seconds between bells to `Gap` ticks. In `ManagerSession`, `Logins`, `Changes`,
`Crashes` and `Adoptions` bound what may happen: two logins race each other or a
refresh; one death moves the sessions of a server.

Bounds: `MaxRefunds` (refunds of one row; 2 shows the double refund), `Funds`
(also the limit of `Earn`), `MaxTime` and `MaxVer` (clock ticks and commits of a
row). The `deposit` run has nobody logged in, so its rejections do not lock the
account; `deposit_live` has. Symmetry is used in `deposit` and `withdrawal`, for what
the instance does not tell apart; never with liveness.

Fairness. `deposit_live` and `gateway_withdrawal` assume strong fairness
of each request's progress: Oracle hands a contended row lock to its waiters in
turn and threads are scheduled. In addition a set of requests that wait for each
other's locks is broken by the database (ORA-00060), which is weak fairness of
`DbError` for a deadlocked request; nothing else is assumed of failures.
`incremental_cache_live` assumes that the scheduler keeps polling
(`MoneyTxnCacheUpdateJob` every 10 seconds, `PlayerCacheUpdateJob` every second),
and that a step that is possible again and again succeeds at last. Strong
fairness of `Query`, `Put` and `FinishUpdate` says that the database is not out
of reach for ever.

The fairness of `live` is weak for what the browser and the servers promise: a
timer fires, a request is answered or fails, a handler ends, the refresh job runs
every second (`ScheduleType.java:77`) and a refresh that has begun goes on; none
of them waits for another.
Nothing says that a request succeeds, that a manager clicks or that servers stop
dying. The poll of pending payments is not among the tasks that go on: its error
callback is empty (Observations). `SessionsSettle`
asks of one session that it is out once its manager is closed.

## Findings

1. `createWithdrawal`'s comment says an account that is suspended is stopped.
   The code does not read the account's status (`withdrawal_suspended`).
2. The same comment says only positive amounts are accepted. The sign is checked
   by the player's entry point only; a manager's negative amount is committed and
   raises the balance (`withdrawal_negative`).
3. `AccountCache` has an error margin of one second but gives it up at the first
   poll that finds nothing different, so a row committed within the margin may
   never be read (`account_cache`). `MoneyTransactionCache` keeps its margin, and
   the theorem below shows that this is enough.
4. `profile.js` tracks "original state when modal opens", but the answers to the
   view requests of the document dialog are not told apart by opening. One that
   comes after the dialog was closed lets the next opening take a missing photo
   for a click on the cross, and the save posts a deletion that nobody asked for
   (`photo_late_view`).

The properties with `incident` or `excused` show where the code has no guarantee:
for example a refund whose transaction fails is repeated by the next rejection.

## Observations

Met while modelling; each is written into the model as the code has it, so the
properties above are stated around it. They are not runs.

Pages:

- `DataTableUtils.js:105`: the table never sends `sEcho`, so DataTables' protection
  against old answers is off; a redraw by another handler or the timer of the
  length menu can leave an older answer on the screen.
- `withdrawal.js:937`: the amount field is to allow negative numbers, but the text
  is restricted first and loses its sign.
- `report.js:1031`: the games of another day open on the page where the last day
  was left, so a day with fewer pages looks empty.
- `report.js:1337`: after the bets of a game were asked for, each column that is
  shown or hidden asks for them again, and the first answer lifts the overlay
  (`DataTableUtils.js:127`). A late answer fills the modal of the game opened next,
  or opens it again.
- `report.js`: the first table of the member's report is searched before its date
  field is filled.
- `profile.js:899`: a photo cleared before the view request was answered keeps its
  flag, and the save keeps the photo. `profile.js:843`: a file that is too large
  empties the input and leaves the flag, and the save deletes the photo. Two view
  requests that outlive the dialog can bring a deleted photo back.
- `profile.js:1394`: after a reset the password box of the profile stays hidden on
  focus. The box and the validator disagree about some symbols.
- `setting.js:311`: "Cancel Request" only resets the field; the request stays
  pending. `setting.js:267`: a removed limit stays written as the current one.
- `gamesSetting.js` allows a display order of 100, the server 99; the field's
  filter hides it.
- `games.js:290`: a status update whose write failed is answered as a success.
- `Provider.js:454`: the name form removes the window of a maintenance, which
  `BTProviderBO.java:93` reads. `ContentManageServlet.java:370`: a name is cut to 19
  characters. `ContentManageServlet.java:413`: vendors can keep the status of a save
  that was overtaken. Time zones of vendors are never shown.
- `Top.js:347`: the first failed poll of the payments ends it. A deposit replaced
  by another between two polls rings no bell. `Top.js:314`: the change of the
  currency throws.
- `Sidebar.js:63`: an answer between two timers binds the clicks of the menu twice.
- `MemberServlet.java:2168`: amounts are cut to ten characters, so 100,000,000.00 is
  read as ten million.
- `JSUtil.js:638`: a total that is a trace of rounding is written as 0.06.
  `JSUtil.js:627`: rounding down does not truncate (no page uses it).
- `GameTransactionDAO.java:403`: the window of an unsettled bet fails.
- Update logs are written after the commit with what was read before it, so the
  last row may not tell what is stored after two saves at once. A save of an empty
  remark is logged every time.

Sessions and money:

- `MoneyTransactionBO.java:513`: two managers who decide a payment at the same
  moment both decide it, and the later `UPDATE` stays; the withdrawal's refund is
  not taken back. The models mark such payments (`contested`, `incident`).
- `ManagerServlet.java:535`: a password change calls `ManagerCache.update` beside
  the job, and the method takes no lock: one refresh sets back the time stamp of
  another, and what is outdated is removed by its key, whatever is cached under it
  by then. A login can be dropped that way until the filter takes it over.
- `ManagerCache.java:130`: a refresh that read before a login overwrites the object
  of the login: the new session is refused, or (`:139`) a replaced one gets the new
  session's id and its logout ends the new one. `ManagerFilter.java:70`: after the
  death of a server, a session that had been replaced can be taken over first.
- `MoneyTransactionBO.java:549`: an approval that was rolled back is answered as a
  success; `:1221`: two withdrawals in one millisecond share a reference;
  `AccountDAO.java:1036`: a rejected gateway withdrawal is credited to
  `account.balance`, not to the wallet; `MoneyTransactionDAO.java:260`: a row without
  executor is never closed by the gateway, as its `WHERE` compares with NULL. No
  property covers these: an answer's text, the clock's resolution, the choice of
  the account and a comparison are not what the models could show to be wrong.
- Play-limit settings are cached objects that a request changes before its UPDATE;
  a failed UPDATE leaves the cache changed. Not modelled.

## Proofs

All theorems hold for every value of the constants that satisfies the modules'
`ASSUME`; further hypotheses are in the theorems.

| Theorems | Argument |
|---|---|
| `DepositTypeOK`, `DepositDecisionTold`, `DepositLocks` | the inductive invariant `DepositInv`. `TypeOK` alone is not inductive, since `cur` must be a deposit when it is used (`WorkInv`). `LockInv` says in which steps a lock can be held; `ApprovalInv` and `RejectionInv` what a request has established on its way to the commit |
| `DepositNotWhileSuspended`, `DepositApprovesOnlyUndecided` | the lock excludes `UpdateStatus` and other writers, so `ApprovalInv` still holds at the commit |
| `DepositSettledIsFinal` | `SpokeInv`: a transaction writes only rows it is involved with |
| `DepositImplementsLedger` | initial states map to initial states, and every step to a step or stutter of `DepositLedger` |
| `DepositWalletAgrees` | `WalletInv`: `Shape` ties what a transaction has told the wallet to its step, `UniqueInv` says that without an incident one request at most is on a deposit, so what it read is still so (`Pending`), and the wallet is ahead of the row by one outcome at most (`Ahead`). `StepDrops`: a transaction that ends without an incident has committed |
| `DepositFirstBeforeLast` | `Stamps`: `first_deposit` is never cleared, so an approval that saw one stamps only the last deposit of an account that still has a first |
| `WithdrawalTypeOK`, `WithdrawalRowNeedsMoney` | `WorkInv`: a request that creates has one invisible row, debited exactly when it is about to commit |
| `WithdrawalTimesFollowApprovals` | `TimesInv`: an account that an approval is past has its time or gets it at the commit (`StampInv`); unless two approvals stamp the account at once (`CrowdInv`), one that found no time is the first to write it |
| `WithdrawalMoneyFollowsRow` | `MoneyInv` for each withdrawal without an incident: one request at most is on it, and it is refunded exactly when closed or in the `done` set of a rejection |
| `WithdrawalOverdraftNeedsRace` | `CheckedInv`: an unmarked request's balance is still there. For any amounts: the rejection of a negative one, which lowers the balance, is named in the property |
| `WithdrawalDecidedIsFinal` | directly from `WorkInv` and the actions |
| `GatewayTypeOK`, `GatewayCreditedOnce`, `GatewaySettledIsFinal`, `GatewayNoCreditWhileSuspended` | `ClaimInv`: a transaction that changed a row holds its lock and the row is still PROCESSING; one that credited holds the account |
| `CacheTypeOK` | no version is put that the table has not had |
| `CacheMarginCoversLateCommits` | for `~ComparesFirst`. `TimesInv` bounds every watermark, in the cache or in a running poll, by `now - Margin` or the last load; `RowInv` says a row without excuse is up to date, about to be put by a load, or ahead of every watermark. Without the running polls in it the invariant is not inductive: a poll may have read before the commit |
| `PagesInvariant` and the other `Pages…` | below |

The pages. The page that is open keeps its script and name (`ScriptStays`), and
its steps are those of one module, so `PagesInv` is the conjunction of one
invariant per script: `ReviewInv`, `TableInv`, … say that the `IInv` at the end of
the module holds of that page (*What the proofs rest on*). For each script there
are three lemmas: `…Begins`, `…GoesOn` (every step keeps the invariant and is a
step that the action properties allow) and `…Shows` (the invariant implies what
the module promises). They rest on lemmas of the module itself, stated at its
instance. The scripts whose invariants count or add up are in
`CountingPagesProofs` (adjustments, amounts, cells, the bell), the others in
`MemberPagesProofs` and `SitePagesProofs`. A theorem of `PagesProofs` collects the
conjuncts of its property.

What makes the invariants inductive:

| Script | Beyond types |
|---|---|
| `PaymentReview` | a request and its answer are about the payments it names; what a manager can decide on was shown to that manager as pending; what a decision has left to decide is pending or contested (`WorkInv`), so what it writes is a step of `ReviewQueue` |
| `MemberProfile`, `PlayLimitSetting`, `GameForms`, `ProviderPage`, `MemberSearch` | what is not on the page yet is on its way: after a save that was taken, a load is due, and the only load that is out brings what is stored; an unedited form holds it |
| `GamesPage`, `DataTable` | the only draw under way, or else the page, has what the server stores; one message or request at most is open behind its overlay; the pager belongs to the rows on the screen |
| `Adjustment`, `WithdrawalForm` | while no two questions were open at once, the open one is about the chosen member; an amount that was capped or checked and whose wallet was not overtaken still fits in it (`CapInv`, `FlightInv`); the wallet is what bets made of it plus the sum of what was posted |
| `DocumentEdit`, `UpdateLog` | a flag is set by a gesture of the opening or by an answer that lacks a photo; a change that is committed and not logged is the only one the log does not tell of |
| `MemberReport`, `BetReport`, `GameTxnWindow` | the modals lie on each other, and rows that are shown or come are those of the forms and of their tab, unless a request for another row was still out |
| `SidebarMenu`, `PaymentAlert`, `BackgroundTasks`, `ExportReport`, `PasswordBox` | one handler per click until `initMenu` is overtaken; a bell that is remembered was heard; a chain that runs no request has a timer; a template that is disabled waits for an order or a question |
| `AmountInput` | while only keys were used, the text has one point at most; the rest holds of every text, see below |
| `NumberFormat` | the sum of the loop differs from the sum of the rows by its drift alone; the recursions of `thousandComma` are taken apart up to some argument |
| `ManagerSession` | each refresh holds only rows that name its server, and an object that is there (`Holds`); a cached object of a session belongs to a session on that server (`Placed`): without `at[cache[v]] = v` it is not inductive |

What a recursive function computes up to some argument, and what holds of every
finite set, needs induction, and the library's induction theorems take an operator
as a parameter, which the provers cannot instantiate. `SetInduction` says the same
of a set: one that holds 0 and with each number the next holds every natural
number. It follows from `FS_Injection` (on a finite set one-to-one is onto, here
`x - 1` on the numbers up to `m` outside the set).

The amount fields need most of it (`AmountInput`). A text is a sequence of
characters, and the handlers filter, strip and group it by recursion; what holds
of every text is proved by adding a character at a time (`TextInduction`, from
`SetInduction` over the lengths). `ChangeKeepsAmount` and `FormattedIsReadable`
then follow in two halves. What a change writes is a sign or none, grouped digits,
a point and one or two decimals (`Written`), whatever text it found: `GroupedIs`
goes through the digits from the last one. And such a text is read as its parts
(`ReadAs`): the point is the only one, the commas drop out again, so the digits
before and behind it are those of the old text but for zeros in front and what
is below a cent (`SameCents`). `OnePoint` is proved of the keys, and of the
restriction, which cuts a text at its second point. The lemmas speak of any
sequence, but of the digits 0 and 1, which the model has for zero and any other;
and the model has no exponents, so the theorem says of the code what it says only
where a number is short enough to be written without one.

Met on the way, and now in the modules: a numbered link of the pager stays inside
the rows only while the length it was drawn for is in force (`PagerStaysInside`);
`UnaskedAlone` holds of any number of pages, not of one; the log's values must not
be empty, or a change has nothing to set. Finding 4 is the step at which the
invariant of `DocumentEdit` was not inductive.

Only model-checked:

- Liveness (`EveryRequestEnds`, `EveryCallbackEnds`, `CatchesUp`, `SessionsSettle`,
  `NothingStaysStuck`): under fairness, outside the prover's reach.
- `CodesAreUnderstood`: its tables are finite and have no parameters, so TLC's
  check is already a check of every case.

Every other property of the passing runs is stated by a theorem.

## Not modelled

- Java parts listed as not modelled in `PROJECT.json`; see the plan.
- Scripts and functions that no page reaches: `verifyAccount.js`, `Eligibility.js`,
  the vendor handler of `Provider.js`, the update form of `games.js`, forms of
  `setting.js` without a page, the popover of `Sidebar.js`, most of `Validate.js`,
  `ArrayUtil`, `MathUtil`, `BridgeUtils` and other helpers of `JSUtil.js`, searches of
  `report.js` without a table, direct downloads of `ExcelUtils.js`,
  `LoginHandlerUtil.js`; on the server `AccountDocumentBO.updateAfterSumsubReviewed`
  and `AccountCardBO.addAccountCard`.
- Layout, wording, calendars and viewers: they keep no state a property is about.
- Libraries (jQuery, select2, CKEditor, Quartz), Oracle, the wallet and the gateways:
  modelled by what the code relies on.

## Plan

Done: the four money and cache components, the manager's sessions, every page
with a script of its own. Next, in this order:

1. `GameSummary`: the hourly and per-user summaries with overlapping jobs and
   crashes; abstract specification: each game transaction is counted once.
2. `PlayLimits`: effective times, the job and the cached objects, composed with
   `PlayLimitSetting`; automatic withdrawals composed with `Withdrawal`.
3. `ThreadPool`: permits and queue, with the liveness of submitted tasks.
4. The player's session: login counters, lock and expiry; usage and its resets.
5. `RemoteRefresh` and `ConnectionPool`.
