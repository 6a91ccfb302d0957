-------------------------------- MODULE Pages -------------------------------
(***************************************************************************)
(* The pages of the back office together.  A promise that several pages    *)
(* make is stated once, for all of them.                                   *)
(***************************************************************************)
EXTENDS MemberPages, SitePages

CONSTANT ConstPages   \* the pages with const.js

Script == INSTANCE ConstRegistry WITH
  run <- x1, props <- x2, objects <- x3, lookup <- x4, lister <- x5,
  shown <- x6

Init ==
  \/ MemberInit
  \/ SiteInit
  \/ script = "const" /\ page \in ConstPages /\ Script!Init /\ Unused7

Next ==
  \/ MemberNext
  \/ SiteNext
  \/ script = "const" /\ Script!Next /\ Same7

Spec == Init /\ [][Next]_vars

-----------------------------------------------------------------------------
(***************************************************************************)
(* What the pages promise together.                                        *)
(***************************************************************************)
(* Every page is well formed: its slots, dialogs, buttons and requests fit *)
(* together whatever the order of clicks and answers.                      *)
TypeOK ==
  /\ \A k \in On("review", ReviewPages) : Review(k)!TypeOK
  /\ \A k \in On("adjust", AdjustPages) : Adjust(k)!TypeOK
  /\ \A k \in On("withdraw", WithdrawPages) : Withdraw(k)!TypeOK
  /\ \A k \in On("amount", AmountFields) : Amount(k)!TypeOK
  /\ \A k \in On("table", Tables) : Table(k)!TypeOK
  /\ \A k \in On("report", ReportPages) : Report(k)!TypeOK
  /\ \A k \in On("bets", BetPages) : Bets(k)!TypeOK
  /\ \A k \in On("window", BetWindows) : Window(k)!TypeOK
  /\ \A k \in On("cells", MoneyTables) : Cells(k)!TypeOK
  /\ \A k \in On("export", ExportPages) : Export(k)!TypeOK
  /\ \A k \in On("photo", PhotoDialogs) : Photo(k)!TypeOK
  /\ \A k \in On("profile", ProfilePages) : Profile(k)!TypeOK
  /\ \A k \in On("password", PasswordForms) : Password(k)!TypeOK
  /\ \A k \in On("search", SearchPages) : Search(k)!TypeOK
  /\ \A k \in On("limits", LimitPages) : Limits(k)!TypeOK
  /\ \A k \in On("log", LogPages) : Log(k)!TypeOK
  /\ \A k \in On("icons", IconPages) : Icons(k)!TypeOK
  /\ \A k \in On("game", GamePages) : Game(k)!TypeOK
  /\ \A k \in On("provider", ProviderPages) : Provider(k)!TypeOK
  /\ \A k \in On("menu", MenuBars) : Menu(k)!TypeOK
  /\ \A k \in On("bell", Bells) : Bell(k)!TypeOK
  /\ \A k \in On("tasks", TaskQueues) : Tasks(k)!TypeOK
  /\ \A k \in On("login", Logins) : Login(k)!TypeOK

(* When nothing is asked any more and no request was overtaken or lost, a  *)
(* page shows what the server stores: a list its rows, an icon its status, *)
(* a dialog the value it will save, a window the bet it was opened for.    *)
(* What is saved is asked for again (profile.js, search.js, setting.js,    *)
(* games.js, Provider.js, deposit.js, DataTableUtils.js).                  *)
QuietPagesAreFresh ==
  /\ \A k \in On("profile", ProfilePages) : Profile(k)!QuietPageIsFresh
  /\ \A k \in On("search", SearchPages) : Search(k)!QuietListIsFresh
  /\ \A k \in On("limits", LimitPages) : Limits(k)!QuietPageIsFresh
  /\ \A k \in On("icons", IconPages) : Icons(k)!QuietIconsAreFresh
  /\ \A k \in On("game", GamePages) : Game(k)!QuietPageIsFresh
  /\ \A k \in On("provider", ProviderPages) : Provider(k)!QuietPageIsFresh
  /\ \A k \in On("table", Tables) : Table(k)!ClicksDoNotRace
  /\ \A k \in On("review", ReviewPages) : Review(k)!OwnDecisionsShown

(* A form that was filled while nothing was on its way and is saved as it  *)
(* was drawn changes nothing, unless the record was disturbed or another   *)
(* save overlaps, as each module tells; a document save changes only the   *)
(* photos that were touched, or that a late answer took away, and never    *)
(* drops a required one; a game gets the status the question named.        *)
SavesOnlyWhatWasEdited ==
  [][/\ \A k \in On("profile", ProfilePages) : Profile(k)!UneditedSaveKeeps
     /\ \A k \in On("limits", LimitPages) : Limits(k)!UneditedSaveKeeps
     /\ \A k \in On("game", GamePages) : Game(k)!UneditedSaveKeeps
     /\ \A k \in On("provider", ProviderPages) : Provider(k)!UneditedSaveKeeps
     /\ \A k \in On("photo", PhotoDialogs) : Photo(k)!OnlyTouchedPhotosChange /\ Photo(k)!RequiredPhotosStay
     /\ \A k \in On("icons", IconPages) : Icons(k)!ChangesAsNamed]_vars

(* What a page acts on is what it shows: decisions are about the payments  *)
(* that were shown as pending or selected, dialogs about the row that was  *)
(* clicked, searches about the dates, the amounts, the tab and the column  *)
(* the manager sees, a withdrawal and an adjustment about the member shown.*)
(* The promises about answers leave out pages on which two requests of one *)
(* kind were open at once or one was lost: the answers carry no number, so *)
(* a late one is shown for the other (a bet modal fills with the bets of   *)
(* the game before, report.js:1337, DataTableUtils.js:127).                *)
ActsOnWhatIsShown ==
  /\ \A k \in On("review", ReviewPages) : Review(k)!DecidesWhatWasPending /\ Review(k)!BatchShowsSelection
  /\ \A k \in On("report", ReportPages) : Report(k)!ModalsShowRowClicked /\ Report(k)!ColumnsFitBets /\ Report(k)!SendsWhatIsShown
  /\ \A k \in On("bets", BetPages) : Bets(k)!RowsOfTheTab /\ Bets(k)!AmountsOnlyOfSettled /\ Bets(k)!DatesHaveTwoEnds /\ Bets(k)!SortedBySeenColumn
  /\ \A k \in On("search", SearchPages) : Search(k)!DialogIsOfRowClicked
  /\ \A k \in On("withdraw", WithdrawPages) : Withdraw(k)!ShowsChosenMember
  /\ \A k \in On("adjust", AdjustPages) : Adjust(k)!PostsShownMember
  /\ \A k \in On("log", LogPages) : Log(k)!ImageOfLastClick
  /\ \A k \in On("photo", PhotoDialogs) : Photo(k)!CancelGivesBack

(* Buttons, overlays and chains of a background task keep a second request *)
(* from running beside the first, and give way again.                      *)
OneRequestAtATime ==
  /\ [](/\ \A k \in On("profile", ProfilePages) : Profile(k)!OneSaveAtATime
        /\ \A k \in On("icons", IconPages) : Icons(k)!OneToggleAtATime
        /\ \A k \in On("table", Tables) : Table(k)!OverlayGoesAway
        /\ \A k \in On("tasks", TaskQueues) : Tasks(k)!ChainsNeverMultiply /\ Tasks(k)!LoopForEveryQueuedTask)
  /\ [][\A k \in On("export", ExportPages) : Export(k)!UnaskedAlone /\ Export(k)!NextDrawRepairs]_vars

(* Beside bets and withdrawals, the wallet of a member is what the         *)
(* adjustments with a row made of it, unless a row was lost after its      *)
(* wallet call; neither an adjustment nor a withdrawal takes it below zero *)
(* unless the wallet fell between the check and the debit; a withdrawal    *)
(* goes to a card of its member and asks for no more than the balance the  *)
(* manager was shown (MoneyTransactionBO.java:1205-1243, 1665-1720).       *)
WalletIsExplained ==
  /\ [](/\ \A k \in On("adjust", AdjustPages) : Adjust(k)!RowsExplainWallet /\ Adjust(k)!CapKeepsWallet
        /\ \A k \in On("withdraw", WithdrawPages) : Withdraw(k)!PaidToOwnCard)
  /\ [][\A k \in On("withdraw", WithdrawPages) : Withdraw(k)!AsksWithinBalance]_vars

(* The review pages implement ReviewQueue: from lists of any age every     *)
(* payment is decided at most once, unless two decisions read it as        *)
(* pending before one of them wrote: the UPDATE is by id alone             *)
(* (MoneyTransactionBO.java:513-528).                                      *)
DecidedOnce ==
  /\ \A k \in On("review", ReviewPages) : Review(k)!Queue!Init
  /\ [][\A k \in On("review", ReviewPages) : Review(k)!DecidesOnce]_vars

(* The line under a table and the page it marks tell which records are     *)
(* shown, and its pager asks for no page after the last one of them, once  *)
(* the timer of the length menu has fired and unless a draw was overtaken, *)
(* refused or lost.  A search keeps the page the table is on, so there may *)
(* be no records on it (DataTableUtils.js:206).                            *)
TablesTurnTheirPages ==
  /\ [](\A k \in On("table", Tables) : Table(k)!InfoTellsRows)
  /\ [][\A k \in On("table", Tables) : Table(k)!PagerStaysInside]_vars

(* What is typed reads as it was meant: a change of an amount field keeps  *)
(* the cents and leaves one point and well-placed commas, and a display    *)
(* order that can be typed is taken.                                       *)
AmountsReadTrue ==
  /\ [](/\ \A k \in On("amount", AmountFields) : Amount(k)!OnePoint
        /\ \A k \in On("game", GamePages) : Game(k)!TypedIsAccepted)
  /\ [][\A k \in On("amount", AmountFields) : Amount(k)!ChangeKeepsAmount /\ Amount(k)!FormattedIsReadable]_vars

(* What is stored can be read: a money cell and a page total other than    *)
(* nothing is the nearest hundredth, red is below zero, commas stand by    *)
(* threes; every row of the update log is drawn and the last one tells     *)
(* what is stored unless two saves overlapped, a bet is found by its row   *)
(* unless it moved, and on the page of the list a provider in maintenance  *)
(* has a window.                                                           *)
StoredCanBeRead ==
  /\ \A k \in On("cells", MoneyTables) : Cells(k)!CellIsNearest /\ Cells(k)!FooterIsNearest /\ Cells(k)!RedIsBelowZero /\ Cells(k)!GroupsOfThree
  /\ \A k \in On("log", LogPages) : Log(k)!LastRowTellsStored /\ Log(k)!EveryRowIsDrawn
  /\ \A k \in On("window", BetWindows) : Window(k)!FoundUnlessMoved /\ Window(k)!NoTimeOfViewing /\ Window(k)!InfoIsShown
  /\ \A k \in On("provider", ProviderPages) : Provider(k)!WindowWhileInMaintenance

(* Each code of the server or of a select finds the constant it was        *)
(* declared for, and the lists of a page offer them all (const.js).        *)
CodesAreUnderstood ==
  script = "const" => (/\ Script!LookupsFindTheirInstance /\ Script!ListsOfferTheInstances
                       /\ Script!ServerCodesAreUnderstood /\ Script!CitiesFollowTheProvince)

(* Menu, bell and password box follow what happened: a click turns its     *)
(* menu and no other stays open on a wide window, a waiting payment has    *)
(* rung, the menu counts both kinds, the marks are those of the password.  *)
MenuAndBellFollow ==
  /\ [](/\ \A k \in On("menu", MenuBars) : Menu(k)!Accordion /\ Menu(k)!ClicksTurnMenus
        /\ \A k \in On("bell", Bells) : Bell(k)!NoSilentList /\ Bell(k)!MenuCountsBoth
        /\ \A k \in On("password", PasswordForms) : Password(k)!MarksMatchPassword /\ Password(k)!FocusShowsUnmet)
  /\ [][/\ \A k \in On("menu", MenuBars) : Menu(k)!StillWhenReleased
        /\ \A k \in On("bell", Bells) : Bell(k)!RiseIsHeard]_vars

(* The object a server caches names that server, also when its session     *)
(* came from a dead one (ManagerCache, ManagerFilter).                     *)
CachedIsHere == \A k \in On("login", Logins) : Login(k)!CachedIsHere

(* The comments of the document dialog say that a photo it deletes was     *)
(* cleared by the user (updateDocument, profile.js:1048).                  *)
PhotosClearedByUser == \A k \in On("photo", PhotoDialogs) : Photo(k)!ClearedByUser
=============================================================================
