-------------------------------- MODULE PagesProofs -------------------------
(***************************************************************************)
(* What the pages promise together, for any pages: the invariant of the    *)
(* page that is open is inductive, and each promise of Pages follows from  *)
(* it.                                                                     *)
(***************************************************************************)
EXTENDS Pages, MemberPagesProofs, SitePagesProofs, CountingPagesProofs

-----------------------------------------------------------------------------
(* A behaviour of the pages is a behaviour of its one script: the step of  *)
(* a page of one group is a step of that group.                            *)
LEMMA ScriptStays ==
  ASSUME [Next]_vars
  PROVE  /\ script' = script
         /\ script \in MemberScripts => MemberStep
         /\ script \in SiteScripts => SiteStep
<1>1. CASE MemberNext
  <2>1. script \notin SiteScripts
    BY <1>1 DEF MemberNext, On, SiteScripts
  <2>. QED
    BY <1>1, <2>1, MemberStays DEF MemberStep
<1>2. CASE SiteNext
  <2>1. script \notin MemberScripts
    BY <1>2 DEF SiteNext, On, MemberScripts
  <2>. QED
    BY <1>2, <2>1, SiteStays DEF SiteStep
<1>3. CASE script = "const" /\ Script!Next /\ Same7
  BY <1>3 DEF MemberScripts, SiteScripts, Same7, Same8, Same9, Same10, Same11, Same12, Same13, Same14,
     Same15, Same16, Same17, Same18
<1>4. CASE UNCHANGED vars
  BY <1>4 DEF vars, MemberStep, SiteStep
<1>. QED
  BY <1>1, <1>2, <1>3, <1>4 DEF Next

LEMMA ScriptBegins ==
  ASSUME Init
  PROVE  /\ script \in MemberScripts => MemberInit
         /\ script \in SiteScripts => SiteInit
BY DEF Init, MemberInit, SiteInit, MemberScripts, SiteScripts

(* The inductive invariant of the pages: the invariant of the script that  *)
(* runs.                                                                   *)
PagesInv == MemberInv /\ SiteInv /\ AdjustInv /\ AmountInv /\ CellsInv /\ BellInv

LEMMA PagesBegin ==
  ASSUME Init
  PROVE  PagesInv
<1>1. MemberInv /\ AdjustInv /\ AmountInv /\ CellsInv /\ BellInv
  <2>1. CASE script \in MemberScripts
    BY <2>1, ScriptBegins, MemberPagesBegin, AdjustBegins, AmountBegins, CellsBegins, BellBegins
  <2>2. CASE script \notin MemberScripts
    BY <2>2, MemberPagesElsewhere DEF On, MemberScripts, AdjustInv, AmountInv, CellsInv, BellInv
  <2>. QED
    BY <2>1, <2>2
<1>2. SiteInv
  <2>1. CASE script \in SiteScripts
    BY <2>1, ScriptBegins, SitePagesBegin
  <2>2. CASE script \notin SiteScripts
    BY <2>2, SitePagesElsewhere
  <2>. QED
    BY <2>1, <2>2
<1>. QED
  BY <1>1, <1>2 DEF PagesInv

LEMMA PagesGoOn ==
  ASSUME PagesInv, [Next]_vars
  PROVE  PagesInv'
<1>0. script' = script
  BY ScriptStays
<1>1. MemberInv' /\ AdjustInv' /\ AmountInv' /\ CellsInv' /\ BellInv'
  <2>1. CASE script \in MemberScripts
    BY <2>1, ScriptStays, MemberPagesGoOn, AdjustGoesOn, AmountGoesOn, CellsGoesOn, BellGoesOn DEF PagesInv
  <2>2. CASE script \notin MemberScripts
    BY <2>2, <1>0, MemberPagesStayElsewhere DEF On, MemberScripts, AdjustInv, AmountInv, CellsInv, BellInv
  <2>. QED
    BY <2>1, <2>2
<1>2. SiteInv'
  <2>1. CASE script \in SiteScripts
    BY <2>1, ScriptStays, SitePagesGoOn DEF PagesInv
  <2>2. CASE script \notin SiteScripts
    BY <2>2, <1>0, SitePagesStayElsewhere
  <2>. QED
    BY <2>1, <2>2
<1>. QED
  BY <1>1, <1>2 DEF PagesInv

(* Whatever page is opened, and in whatever order clicks, requests and     *)
(* answers come on it, it keeps the invariant of its script.               *)
THEOREM PagesInvariant == Spec => []PagesInv
<1>1. Init => PagesInv
  BY PagesBegin
<1>2. PagesInv /\ [Next]_vars => PagesInv'
  BY PagesGoOn
<1>. QED
  BY <1>1, <1>2, PTL DEF Spec

-----------------------------------------------------------------------------
(* The review pages implement ReviewQueue: whoever decides on a payment    *)
(* from whatever list, it is decided once and stays decided, unless two    *)
(* decisions had both read it as pending.                                  *)
THEOREM PagesDecidedOnce == Spec => DecidedOnce
<1>1. Init => \A k \in On("review", ReviewPages) : Review(k)!Queue!Init
  <2>. SUFFICES ASSUME Init, script = "review"
                PROVE  \A k \in On("review", ReviewPages) : Review(k)!Queue!Init
    BY DEF On
  <2>. QED
    BY ScriptBegins, ReviewBegins DEF SiteScripts
<1>2. PagesInv /\ [Next]_vars => [\A k \in On("review", ReviewPages) : Review(k)!DecidesOnce]_vars
  <2>. SUFFICES ASSUME PagesInv, [Next]_vars, script = "review"
                PROVE  \A k \in On("review", ReviewPages) : Review(k)!DecidesOnce
    BY DEF On
  <2>. QED
    BY ScriptStays, ReviewGoesOn DEF SiteScripts, PagesInv, SiteInv
<1>. QED
  BY PagesInvariant, <1>1, <1>2, PTL DEF Spec, DecidedOnce

(* The object of a session that a server caches names that server, also    *)
(* when the session was taken over from a dead one.                        *)
THEOREM PagesCachedIsHere == Spec => []CachedIsHere
<1>1. PagesInv => CachedIsHere
  BY LoginShows DEF PagesInv, SiteInv, CachedIsHere
<1>. QED
  BY PagesInvariant, <1>1, PTL

(* Once what a page asked for is answered, it shows what is stored, if no  *)
(* request of it was overtaken, disturbed or lost: after each save the     *)
(* page asks again.                                                        *)
THEOREM PagesQuietPagesAreFresh == Spec => []QuietPagesAreFresh
<1>1. PagesInv => QuietPagesAreFresh
  <2>. SUFFICES ASSUME PagesInv
                PROVE  QuietPagesAreFresh
    OBVIOUS
  <2>1. ProfileInv /\ SearchInv /\ LimitsInv
    BY DEF PagesInv, MemberInv
  <2>2. ReviewInv /\ IconsInv /\ GameInv /\ ProviderInv /\ TableInv
    BY DEF PagesInv, SiteInv
  <2>3. /\ \A k \in On("profile", ProfilePages) : Profile(k)!QuietPageIsFresh
        /\ \A k \in On("search", SearchPages) : Search(k)!QuietListIsFresh
        /\ \A k \in On("limits", LimitPages) : Limits(k)!QuietPageIsFresh
        /\ \A k \in On("review", ReviewPages) : Review(k)!OwnDecisionsShown
    BY <2>1, <2>2, ProfileShows, SearchShows, LimitsShows, ReviewShows
  <2>4. /\ \A k \in On("icons", IconPages) : Icons(k)!QuietIconsAreFresh
        /\ \A k \in On("game", GamePages) : Game(k)!QuietPageIsFresh
        /\ \A k \in On("provider", ProviderPages) : Provider(k)!QuietPageIsFresh
        /\ \A k \in On("table", Tables) : Table(k)!ClicksDoNotRace
    BY <2>2, IconsShows, GameShows, ProviderShows, TableShows
  <2>. QED
    BY <2>3, <2>4 DEF QuietPagesAreFresh
<1>. QED
  BY PagesInvariant, <1>1, PTL

(* A button, an overlay or the one chain of a task keeps a second request  *)
(* from running beside the first, and gives way again; a list is exported  *)
(* alone unless it was asked for twice.                                    *)
THEOREM PagesOneRequestAtATime == Spec => OneRequestAtATime
<1>1. PagesInv => /\ \A k \in On("profile", ProfilePages) : Profile(k)!OneSaveAtATime
                  /\ \A k \in On("icons", IconPages) : Icons(k)!OneToggleAtATime
                  /\ \A k \in On("table", Tables) : Table(k)!OverlayGoesAway
                  /\ \A k \in On("tasks", TaskQueues) : Tasks(k)!ChainsNeverMultiply /\ Tasks(k)!LoopForEveryQueuedTask
  BY ProfileShows, IconsShows, TableShows, TasksShows DEF PagesInv, MemberInv, SiteInv
<1>2. PagesInv /\ [Next]_vars
        => [\A k \in On("export", ExportPages) : Export(k)!UnaskedAlone /\ Export(k)!NextDrawRepairs]_vars
  <2>. SUFFICES ASSUME PagesInv, [Next]_vars, script = "export"
                PROVE  \A k \in On("export", ExportPages) : Export(k)!UnaskedAlone /\ Export(k)!NextDrawRepairs
    BY DEF On
  <2>. QED
    BY ScriptStays, ExportGoesOn DEF SiteScripts, PagesInv, SiteInv
<1>. QED
  BY PagesInvariant, <1>1, <1>2, PTL DEF Spec, OneRequestAtATime

(* A form that is saved as it was drawn changes nothing unless what it     *)
(* shows was disturbed, a document save changes only photos that were      *)
(* touched or that a late answer took away and keeps the required ones,    *)
(* and a game gets the status the question named.                          *)
THEOREM PagesSavesOnlyWhatWasEdited == Spec => SavesOnlyWhatWasEdited
<1>1. PagesInv /\ [Next]_vars
        => [/\ \A k \in On("profile", ProfilePages) : Profile(k)!UneditedSaveKeeps
            /\ \A k \in On("limits", LimitPages) : Limits(k)!UneditedSaveKeeps
            /\ \A k \in On("game", GamePages) : Game(k)!UneditedSaveKeeps
            /\ \A k \in On("provider", ProviderPages) : Provider(k)!UneditedSaveKeeps
            /\ \A k \in On("photo", PhotoDialogs) : Photo(k)!OnlyTouchedPhotosChange /\ Photo(k)!RequiredPhotosStay
            /\ \A k \in On("icons", IconPages) : Icons(k)!ChangesAsNamed]_vars
  <2>. SUFFICES ASSUME PagesInv, [Next]_vars
                PROVE  /\ \A k \in On("profile", ProfilePages) : Profile(k)!UneditedSaveKeeps
                       /\ \A k \in On("limits", LimitPages) : Limits(k)!UneditedSaveKeeps
                       /\ \A k \in On("game", GamePages) : Game(k)!UneditedSaveKeeps
                       /\ \A k \in On("provider", ProviderPages) : Provider(k)!UneditedSaveKeeps
                       /\ \A k \in On("photo", PhotoDialogs) : Photo(k)!OnlyTouchedPhotosChange /\ Photo(k)!RequiredPhotosStay
                       /\ \A k \in On("icons", IconPages) : Icons(k)!ChangesAsNamed
    OBVIOUS
  <2>1. /\ ProfileInv /\ LimitsInv /\ PhotoInv
        /\ GameInv /\ ProviderInv /\ IconsInv
    BY DEF PagesInv, MemberInv, SiteInv
  <2>2. \A k \in On("profile", ProfilePages) : Profile(k)!UneditedSaveKeeps
    <3>. SUFFICES ASSUME script = "profile" PROVE \A k \in On("profile", ProfilePages) : Profile(k)!UneditedSaveKeeps
      BY DEF On
    <3>. QED BY <2>1, ScriptStays, ProfileGoesOn DEF MemberScripts
  <2>3. \A k \in On("limits", LimitPages) : Limits(k)!UneditedSaveKeeps
    <3>. SUFFICES ASSUME script = "limits" PROVE \A k \in On("limits", LimitPages) : Limits(k)!UneditedSaveKeeps
      BY DEF On
    <3>. QED BY <2>1, ScriptStays, LimitsGoesOn DEF MemberScripts
  <2>4. \A k \in On("game", GamePages) : Game(k)!UneditedSaveKeeps
    <3>. SUFFICES ASSUME script = "game" PROVE \A k \in On("game", GamePages) : Game(k)!UneditedSaveKeeps
      BY DEF On
    <3>. QED BY <2>1, ScriptStays, GameGoesOn DEF SiteScripts
  <2>5. \A k \in On("provider", ProviderPages) : Provider(k)!UneditedSaveKeeps
    <3>. SUFFICES ASSUME script = "provider" PROVE \A k \in On("provider", ProviderPages) : Provider(k)!UneditedSaveKeeps
      BY DEF On
    <3>. QED BY <2>1, ScriptStays, ProviderGoesOn DEF SiteScripts
  <2>6. \A k \in On("photo", PhotoDialogs) : Photo(k)!OnlyTouchedPhotosChange /\ Photo(k)!RequiredPhotosStay
    <3>. SUFFICES ASSUME script = "photo"
                  PROVE  \A k \in On("photo", PhotoDialogs) : Photo(k)!OnlyTouchedPhotosChange /\ Photo(k)!RequiredPhotosStay
      BY DEF On
    <3>. QED BY <2>1, ScriptStays, PhotoGoesOn DEF MemberScripts
  <2>7. \A k \in On("icons", IconPages) : Icons(k)!ChangesAsNamed
    <3>. SUFFICES ASSUME script = "icons" PROVE \A k \in On("icons", IconPages) : Icons(k)!ChangesAsNamed
      BY DEF On
    <3>. QED BY <2>1, ScriptStays, IconsGoesOn DEF SiteScripts
  <2>. QED
    BY <2>2, <2>3, <2>4, <2>5, <2>6, <2>7
<1>. QED
  BY PagesInvariant, <1>1, PTL DEF Spec, SavesOnlyWhatWasEdited

(* The line under a table tells the records it shows and its pager asks    *)
(* for no page after the last one, for tables of every length, once the    *)
(* timer of the length menu has fired and unless a draw was overtaken,     *)
(* refused or lost.                                                        *)
THEOREM PagesTablesTurnTheirPages == Spec => TablesTurnTheirPages
<1>1. PagesInv => \A k \in On("table", Tables) : Table(k)!InfoTellsRows
  BY TableShows DEF PagesInv, SiteInv
<1>2. PagesInv /\ [Next]_vars => [\A k \in On("table", Tables) : Table(k)!PagerStaysInside]_vars
  <2>. SUFFICES ASSUME PagesInv, [Next]_vars, script = "table"
                PROVE  \A k \in On("table", Tables) : Table(k)!PagerStaysInside
    BY DEF On
  <2>. QED
    BY ScriptStays, TableGoesOn DEF SiteScripts, PagesInv, SiteInv
<1>. QED
  BY PagesInvariant, <1>1, <1>2, PTL DEF Spec, TablesTurnTheirPages

(* What a page acts on is what it shows: decisions are about payments that *)
(* were shown as pending or selected, dialogs about the row that was       *)
(* clicked, searches about the dates, the amounts, the tab and the column  *)
(* on the screen, a withdrawal and an adjustment about the member shown.   *)
(* Where answers are awaited, unless two requests of a kind were open at   *)
(* once or one was lost.                                                   *)
THEOREM PagesActsOnWhatIsShown == Spec => []ActsOnWhatIsShown
<1>1. PagesInv => ActsOnWhatIsShown
  <2>. SUFFICES ASSUME PagesInv
                PROVE  ActsOnWhatIsShown
    OBVIOUS
  <2>1. /\ ReviewInv /\ ReportInv /\ SearchInv /\ WithdrawInv
        /\ AdjustInv /\ LogInv /\ PhotoInv /\ BetsInv
    BY DEF PagesInv, MemberInv, SiteInv
  <2>2. /\ \A k \in On("review", ReviewPages) : Review(k)!DecidesWhatWasPending /\ Review(k)!BatchShowsSelection
        /\ \A k \in On("report", ReportPages) : Report(k)!ModalsShowRowClicked /\ Report(k)!ColumnsFitBets /\ Report(k)!SendsWhatIsShown
    BY <2>1, ReviewShows, ReportShows
  <2>3. \A k \in On("bets", BetPages) : Bets(k)!RowsOfTheTab /\ Bets(k)!AmountsOnlyOfSettled /\ Bets(k)!DatesHaveTwoEnds /\ Bets(k)!SortedBySeenColumn
    BY <2>1, BetsShows
  <2>4. /\ \A k \in On("search", SearchPages) : Search(k)!DialogIsOfRowClicked
        /\ \A k \in On("withdraw", WithdrawPages) : Withdraw(k)!ShowsChosenMember
        /\ \A k \in On("adjust", AdjustPages) : Adjust(k)!PostsShownMember
    BY <2>1, SearchShows, WithdrawShows, AdjustShows
  <2>5. /\ \A k \in On("log", LogPages) : Log(k)!ImageOfLastClick
        /\ \A k \in On("photo", PhotoDialogs) : Photo(k)!CancelGivesBack
    BY <2>1, LogShows, PhotoShows
  <2>. QED
    BY <2>2, <2>3, <2>4, <2>5 DEF ActsOnWhatIsShown
<1>. QED
  BY PagesInvariant, <1>1, PTL

(* The rows explain the wallet of a member unless one was lost after its   *)
(* wallet call, and only a fall of the wallet between a check and its      *)
(* debit lets an adjustment or a withdrawal take it below zero; a          *)
(* withdrawal goes to a card of its member and asks for no more than the   *)
(* balance the manager was shown.                                          *)
THEOREM PagesWalletIsExplained == Spec => WalletIsExplained
<1>1. PagesInv => /\ \A k \in On("adjust", AdjustPages) : Adjust(k)!RowsExplainWallet /\ Adjust(k)!CapKeepsWallet
                  /\ \A k \in On("withdraw", WithdrawPages) : Withdraw(k)!PaidToOwnCard
  BY AdjustShows, WithdrawShows DEF PagesInv, MemberInv
<1>2. PagesInv /\ [Next]_vars => [\A k \in On("withdraw", WithdrawPages) : Withdraw(k)!AsksWithinBalance]_vars
  <2>. SUFFICES ASSUME PagesInv, [Next]_vars, script = "withdraw"
                PROVE  \A k \in On("withdraw", WithdrawPages) : Withdraw(k)!AsksWithinBalance
    BY DEF On
  <2>. QED
    BY ScriptStays, WithdrawGoesOn DEF MemberScripts, PagesInv, MemberInv
<1>. QED
  BY PagesInvariant, <1>1, <1>2, PTL DEF Spec, WalletIsExplained

(* What is stored can be read: a money cell and a page total other than    *)
(* nothing is the nearest hundredth, red is below zero, commas stand by    *)
(* threes; every row of the update log is drawn and the last one tells     *)
(* what is stored unless two saves overlapped, a bet is found by its row   *)
(* unless it moved, and on the page of the list a provider in maintenance  *)
(* has a window.                                                           *)
THEOREM PagesStoredCanBeRead == Spec => []StoredCanBeRead
<1>1. PagesInv => StoredCanBeRead
  <2>. SUFFICES ASSUME PagesInv
                PROVE  StoredCanBeRead
    OBVIOUS
  <2>1. CellsInv /\ LogInv /\ WindowInv /\ ProviderInv
    BY DEF PagesInv, MemberInv, SiteInv
  <2>2. \A k \in On("cells", MoneyTables) : /\ Cells(k)!CellIsNearest /\ Cells(k)!FooterIsNearest
                                            /\ Cells(k)!RedIsBelowZero /\ Cells(k)!GroupsOfThree
    BY <2>1, CellsShows
  <2>3. /\ \A k \in On("log", LogPages) : Log(k)!LastRowTellsStored /\ Log(k)!EveryRowIsDrawn
        /\ \A k \in On("window", BetWindows) : Window(k)!FoundUnlessMoved /\ Window(k)!NoTimeOfViewing /\ Window(k)!InfoIsShown
        /\ \A k \in On("provider", ProviderPages) : Provider(k)!WindowWhileInMaintenance
    BY <2>1, LogShows, WindowShows, ProviderShows
  <2>. QED
    BY <2>2, <2>3 DEF StoredCanBeRead
<1>. QED
  BY PagesInvariant, <1>1, PTL

(* Menu, bell and password box follow what happened: a click turns its     *)
(* menu and no other stays open on a wide window, a waiting payment has    *)
(* rung, the menu counts both kinds, the marks are those of the password.  *)
THEOREM PagesMenuAndBellFollow == Spec => MenuAndBellFollow
<1>1. PagesInv => /\ \A k \in On("menu", MenuBars) : Menu(k)!Accordion /\ Menu(k)!ClicksTurnMenus
                  /\ \A k \in On("bell", Bells) : Bell(k)!NoSilentList /\ Bell(k)!MenuCountsBoth
                  /\ \A k \in On("password", PasswordForms) : Password(k)!MarksMatchPassword /\ Password(k)!FocusShowsUnmet
  BY MenuShows, BellShows, PasswordShows DEF PagesInv, MemberInv, SiteInv
<1>2. PagesInv /\ [Next]_vars => [/\ \A k \in On("menu", MenuBars) : Menu(k)!StillWhenReleased
                                  /\ \A k \in On("bell", Bells) : Bell(k)!RiseIsHeard]_vars
  <2>. SUFFICES ASSUME PagesInv, [Next]_vars
                PROVE  /\ \A k \in On("menu", MenuBars) : Menu(k)!StillWhenReleased
                       /\ \A k \in On("bell", Bells) : Bell(k)!RiseIsHeard
    OBVIOUS
  <2>0. MenuInv /\ BellInv
    BY DEF PagesInv, SiteInv
  <2>1. \A k \in On("menu", MenuBars) : Menu(k)!StillWhenReleased
    <3>. SUFFICES ASSUME script = "menu" PROVE \A k \in On("menu", MenuBars) : Menu(k)!StillWhenReleased
      BY DEF On
    <3>. QED BY <2>0, ScriptStays, MenuGoesOn DEF SiteScripts
  <2>2. \A k \in On("bell", Bells) : Bell(k)!RiseIsHeard
    <3>. SUFFICES ASSUME script = "bell" PROVE \A k \in On("bell", Bells) : Bell(k)!RiseIsHeard
      BY DEF On
    <3>. QED BY <2>0, ScriptStays, BellGoesOn DEF MemberScripts
  <2>. QED
    BY <2>1, <2>2
<1>. QED
  BY PagesInvariant, <1>1, <1>2, PTL DEF Spec, MenuAndBellFollow

(* Every variable of every page keeps its type.                            *)
THEOREM PagesTypeOK == Spec => []TypeOK
<1>1. PagesInv => TypeOK
  <2>. SUFFICES ASSUME PagesInv
                PROVE  TypeOK
    OBVIOUS
  <2>1. /\ AdjustInv /\ WithdrawInv /\ AmountInv /\ ReportInv /\ PhotoInv
        /\ ProfileInv /\ PasswordInv /\ SearchInv /\ LimitsInv /\ LogInv
    BY DEF PagesInv, MemberInv
  <2>2. /\ ReviewInv /\ TableInv /\ BetsInv /\ WindowInv /\ CellsInv /\ ExportInv /\ IconsInv
        /\ GameInv /\ ProviderInv /\ MenuInv /\ BellInv /\ TasksInv /\ LoginInv
    BY DEF PagesInv, SiteInv
  <2>3. /\ \A k \in On("review", ReviewPages) : Review(k)!TypeOK
        /\ \A k \in On("adjust", AdjustPages) : Adjust(k)!TypeOK
        /\ \A k \in On("withdraw", WithdrawPages) : Withdraw(k)!TypeOK
        /\ \A k \in On("amount", AmountFields) : Amount(k)!TypeOK
    BY <2>1, <2>2, ReviewShows, AdjustShows, WithdrawShows, AmountShows
  <2>4. /\ \A k \in On("report", ReportPages) : Report(k)!TypeOK
        /\ \A k \in On("photo", PhotoDialogs) : Photo(k)!TypeOK
        /\ \A k \in On("profile", ProfilePages) : Profile(k)!TypeOK
        /\ \A k \in On("password", PasswordForms) : Password(k)!TypeOK
    BY <2>1, ReportShows, PhotoShows, ProfileShows, PasswordShows
  <2>5. /\ \A k \in On("search", SearchPages) : Search(k)!TypeOK
        /\ \A k \in On("limits", LimitPages) : Limits(k)!TypeOK
        /\ \A k \in On("log", LogPages) : Log(k)!TypeOK
    BY <2>1, SearchShows, LimitsShows, LogShows
  <2>6. /\ \A k \in On("table", Tables) : Table(k)!TypeOK
        /\ \A k \in On("bets", BetPages) : Bets(k)!TypeOK
        /\ \A k \in On("window", BetWindows) : Window(k)!TypeOK
        /\ \A k \in On("cells", MoneyTables) : Cells(k)!TypeOK
    BY <2>2, TableShows, BetsShows, WindowShows, CellsShows
  <2>7. /\ \A k \in On("export", ExportPages) : Export(k)!TypeOK
        /\ \A k \in On("icons", IconPages) : Icons(k)!TypeOK
        /\ \A k \in On("game", GamePages) : Game(k)!TypeOK
        /\ \A k \in On("provider", ProviderPages) : Provider(k)!TypeOK
    BY <2>2, ExportShows, IconsShows, GameShows, ProviderShows
  <2>8. /\ \A k \in On("menu", MenuBars) : Menu(k)!TypeOK
        /\ \A k \in On("bell", Bells) : Bell(k)!TypeOK
        /\ \A k \in On("tasks", TaskQueues) : Tasks(k)!TypeOK
        /\ \A k \in On("login", Logins) : Login(k)!TypeOK
    BY <2>2, MenuShows, BellShows, TasksShows, LoginShows
  <2>. QED
    BY <2>3, <2>4, <2>5, <2>6, <2>7, <2>8 DEF TypeOK
<1>. QED
  BY PagesInvariant, <1>1, PTL

(* What is typed reads as it was meant: whatever text a change finds in an *)
(* amount field, it keeps the cents and leaves one point, a decimal or two *)
(* and its commas in place, and a display order that can be typed is       *)
(* taken.                                                                  *)
THEOREM PagesAmountsReadTrue == Spec => AmountsReadTrue
<1>1. PagesInv => /\ \A k \in On("amount", AmountFields) : Amount(k)!OnePoint
                  /\ \A k \in On("game", GamePages) : Game(k)!TypedIsAccepted
  BY AmountShows, GameShows DEF PagesInv, MemberInv, SiteInv
<1>2. PagesInv /\ [Next]_vars
        => [\A k \in On("amount", AmountFields) : Amount(k)!ChangeKeepsAmount /\ Amount(k)!FormattedIsReadable]_vars
  <2>. SUFFICES ASSUME PagesInv, [Next]_vars, script = "amount"
                PROVE  \A k \in On("amount", AmountFields) : Amount(k)!ChangeKeepsAmount /\ Amount(k)!FormattedIsReadable
    BY DEF On
  <2>. QED
    BY ScriptStays, AmountGoesOn DEF MemberScripts, PagesInv, MemberInv
<1>. QED
  BY PagesInvariant, <1>1, <1>2, PTL DEF Spec, AmountsReadTrue
=============================================================================
