---------------------------- MODULE MemberReport ----------------------------
(***************************************************************************)
(* The report page of one member: seven tabs, each a table with a form of  *)
(* its own, and two modals that go from a day of settled bets to the games *)
(* of that day and from a game to its bets.  The overlay of a request      *)
(* keeps the manager from clicking, but any answer takes it away, and the  *)
(* bets of a game may be asked for several times at once: answers come in  *)
(* any order, and a late one shows its modal again.  Which rows a page     *)
(* holds is the subject of DataTable; here a request is the table, the     *)
(* page and the part of the form that decides which rows come.             *)
(***************************************************************************)
EXTENDS Integers, FiniteSets

CONSTANTS
  Offered,    \* the tabs the manager's permissions show
  Picks,      \* the ranges [from, to] a manager may pick, in instants
  LastMonth,  \* the range the fields start with, in periods
  Period,     \* instants in a day, and in a minute
  Days,       \* transaction days
  DayPages,   \* [Days -> Nat], the pages of the games of a day
  Games,      \* game types
  Sport,      \* GameType.Sport
  Pages,      \* bound: the pages of the other tables
  MaxOut      \* bound: the requests on their way

Tabs == {"Login", "UpdateLog", "Deposit", "Withdrawal", "Adjustment", "Unsettled", "Settled"}
DateOnly == {"Unsettled", "Settled"}
WithAmounts == {"Deposit", "Withdrawal"}
Modals == {"betSummary", "betDetails"}
TableNames == Offered \cup Modals

MemberReportAssumption ==
  /\ Offered \subseteq Tabs /\ Offered \cap {"Login", "UpdateLog"} # {}
  /\ Period \in Nat \ {0} /\ Pages \in Nat \ {0} /\ MaxOut \in Nat
  /\ \A r \in Picks : r.from \in Nat /\ r.to \in Nat /\ r.from <= r.to
  /\ LastMonth \in [from : Nat, to : Nat]
  /\ DayPages \in [Days -> Nat \ {0}]
  /\ Sport \in Games

VARIABLES
  tab,      \* the active tab
  shown,    \* the text of the date field of each tab
  sends,    \* the hidden searchDateRange of each tab
  valid,    \* whether the amounts of a form pass its validator
  day,      \* transactionDate of searchDetailGlobalForm
  bet,      \* searchBetDetailForm: [day, game]
  page,     \* the page each table is on, 0 before it is made
  rows,     \* the request whose rows a table shows
  columns,  \* "all" at first, "balance" or "odds": those betDetailsTable shows
  modals,   \* the modals on the screen
  flight,   \* the requests not answered yet
  blocked,  \* App.blockUI(body)
  \* history
  clicked,  \* [day, of, game]: the day, the game and its day clicked last
  raced     \* modals opened while a request for another row was on its way

formVars == <<shown, sends, valid>>
detailVars == <<day, bet, columns, clicked, raced>>
netVars == <<flight, blocked>>
vars == <<tab, formVars, detailVars, page, rows, modals, netVars>>

Blank == [from |-> 0, to |-> 0]
Nothing == [table |-> "none"]
Idle == ~blocked

(* The part of the form that decides which rows come. *)
Form(t) ==
  CASE t = "betSummary" -> [day |-> day', game |-> "", range |-> Blank]
    [] t = "betDetails" -> [day |-> bet'.day, game |-> bet'.game, range |-> Blank]
    [] OTHER -> [day |-> 0, game |-> "", range |-> sends'[t]]

(* copied: it is sent again for each column that is shown or hidden. *)
Request(t, p, copied) == [table |-> t, page |-> p, form |-> Form(t), copied |-> copied]

(* The state is well formed: a modal is on the screen only after its table *)
(* was made, and only made tables hold rows.                               *)
TypeOK ==
  /\ tab \in Offered
  /\ valid \in [WithAmounts \cap Offered -> BOOLEAN]
  /\ page \in [TableNames -> 0..Pages]
  /\ columns \in {"all", "balance", "odds"} /\ blocked \in BOOLEAN /\ raced \subseteq Modals
  /\ modals \subseteq Modals
  /\ \A m \in modals : page[m] # 0 /\ rows[m] # Nothing
  /\ \A t \in TableNames : rows[t] # Nothing => rows[t].table = t /\ page[t] # 0
  /\ \A r \in flight : r.table \in TableNames /\ page[r.table] # 0

(* The dates of a field, in instants: a date-only field counts in days, a  *)
(* field with a time in minutes, each from its first instant to its last.  *)
Whole(r) == [from |-> r.from * Period, to |-> r.to * Period + Period - 1]
Periods(r) == [from |-> r.from \div Period, to |-> r.to \div Period]

(* dateRangeInitial fills the date-only fields with their hidden range. *)
SendsAtFirst(t) == IF t \in DateOnly THEN Whole(LastMonth) ELSE Blank

(* init: the first tab asks for its rows before dateRangeInitial fills the *)
(* fields.                                                                 *)
Init ==
  /\ tab = IF "Login" \in Offered THEN "Login" ELSE "UpdateLog"
  /\ shown = [t \in Offered |-> LastMonth]
  /\ sends = [t \in Offered |-> SendsAtFirst(t)]
  /\ valid = [t \in WithAmounts \cap Offered |-> TRUE]
  /\ day = 0 /\ bet = [day |-> 0, game |-> ""]
  /\ page = [t \in TableNames |-> IF t = tab THEN 1 ELSE 0]
  /\ rows = [t \in TableNames |-> Nothing]
  /\ columns = "all" /\ modals = {}
  /\ flight = {[table |-> tab, page |-> 1, copied |-> FALSE, form |-> [day |-> 0, game |-> "", range |-> Blank]]}
  /\ blocked = TRUE
  /\ clicked = [day |-> 0, of |-> 0, game |-> ""] /\ raced = {}

----------------------------------------------------------------------------
(* The date fields. *)

(* Applying the picker writes the field and the hidden range. *)
ApplyDates(t, r) ==
  /\ Idle /\ modals = {} /\ t = tab
  /\ shown' = [shown EXCEPT ![t] = Periods(r)]
  /\ sends' = [sends EXCEPT ![t] = Whole(Periods(r))]
  /\ UNCHANGED <<tab, valid, detailVars, page, rows, modals, netVars>>

(* Cancelling it blanks both. *)
CancelDates(t) ==
  /\ Idle /\ modals = {} /\ t = tab
  /\ shown' = [shown EXCEPT ![t] = Blank]
  /\ sends' = [sends EXCEPT ![t] = Blank]
  /\ UNCHANGED <<tab, valid, detailVars, page, rows, modals, netVars>>

EditAmounts(t) ==
  /\ Idle /\ modals = {} /\ t = tab /\ t \in WithAmounts
  /\ valid' = [valid EXCEPT ![t] = ~@]
  /\ UNCHANGED <<tab, shown, sends, detailVars, page, rows, modals, netVars>>

----------------------------------------------------------------------------
(* Searching.  fnServerData sends nothing for a form that is not valid.    *)
AskFor(t, p, copied) ==
  /\ Cardinality(flight) < MaxOut
  /\ page' = [page EXCEPT ![t] = p]
  /\ IF t \in WithAmounts /\ ~valid[t]
     THEN UNCHANGED netVars
     ELSE flight' = flight \cup {Request(t, p, copied)} /\ blocked' = TRUE

Ask(t, p) == AskFor(t, p, FALSE)

(* A table whose options are kept asks again for the page it is on. *)
Redrawn(t) == Ask(t, IF page[t] = 0 THEN 1 ELSE page[t])

(* A table that is destroyed and made anew starts from its first page; its *)
(* old rows stay until the answer.                                         *)
Rebuilt(t) == Ask(t, 1)

searchProfileLoginLog == Rebuilt("Login")
searchProfileUpdateLog == Rebuilt("UpdateLog")
searchProfileDepositRecord == Rebuilt("Deposit")
searchProfileWithdrawalRecord == Rebuilt("Withdrawal")
searchProfileAdjustmentRecord == Rebuilt("Adjustment")
searchProfileReportBetUnsettled == Redrawn("Unsettled")
searchProfileReportBetSettled == Redrawn("Settled")

Search(t) ==
  \/ t = "Login" /\ searchProfileLoginLog
  \/ t = "UpdateLog" /\ searchProfileUpdateLog
  \/ t = "Deposit" /\ searchProfileDepositRecord
  \/ t = "Withdrawal" /\ searchProfileWithdrawalRecord
  \/ t = "Adjustment" /\ searchProfileAdjustmentRecord
  \/ t = "Unsettled" /\ searchProfileReportBetUnsettled
  \/ t = "Settled" /\ searchProfileReportBetSettled

(* The search button of a tab, and toggleTab, which searches as well. *)
SearchClick ==
  /\ Idle /\ modals = {}
  /\ UNCHANGED <<tab, formVars, detailVars, rows, modals>>
  /\ Search(tab)

toggleTab(t) ==
  /\ Idle /\ modals = {} /\ t # tab
  /\ tab' = t
  /\ UNCHANGED <<formVars, detailVars, rows, modals>>
  /\ Search(t)

(* The pages the pager of a table offers. *)
PagesOf(t) == IF t = "betSummary" THEN DayPages[rows[t].form.day] ELSE Pages

(* The table a click can reach: the modal on top, or the tab. *)
Top == IF "betDetails" \in modals THEN "betDetails" ELSE IF modals # {} THEN "betSummary" ELSE tab

TurnPage(p) ==
  /\ Idle
  /\ rows[Top] # Nothing /\ p \in 1..PagesOf(Top) /\ p # page[Top]
  /\ UNCHANGED <<tab, formVars, detailVars, rows, modals>>
  /\ Ask(Top, p)

----------------------------------------------------------------------------
(* The details of a day, and of a game of that day. *)

(* A row is opened while requests for the other rows among forms are on    *)
(* their way: their answers cannot be told from its own.                   *)
Raced(t, form) ==
  LET open == {r \in flight : r.table = t} IN
  IF \E r \in open : r.form # form THEN raced \cup {t}
  ELSE IF open = {} THEN raced \ {t} ELSE raced

(* gotoDetail for a day of settled bets: the form says which day, and the  *)
(* table asks for the page it is on.  The page knows no other type of row. *)
gotoBetSummaryDetails(d) ==
  /\ Idle /\ modals = {} /\ tab = "Settled" /\ rows["Settled"] # Nothing
  /\ day' = d
  /\ clicked' = [clicked EXCEPT !.day = d]
  /\ UNCHANGED <<tab, formVars, bet, columns, rows, modals>>
  /\ raced' = Raced("betSummary", Form("betSummary"))
  /\ Redrawn("betSummary")

(* Bets on sport show their odds, others the balances. *)
ColumnsOf(g) == IF g = Sport THEN "odds" ELSE "balance"

(* gotoBetDetails: the rows of a game; reinitPage asks for the first page. *)
(* fnSetColumnVis draws, and so asks, once more for each column it shows   *)
(* or hides, all before an answer can come.                                *)
OpenGame(g, form, cols) ==
  /\ Idle /\ modals = {"betSummary"}
  /\ rows["betSummary"].page <= DayPages[rows["betSummary"].form.day]
  /\ bet' = form /\ columns' = cols
  /\ clicked' = [clicked EXCEPT !.of = clicked.day, !.game = g]
  /\ UNCHANGED <<tab, formVars, day, rows, modals>>
  /\ raced' = Raced("betDetails", Form("betDetails")) \cup (IF "betSummary" \in raced THEN {"betDetails"} ELSE {})
  /\ AskFor("betDetails", 1, columns' # columns)

GameForm(g) == [day |-> rows["betSummary"].form.day, game |-> g]

gotoBetDetailsOnce(g) ==   \* mutant: the columns are set when the table is made
  OpenGame(g, GameForm(g), IF columns = "all" THEN ColumnsOf(g) ELSE columns)

gotoBetDetails(g) == OpenGame(g, GameForm(g), ColumnsOf(g))

(* Closing the bets shows what is below them. *)
Close ==
  /\ Idle /\ modals # {}
  /\ modals' = modals \ {Top}
  /\ UNCHANGED <<tab, formVars, detailVars, page, rows, netVars>>

----------------------------------------------------------------------------

(* The callback shows the modal of the rows, also one that was closed. *)
Shown(r, refused) == IF refused THEN modals ELSE modals \cup ({r.table} \cap Modals)

(* An answer to r or, when there are copies of r, to one of them: rows, or *)
(* an error that leaves the old ones; complete takes the overlay away.     *)
(* The copies are not counted.                                             *)
Answered(r, refused, more) ==
  /\ more => r.copied
  /\ rows' = IF refused THEN rows ELSE [rows EXCEPT ![r.table] = r]
  /\ modals' = Shown(r, refused)
  /\ flight' = IF more THEN flight ELSE flight \ {r}
  /\ blocked' = FALSE
  /\ UNCHANGED <<tab, formVars, detailVars, page>>

Next ==
  \/ \E t \in Offered :
       \/ \E r \in Picks : ApplyDates(t, r)
       \/ CancelDates(t)
       \/ EditAmounts(t)
       \/ toggleTab(t)
  \/ SearchClick
  \/ \E p \in 1..Pages : TurnPage(p)
  \/ \E d \in Days : gotoBetSummaryDetails(d)
  \/ \E g \in Games : gotoBetDetails(g)
  \/ Close
  \/ \E r \in flight, refused, more \in BOOLEAN : Answered(r, refused, more)

Spec == Init /\ [][Next]_vars

----------------------------------------------------------------------------
(* A modal shows the rows of the day, and of the game, that was clicked    *)
(* last, although its form and its table are shared by all days and games  *)
(* and late answers show it again; unless another of its rows was on its   *)
(* way when it was opened.                                                 *)
ModalsShowRowClicked ==
  /\ "betSummary" \in modals \ raced => rows["betSummary"].form.day = clicked.day
  /\ "betDetails" \in modals \ raced =>
       rows["betDetails"].form = [day |-> clicked.of, game |-> clicked.game, range |-> Blank]

(* Likewise the columns of the bets fit the game whose bets they show. *)
ColumnsFitBets ==
  "betDetails" \in modals \ raced => columns = ColumnsOf(rows["betDetails"].form.game)

(* A hidden range that is not blank covers, to the last instant, exactly   *)
(* the days or minutes the field shows.                                    *)
SendsWhatIsShown ==
  \A t \in Offered : sends[t] # Blank =>
    {i \div Period : i \in sends[t].from..sends[t].to} = shown[t].from..shown[t].to
    /\ Cardinality(sends[t].from..sends[t].to) = Period * Cardinality(shown[t].from..shown[t].to)

----------------------------------------------------------------------------
(* What the proofs rest on. *)
Ranges == [from : Int, to : Int]
DayForms == [day : Days \cup {0}, game : Games \cup {""}]
Requests == [table : TableNames, page : 1..Pages, copied : BOOLEAN,
             form : [day : Days \cup {0}, game : Games \cup {""}, range : Ranges]]
Clicks == [day : Days \cup {0}, of : Days \cup {0}, game : Games \cup {""}]

Typed ==
  /\ rows \in [TableNames -> Requests \cup {Nothing}]
  /\ flight \subseteq Requests
  /\ sends \in [Offered -> Ranges] /\ shown \in [Offered -> Ranges]
  /\ day \in Days \cup {0} /\ bet \in DayForms /\ clicked \in Clicks

(* What is shown or comes in table t. *)
Coming(t) == {r \in flight : r.table = t} \cup (IF t \in modals THEN {rows[t]} ELSE {})

(* The forms of the modals name what was clicked, and without a race the   *)
(* rows that are shown or come are those of the forms.                     *)
DayInv ==
  /\ day = clicked.day
  /\ "betSummary" \notin raced => \A r \in Coming("betSummary") : r.form.day = day

OfBets(r) == r.form = [day |-> bet.day, game |-> bet.game, range |-> Blank]

BetInv ==
  "betDetails" \notin raced =>
    /\ bet = [day |-> clicked.of, game |-> clicked.game]
    /\ \A r \in Coming("betDetails") : OfBets(r) /\ columns = ColumnsOf(bet.game)

RangeInv == \A t \in Offered : sends[t] # Blank => sends[t] = Whole(shown[t])

IInv == TypeOK /\ Typed /\ DayInv /\ BetInv /\ RangeInv
=============================================================================
