----------------------------- MODULE BetReport -----------------------------
(***************************************************************************)
(* The bet report (Bet.js): two tabs over one search form, a table for     *)
(* each tab, and the server's search (MemberServlet.searchBetReport).      *)
(*                                                                         *)
(* A request carries the form as it is when the request is sent, the tab   *)
(* in a hidden field of the form and the sort of the table that sends it;  *)
(* the answer goes into that table. The page is blocked while a request is *)
(* out, until the first answer: a change of the page length sends two.     *)
(***************************************************************************)
EXTENDS Naturals, Sequences, FiniteSets

CONSTANTS
  Amounts,   \* amounts that are entered
  Read,      \* Read[a]: the amount the server reads in the first ten characters of a
  Sorts,     \* bound: the columns that are sorted by
  MaxOut     \* bound: the requests out at once

BetReportAssumption ==
  Amounts \subseteq Nat \ {0} /\ Sorts \subseteq 1..12 /\ MaxOut \in Nat

Tabs == {"SETTLED", "UNSETTLED"}
NoAmount == 0

(* The columns of the two tables, from the second on. *)
Columns(t) ==
  IF t = "SETTLED"
  THEN <<"userId", "transactionTime", "settleTime", "createTime", "vendorName", "gameType",
         "gameName", "odds", "oddsType", "betAmount", "profitLoss", "turnover">>
  ELSE <<"userId", "transactionTime", "createTime", "vendorName", "gameType",
         "gameName", "odds", "oddsType", "betAmount">>

Settled == <<"user_id", "txn_time", "settle_time", "create_time", "vendor_id", "game_type",
             "gm.NAME", "odds", "odds_type", "bet_amount", "profit_loss", "turnover">>

(* The columns the server sorts by, numbered anew for each status. *)
SortColumns(status) ==
  IF status = "SETTLED"
  THEN Settled
  ELSE <<"user_id", "txn_time", "create_time", "vendor_id", "game_type",
         "gm.NAME", "odds", "odds_type", "bet_amount">>

(* The column of the database a column of the page shows. *)
Stored ==
  [userId |-> "user_id", transactionTime |-> "txn_time", settleTime |-> "settle_time",
   createTime |-> "create_time", vendorName |-> "vendor_id", gameType |-> "game_type",
   gameName |-> "gm.NAME", odds |-> "odds", oddsType |-> "odds_type",
   betAmount |-> "bet_amount", profitLoss |-> "profit_loss", turnover |-> "turnover"]

VARIABLES
  tab,      \* currentTab, and the hidden field txnStatus
  form,     \* [dates, min, max]
  made,     \* tabs whose table was created
  order,    \* tab -> the column its table is sorted by
  shown,    \* the container of the results is visible
  rows,     \* tab -> the status of the bets its table shows
  flights,  \* requests not answered
  blocked   \* the page is blocked

vars == <<tab, form, made, order, shown, rows, flights, blocked>>

Init ==
  /\ tab = "SETTLED"
  /\ form = [dates |-> "range", min |-> NoAmount, max |-> NoAmount]
  /\ made = {}
  /\ order = [t \in Tabs |-> 2]
  /\ shown = FALSE
  /\ rows = [t \in Tabs |-> "none"]
  /\ flights = {}
  /\ blocked = FALSE

-----------------------------------------------------------------------------

(* Fields that are hidden are not checked; those of the other tab are      *)
(* empty as well.                                                          *)
Valid(f) == f.min = NoAmount \/ f.max = NoAmount \/ f.min <= f.max

Request(table, copy) ==
  [status |-> tab, table |-> table, form |-> form, column |-> order'[table], copy |-> copy]

(* A table draws: nothing is sent for a form that is not valid.            *)
Draw(table, copies) ==
  IF Valid(form)
  THEN /\ Cardinality(flights) + Cardinality(copies) <= MaxOut
       /\ flights' = flights \union {Request(table, c) : c \in copies}
       /\ blocked' = TRUE
  ELSE UNCHANGED <<flights, blocked>>

EnterAmounts(a, b) ==
  /\ ~blocked /\ tab = "SETTLED"
  /\ form' = [form EXCEPT !.min = a, !.max = b]
  /\ UNCHANGED <<tab, made, order, shown, rows, flights, blocked>>

(* The handler of the page sets the end, which writes both ends to the     *)
(* field, and throws: the handler bound after it, which writes the start   *)
(* only, is not reached.                                                   *)
applyDates ==
  /\ ~blocked
  /\ form' = [form EXCEPT !.dates = "range"]
  /\ UNCHANGED <<tab, made, order, shown, rows, flights, blocked>>

cancelDates ==
  /\ ~blocked
  /\ form' = [form EXCEPT !.dates = "empty"]
  /\ UNCHANGED <<tab, made, order, shown, rows, flights, blocked>>

switchTab(t) ==
  /\ ~blocked /\ t # tab
  /\ tab' = t
  /\ form' = IF t = "SETTLED" THEN form ELSE [form EXCEPT !.min = NoAmount, !.max = NoAmount]
  /\ shown' = FALSE
  /\ UNCHANGED <<made, order, rows, flights, blocked>>

(* The results are shown at once, whether or not a request is sent.        *)
searchReport ==
  /\ ~blocked
  /\ made' = made \union {tab}
  /\ shown' = TRUE
  /\ UNCHANGED <<tab, form, order, rows>>
  /\ Draw(tab, {1})

SortBy(k) ==
  /\ ~blocked /\ shown /\ tab \in made
  /\ k \in DOMAIN Columns(tab)
  /\ order' = [order EXCEPT ![tab] = k]
  /\ UNCHANGED <<tab, form, made, shown, rows>>
  /\ Draw(tab, {1})

(* The menu of the page length draws at once and from a timer. *)
ChangeLength ==
  /\ ~blocked /\ shown /\ tab \in made
  /\ UNCHANGED <<tab, form, made, order, shown, rows>>
  /\ Draw(tab, {1, 2})

\* mutant: the answer goes into the table of the tab that is open
AnswerHere(r) ==
  /\ r \in flights
  /\ flights' = flights \ {r}
  /\ blocked' = FALSE
  /\ rows' = [rows EXCEPT ![tab] = r.status]
  /\ UNCHANGED <<tab, form, made, order, shown>>

searchBetReport(r) ==
  LET min == IF r.form.min = NoAmount THEN NoAmount ELSE Read[r.form.min]
      max == IF r.form.max = NoAmount THEN NoAmount ELSE Read[r.form.max]
      accepted == min = NoAmount \/ max = NoAmount \/ min <= max
  IN  /\ r \in flights
      /\ flights' = flights \ {r}
      /\ blocked' = FALSE
      /\ rows' = IF accepted THEN [rows EXCEPT ![r.table] = r.status] ELSE rows
      /\ UNCHANGED <<tab, form, made, order, shown>>

Fails(r) ==
  /\ r \in flights
  /\ flights' = flights \ {r}
  /\ blocked' = FALSE
  /\ UNCHANGED <<tab, form, made, order, shown, rows>>

Next ==
  \/ \E a, b \in Amounts \union {NoAmount} : EnterAmounts(a, b)
  \/ applyDates \/ cancelDates
  \/ \E t \in Tabs : switchTab(t)
  \/ searchReport
  \/ \E k \in Sorts : SortBy(k)
  \/ ChangeLength
  \/ \E r \in flights : searchBetReport(r) \/ Fails(r)

Spec == Init /\ [][Next]_vars

-----------------------------------------------------------------------------

TypeOK ==
  /\ tab \in Tabs
  /\ form \in [dates : {"range", "empty"}, min : Amounts \union {NoAmount}, max : Amounts \union {NoAmount}]
  /\ made \subseteq Tabs
  /\ order \in [Tabs -> 1..12]
  /\ {shown, blocked} \subseteq BOOLEAN
  /\ Cardinality(flights) <= MaxOut

(* The table on the page holds bets of the tab that is open: an answer     *)
(* that comes after the tab was left and opened again shows nothing of the *)
(* other one (Bet.js:52-86, 611-624).                                     *)
RowsOfTheTab == shown => rows[tab] \in {"none", tab}

(* A search of unsettled bets, which have no win or loss, carries no       *)
(* amounts, whatever was entered before for the settled ones               *)
(* (Bet.js:64-70).                                                         *)
AmountsOnlyOfSettled ==
  \A r \in flights : r.status = "UNSETTLED" => r.form.min = NoAmount /\ r.form.max = NoAmount

(* The server takes the date apart at its dash and reads two ends          *)
(* (MemberServlet.java:2147-2161): the field has both or is empty.         *)
DatesHaveTwoEnds == \A r \in flights : r.form.dates \in {"range", "empty"}

(* The server sorts by the column the manager sees sorted: the numbers of  *)
(* the two tables and of the two lists of the server agree, for the status *)
(* of the form and the table that sent it.                                 *)
SortedBySeenColumn ==
  \A r \in flights :
    /\ r.column \in DOMAIN SortColumns(r.status)
    /\ SortColumns(r.status)[r.column] = Stored[Columns(r.table)[r.column]]

-----------------------------------------------------------------------------
(* What the proofs rest on. *)
Forms == [dates : {"range", "empty"}, min : Amounts \union {NoAmount}, max : Amounts \union {NoAmount}]
Requests == [status : Tabs, table : Tabs, form : Forms, column : 1..12, copy : {1, 2}]

Typed ==
  /\ flights \subseteq Requests /\ IsFiniteSet(flights)
  /\ \A t \in Tabs : order[t] \in DOMAIN Columns(t)
  /\ rows \in [Tabs -> Tabs \union {"none"}]

(* A table holds bets of its own tab, and every request is one of the tab  *)
(* its table lies on.                                                      *)
RowsInv == \A t \in Tabs : rows[t] \in {"none", t}

FlightsInv ==
  \A r \in flights :
    /\ r.status = r.table /\ r.column \in DOMAIN Columns(r.table)
    /\ r.status = "UNSETTLED" => r.form.min = NoAmount /\ r.form.max = NoAmount

FormInv == tab = "UNSETTLED" => form.min = NoAmount /\ form.max = NoAmount

IInv == TypeOK /\ Typed /\ RowsInv /\ FlightsInv /\ FormInv
=============================================================================
