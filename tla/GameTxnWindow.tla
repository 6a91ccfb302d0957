--------------------------- MODULE GameTxnWindow ---------------------------
(***************************************************************************)
(* The window with the details of one bet (subGameTransaction.js), opened  *)
(* from a row of the member's reports or of the bet report.  The row knows *)
(* when the bet was settled as the table was drawn; the server looks the   *)
(* bet up by that day, while the bet may be settled, reopened, settled     *)
(* again or revoked.                                                       *)
(***************************************************************************)
EXTENDS Naturals, FiniteSets

CONSTANTS
  Days,     \* the days a bet can be settled on; 0 stands for no settle time
  Infos,    \* the texts kept with a bet: "", "object", "null", "broken"
  Steps     \* bound: changes of the bet

GameTxnWindowAssumption ==
  /\ Days \subseteq Nat \ {0} /\ Days # {} /\ Steps \in Nat
  /\ Infos \subseteq {"", "object", "null", "broken"}

VARIABLES
  bet,      \* the row of GAMETRANSACTION: [status, day]
  info,     \* what the provider said of it
  steps,    \* bound: the changes left
  row,      \* the row drawn, {} or {[status, day]}
  asked,    \* the settle day in the window's address, {} before it opens
  window,   \* what the window shows
  found     \* history: the bet as the server read it

vars == <<bet, info, steps, row, asked, window, found>>

Status == {"unsettled", "settled", "revoked"}
Bet == [status : Status, day : {0} \cup Days]
Opening == [shows |-> "nothing"]

Init ==
  /\ bet = [status |-> "unsettled", day |-> 0]
  /\ info \in Infos /\ steps = Steps
  /\ row = {} /\ asked = {} /\ window = Opening /\ found = {}

----------------------------------------------------------------------------
(* The provider's side: the bet is settled, reopened or revoked. *)
ChangeBet(b) ==
  /\ steps > 0 /\ b # bet
  /\ b.status = "settled" => b.day # 0
  /\ b.status = "unsettled" => b.day = 0
  /\ bet' = b /\ steps' = steps - 1
  /\ UNCHANGED <<info, row, asked, window, found>>

(* A table is drawn: an unsettled bet has no settle time in its row, and a *)
(* table of other bets fails for a row without one.                        *)
DrawRow ==
  /\ bet.status = "unsettled" \/ bet.day # 0
  /\ row' = {[status |-> bet.status, day |-> IF bet.status = "unsettled" THEN 0 ELSE bet.day]}
  /\ UNCHANGED <<bet, info, steps, asked, window, found>>

(* openGameTxnData: the row's values go into the address. *)
openGameTxnData(r) ==
  /\ asked = {}
  /\ asked' = {r.day}
  /\ UNCHANGED <<bet, info, steps, row, window, found>>

----------------------------------------------------------------------------
AlwaysByDay(day) == bet.day = day   \* mutant: no settle time is a day as well

(* findTxnById: by the day of the settle time, or of the bet, which stays. *)
Finds(day) == IF day # 0 THEN bet.day = day ELSE TRUE

(* findTxnById, continued: the text kept with the bet is read by the settle *)
(* time the bet must have.                                                  *)
Answer(day) == IF ~Finds(day) \/ bet.day = 0 THEN {} ELSE {bet}

----------------------------------------------------------------------------
Now == 0
(* DateUtil.format: no date is the date of now. *)
format(day) == IF day = 0 THEN Now ELSE day

(* renderGameTxn: times and amounts. *)
Amounts(b) ==
  CASE b.status = "unsettled" -> [settleTime |-> {}, win |-> "bet", profit |-> "zero"]
    [] b.status = "settled"   -> [settleTime |-> {format(b.day)}, win |-> "win", profit |-> "profit"]
    [] OTHER                  -> [settleTime |-> {format(b.day)}, win |-> "win", profit |-> "-"]

(* renderGameTxn: the text kept with the bet, entry by entry or as it is. *)
InfoRows(text) ==
  IF text = "" THEN {} ELSE IF text = "object" THEN {"entries"} ELSE {"text"}

renderGameTxn(b) == [shows |-> "bet", amounts |-> Amounts(b), rows |-> InfoRows(info)]

(* SubGameTransactionHandler.search and its answer. *)
search ==
  /\ window = Opening
  /\ \E day \in asked :
       /\ found' = {bet}
       /\ window' = IF Answer(day) = {} THEN [shows |-> "error"] ELSE renderGameTxn(bet)
  /\ UNCHANGED <<bet, info, steps, row, asked>>

Next ==
  \/ \E b \in Bet : ChangeBet(b)
  \/ DrawRow
  \/ \E r \in row : openGameTxnData(r)
  \/ search

Spec == Init /\ [][Next]_vars

----------------------------------------------------------------------------
(* A window that shows a bet shows one, and asks for a day of a row. *)
TypeOK ==
  /\ bet \in Bet /\ row \subseteq Bet /\ Cardinality(row) <= 1
  /\ asked \subseteq {0} \cup Days
  /\ window.shows \in {"nothing", "error", "bet"}
  /\ Cardinality(asked) <= 1
  /\ window.shows # "nothing" => asked # {} /\ found # {}

(* A row goes stale: the bet it was drawn for may be settled, or reopened,  *)
(* before its window asks.  The window gives up only when the bet has no    *)
(* settle time any more or was settled again on another day (findTxnById    *)
(* with the settle time of the row).                                        *)
FoundUnlessMoved ==
  window.shows = "error" => \A b \in found, day \in asked : b.day = 0 \/ (day # 0 /\ b.day # day)

(* The settle time in a window is that of the bet, never the time at which *)
(* the window was opened (DateUtil.format has that for a missing one).     *)
NoTimeOfViewing ==
  window.shows = "bet" => \A b \in found : Now \notin window.amounts.settleTime
    /\ (window.amounts.settleTime = {b.day} \/ b.status = "unsettled")

(* Whatever the provider sent with a bet can be read in the window, as *)
(* entries or as it came (renderGameTxn and its catch).                *)
InfoIsShown == window.shows = "bet" => (window.rows = {} <=> info = "")

----------------------------------------------------------------------------
(* What the proofs rest on. *)
AskedOnce == asked = {} \/ \E day \in {0} \cup Days : asked = {day}

IInv == TypeOK /\ AskedOnce /\ FoundUnlessMoved /\ NoTimeOfViewing /\ InfoIsShown
=============================================================================
