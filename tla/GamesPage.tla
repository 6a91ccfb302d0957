----------------------------- MODULE GamesPage -----------------------------
(***************************************************************************)
(* The catalogue of games.  The table shows one page of games, each with   *)
(* an icon that opens or closes it; a click asks for confirmation in a     *)
(* message that names the new status, and the answer may come much later,  *)
(* when the rows under the message are others.  Every answer of the table  *)
(* also replaces the page's own copy of the games, DataBase.game.          *)
(***************************************************************************)
EXTENDS Integers, FiniteSets

CONSTANTS
  Pages,     \* the pages of the table: disjoint sets of games
  MaxDraws   \* bound: draws of a behaviour

Games == UNION Pages

GamesPageAssumption ==
  /\ \A p, q \in Pages : p # q => p \cap q = {}
  /\ "none" \notin Games
  /\ MaxDraws \in Nat

VARIABLES
  active,      \* [Games -> BOOLEAN]: the status in the database
  page,        \* the page the table is on
  DataBase,    \* the games drawn last: status by game
  showDialog,  \* PageConfig.showDialog
  dialog,      \* the message that waits for an answer: [game, next]
  posting,     \* the update that waits for an answer: [game, status, named, state]
  draws,       \* requests of the table: [id, page, state, data]
  blocked,     \* App.blockUI(body)
  sent,        \* number of requests of the table
  stored,      \* history: the last update reached the database
  elsewhere,   \* history: a status changed elsewhere since the last draw was served
  disturbed    \* history: a draw overtook another, or was lost

vars == <<active, page, DataBase, showDialog, dialog, posting, draws, blocked, sent,
          stored, elsewhere, disturbed>>
tableVars == <<page, DataBase, draws, blocked, sent>>
toggleVars == <<showDialog, dialog, posting, stored>>

NoGame == "none"
NoDialog == [game |-> NoGame, next |-> FALSE]
NoPost == [game |-> NoGame, status |-> FALSE, named |-> FALSE, state |-> "none"]
NoData == [g \in {} |-> FALSE]
Quiet == draws = {} /\ dialog = NoDialog /\ posting = NoPost

TypeOK ==
  /\ active \in [Games -> BOOLEAN] /\ page \in Pages
  /\ DOMAIN DataBase \in Pages \cup {{}}
  /\ dialog.game \in Games \cup {NoGame} /\ posting.game \in Games \cup {NoGame}
  /\ posting.state \in {"none", "asked", "done", "refused"}
  /\ \A d \in draws : d.page \in Pages /\ d.id \in 1..sent
  /\ blocked => draws # {}

Draw(p) == draws \cup {[id |-> sent + 1, page |-> p, state |-> "asked", data |-> NoData]}

(* init searches at once; a search is a draw of the page the table is on.  *)
Init ==
  /\ active \in [Games -> BOOLEAN] /\ page \in Pages
  /\ DataBase = NoData /\ sent = 1 /\ blocked = TRUE
  /\ draws = {[id |-> 1, page |-> page, state |-> "asked", data |-> NoData]}
  /\ showDialog = FALSE /\ dialog = NoDialog /\ posting = NoPost
  /\ stored = TRUE /\ elsewhere = FALSE /\ disturbed = FALSE

----------------------------------------------------------------------------
(* The table. *)

TurnPage(p) ==
  /\ ~blocked /\ p # page /\ sent < MaxDraws
  /\ page' = p /\ draws' = Draw(p) /\ sent' = sent + 1 /\ blocked' = TRUE
  /\ UNCHANGED <<active, DataBase, toggleVars, elsewhere, disturbed>>

ServeDraw(d) ==
  /\ d.state = "asked"
  /\ draws' = (draws \ {d}) \cup
       {[d EXCEPT !.state = "served", !.data = [g \in d.page |-> active[g]]]}
  /\ elsewhere' = FALSE
  /\ UNCHANGED <<active, page, DataBase, blocked, sent, toggleVars, disturbed>>

(* The callback of search empties DataBase.game and fills it again. *)
gameList(d) == DataBase' = d.data

searchAnswered(d) ==
  /\ d.state = "served"
  /\ gameList(d)
  /\ draws' = draws \ {d} /\ blocked' = FALSE
  /\ disturbed' = (disturbed \/ draws # {d})
  /\ UNCHANGED <<active, page, sent, toggleVars, elsewhere>>

searchFailed(d) ==
  /\ draws' = draws \ {d} /\ blocked' = FALSE /\ disturbed' = TRUE
  /\ UNCHANGED <<active, page, DataBase, sent, toggleVars, elsewhere>>

----------------------------------------------------------------------------
(* The icon. *)

isActiveStatus(g) == DataBase[g]

(* statusIconHTML calls changeStatus; the message names the game and the   *)
(* status it would get.                                                    *)
changeStatus(g) ==
  /\ ~blocked /\ g \in DOMAIN DataBase
  /\ ~showDialog
  /\ dialog' = [game |-> g, next |-> ~isActiveStatus(g)]
  /\ showDialog' = TRUE
  /\ UNCHANGED <<active, tableVars, posting, stored, elsewhere, disturbed>>

StatusOfNow(d) ==   \* mutant: the status is worked out when the button is clicked
  IF d.game \in DOMAIN DataBase THEN ~isActiveStatus(d.game) ELSE d.next
StatusNamed(d) == d.next

(* The buttons of the message stay above the overlay. *)
confirm ==
  /\ dialog # NoDialog
  /\ dialog' = NoDialog
  /\ posting' = [game |-> dialog.game, status |-> StatusNamed(dialog),
                 named |-> dialog.next, state |-> "asked"]
  /\ UNCHANGED <<active, tableVars, showDialog, stored, elsewhere, disturbed>>

cancel ==
  /\ dialog # NoDialog
  /\ dialog' = NoDialog /\ showDialog' = FALSE
  /\ UNCHANGED <<active, tableVars, posting, stored, elsewhere, disturbed>>

(* The server refuses a game that has the status already.  An exception of *)
(* the write is logged, and answered as a success.                         *)
updateGameStatus ==
  /\ posting.state = "asked" /\ active[posting.game] # posting.status
  /\ \E ok \in BOOLEAN :
       /\ stored' = ok
       /\ active' = IF ok THEN [active EXCEPT ![posting.game] = posting.status] ELSE active
  /\ posting' = [posting EXCEPT !.state = "done"]
  /\ UNCHANGED <<tableVars, showDialog, dialog, elsewhere, disturbed>>

refuseGameStatus ==
  /\ posting.state = "asked"
  /\ posting' = [posting EXCEPT !.state = "refused"]
  /\ UNCHANGED <<active, tableVars, showDialog, dialog, stored, elsewhere, disturbed>>

(* success searches again, then complete releases the icons. *)
updated ==
  /\ posting.state = "done" /\ sent < MaxDraws
  /\ draws' = Draw(page) /\ sent' = sent + 1 /\ blocked' = TRUE
  /\ posting' = NoPost /\ showDialog' = FALSE
  /\ UNCHANGED <<active, page, DataBase, dialog, stored, elsewhere, disturbed>>

refused ==
  /\ posting.state = "refused"
  /\ posting' = NoPost /\ showDialog' = FALSE
  /\ UNCHANGED <<active, tableVars, dialog, stored, elsewhere, disturbed>>

(* Another manager, on a page of his own. *)
ChangedElsewhere(g) ==
  /\ active' = [active EXCEPT ![g] = ~@] /\ elsewhere' = TRUE
  /\ UNCHANGED <<tableVars, toggleVars, disturbed>>

Next ==
  \/ \E p \in Pages : TurnPage(p)
  \/ \E d \in draws : ServeDraw(d) \/ searchAnswered(d) \/ searchFailed(d)
  \/ \E g \in Games : changeStatus(g) \/ ChangedElsewhere(g)
  \/ confirm \/ cancel
  \/ updateGameStatus \/ refuseGameStatus \/ updated \/ refused

Spec == Init /\ [][Next]_vars
----------------------------------------------------------------------------
(* The icons are held back exactly while a message or an update is open,   *)
(* and there is never more than one of them (games.js:263, 292-295).       *)
OneToggleAtATime ==
  /\ showDialog <=> (dialog # NoDialog \/ posting # NoPost)
  /\ dialog = NoDialog \/ posting = NoPost

(* An update turns the game round, and to what the message said, however   *)
(* the rows changed while it waited for an answer (games.js:267-277).      *)
ChangesAsNamed ==
  stored' /\ updateGameStatus =>
       active' = [active EXCEPT ![posting.game] = posting.named]
       /\ active' # active

(* When nothing is open and no draw was overtaken or lost, the icons show  *)
(* the statuses of the database: also after an update that was answered    *)
(* as a success and not written (games.js:290).                            *)
QuietIconsAreFresh ==
  Quiet /\ ~disturbed /\ ~elsewhere =>
    DOMAIN DataBase = page /\ \A g \in page : DataBase[g] = active[g]

----------------------------------------------------------------------------
(* What the proofs rest on.  Draws, messages and updates are typed.        *)
Catalogue == {NoData} \cup UNION {[p -> BOOLEAN] : p \in Pages}
Drawn == [id : Nat, page : Pages, state : {"asked", "served"}, data : Catalogue]

Typed ==
  /\ active \in [Games -> BOOLEAN] /\ page \in Pages /\ DataBase \in Catalogue
  /\ showDialog \in BOOLEAN /\ blocked \in BOOLEAN
  /\ dialog \in [game : Games \cup {NoGame}, next : BOOLEAN]
  /\ posting \in [game : Games \cup {NoGame}, status : BOOLEAN, named : BOOLEAN,
                  state : {"none", "asked", "done", "refused"}]
  /\ sent \in Nat /\ draws \subseteq Drawn /\ (blocked => draws # {})
  /\ {elsewhere, disturbed} \subseteq BOOLEAN

(* One message or update is open, of a game, and sends what it said.       *)
ToggleInv ==
  /\ dialog # NoDialog => dialog.game \in Games
  /\ posting # NoPost => posting.state # "none" /\ posting.game \in Games
  /\ posting.status = posting.named
  /\ OneToggleAtATime

(* Draws have numbers of their own.                                        *)
DrawsInv ==
  /\ \A d \in draws : d.id \in 1..sent
  /\ \A c, d \in draws : c.id = d.id => c = d

(* The only draw under way, or else the page's copy, has the statuses of   *)
(* the database, but for an update that will ask for a draw.               *)
Status == [g \in page |-> active[g]]
Settled == ~elsewhere /\ posting.state # "done"
FreshInv ==
  ~disturbed =>
    /\ \A d \in draws : draws = {d} =>
         d.page = page /\ (d.state = "served" /\ Settled => d.data = Status)
    /\ draws = {} /\ Settled => DataBase = Status

IInv == Typed /\ ToggleInv /\ DrawsInv /\ FreshInv
=============================================================================
