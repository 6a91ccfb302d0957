----------------------------- MODULE GameForms -----------------------------
(***************************************************************************)
(* The two pages of one game.  The profile shows the status and edits it   *)
(* in a dialog filled from cacheData; the settings page edits the display  *)
(* order in a field that is on the page itself.  Both load the game when   *)
(* they open and again after a save, and the answer of a load overwrites   *)
(* what the page shows.                                                    *)
(***************************************************************************)
EXTENDS Integers, FiniteSets

CONSTANTS
  Page,      \* "profile" or "setting"
  Statuses,  \* the statuses of the list
  Orders,    \* display orders in the database
  Typed,     \* numbers typed into the field
  Slots      \* bound: requests in flight

GameFormsAssumption ==
  /\ Page \in {"profile", "setting"}
  /\ Orders \subseteq Nat /\ Typed \subseteq Nat
  /\ Statuses # {}

VARIABLES
  server,     \* the value the page edits, in the cache of the server
  cacheData,  \* the game loaded last
  field,      \* the list of the dialog, or the field: [val, edited, fresh]
  open,       \* the dialog is on the screen; the field always is
  disabled,   \* the Save and Reset buttons
  flight,     \* requests: [op, state, from, known, data]; known: it has the game's id
  disturbed   \* history: a load overtook another, or an answer was lost

vars == <<server, cacheData, field, open, disabled, flight, disturbed>>

Blank == -1
OnProfile == Page = "profile"
Stored == IF OnProfile THEN Statuses ELSE Orders
NoField == [val |-> Blank, edited |-> FALSE, fresh |-> FALSE]
Free == [op |-> "free", state |-> "free", from |-> NoField, known |-> FALSE, data |-> Blank]
Ask(op, f) == [op |-> op, state |-> "asked", from |-> f, known |-> cacheData # Blank,
               data |-> Blank]
Out(op) == {s \in Slots : flight[s].op = op}
Quiet == \A s \in Slots : flight[s] = Free
Send(s, req) == flight[s] = Free /\ flight' = [flight EXCEPT ![s] = req]

TypeOK ==
  /\ server \in Stored \cup 0..99
  /\ cacheData \in Stored \cup 0..99 \cup {Blank}
  /\ field.val \in Stored \cup 0..99 \cup {Blank}
  /\ \A s \in Slots : /\ flight[s].op \in {"free", "load", "save"}
                      /\ flight[s].state \in {"free", "asked", "served", "failed"}
  /\ disabled <=> Out("save") # {}

(* init loads the game. *)
Init ==
  /\ server \in Stored /\ cacheData = Blank
  /\ field = NoField /\ open = ~OnProfile
  /\ disabled = FALSE /\ disturbed = FALSE
  /\ \E s \in Slots : flight = [t \in Slots |-> IF t = s THEN Ask("load", NoField) ELSE Free]

----------------------------------------------------------------------------
(* Loading. *)

searchGameById(s) ==
  /\ flight[s].op = "load" /\ flight[s].state = "asked"
  /\ flight' = [flight EXCEPT ![s].state = "served", ![s].data = server]
  /\ UNCHANGED <<server, cacheData, field, open, disabled, disturbed>>

Fail(s) ==
  /\ flight[s].state = "asked"
  /\ flight' = [flight EXCEPT ![s].state = "failed"]
  /\ UNCHANGED <<server, cacheData, field, open, disabled, disturbed>>

Shown(s) == [val |-> flight[s].data, edited |-> FALSE,
             fresh |-> ~disturbed /\ \A t \in Slots \ {s} : flight[t] = Free]

(* The settings page writes the field, the profile only the page.          *)
searchGames(s) ==
  /\ flight[s].op = "load" /\ flight[s].state = "served"
  /\ cacheData' = flight[s].data
  /\ field' = IF OnProfile THEN field ELSE Shown(s)
  /\ flight' = [flight EXCEPT ![s] = Free]
  /\ disturbed' = (disturbed \/ Out("load") # {s})
  /\ UNCHANGED <<server, open, disabled>>

LoadFailed(s) ==
  /\ flight[s].op = "load" /\ flight[s].state = "failed"
  /\ flight' = [flight EXCEPT ![s] = Free] /\ disturbed' = TRUE
  /\ UNCHANGED <<server, cacheData, field, open, disabled>>

----------------------------------------------------------------------------
(* Editing. *)

(* loadStatus and resetGameDisplayOrder take the value from cacheData.     *)
FromCache == [val |-> cacheData, edited |-> FALSE, fresh |-> Quiet /\ ~disturbed]

getEditStatus ==
  /\ OnProfile /\ ~open
  /\ open' = TRUE /\ field' = FromCache
  /\ UNCHANGED <<server, cacheData, disabled, flight, disturbed>>

Reset ==
  /\ open /\ ~disabled
  /\ field' = FromCache
  /\ UNCHANGED <<server, cacheData, open, disabled, flight, disturbed>>
resetStatus == OnProfile /\ Reset
resetGameDisplayOrder == ~OnProfile /\ Reset

Close ==
  /\ OnProfile /\ open /\ open' = FALSE
  /\ UNCHANGED <<server, cacheData, field, disabled, flight, disturbed>>

KeptHundred(n) == IF n > 100 THEN 99 ELSE n   \* mutant: off by one
Kept(n) == IF n >= 100 THEN 99 ELSE n

Edit(v) ==
  /\ open
  /\ field' = [field EXCEPT !.val = v, !.edited = TRUE]
  /\ UNCHANGED <<server, cacheData, open, disabled, flight, disturbed>>
chooseStatus(v) == OnProfile /\ v \in Statuses /\ Edit(v)
typeOrder(n) == ~OnProfile /\ Edit(Kept(n))

----------------------------------------------------------------------------
(* Saving. *)

Save ==
  /\ open /\ ~disabled
  /\ \E s \in Slots : Send(s, Ask("save", field))
  /\ disabled' = TRUE
  /\ UNCHANGED <<server, cacheData, field, open, disturbed>>
updateStatus == OnProfile /\ Save

(* The page lets 100 through; an empty field is refused here. *)
InRange(n) == n # Blank /\ n <= 100
updateGameDisplayOrder == ~OnProfile /\ InRange(field.val) /\ Save

(* The server refuses the status the game has, and an order above 99; a    *)
(* save before the first answer carries no game.                           *)
Accepted(v) == IF OnProfile THEN v \in Statuses /\ v # server ELSE v \in 0..99

ServeSave(s) ==
  /\ flight[s].op = "save" /\ flight[s].state = "asked"
  /\ flight[s].known /\ Accepted(flight[s].from.val)
  /\ server' = flight[s].from.val
  /\ flight' = [flight EXCEPT ![s].state = "served"]
  /\ UNCHANGED <<cacheData, field, open, disabled, disturbed>>

(* Success hides the dialog and loads the game again; complete follows.    *)
Saved(s) ==
  /\ flight[s].op = "save" /\ flight[s].state = "served"
  /\ flight' = [flight EXCEPT ![s] = Ask("load", NoField)]
  /\ open' = ~OnProfile /\ disabled' = FALSE
  /\ UNCHANGED <<server, cacheData, field, disturbed>>

SaveFailed(s) ==
  /\ flight[s].op = "save" /\ flight[s].state = "failed"
  /\ flight' = [flight EXCEPT ![s] = Free]
  /\ disabled' = FALSE
  /\ UNCHANGED <<server, cacheData, field, open, disturbed>>

(* The value is saved and the answer is lost. *)
SaveLost(s) ==
  /\ flight[s].op = "save" /\ flight[s].state = "served"
  /\ flight' = [flight EXCEPT ![s] = Free]
  /\ disabled' = FALSE /\ disturbed' = TRUE
  /\ UNCHANGED <<server, cacheData, field, open>>

Next ==
  \/ \E s \in Slots :
       \/ searchGameById(s) \/ searchGames(s) \/ LoadFailed(s) \/ Fail(s)
       \/ ServeSave(s) \/ Saved(s) \/ SaveFailed(s) \/ SaveLost(s)
  \/ getEditStatus \/ resetStatus \/ resetGameDisplayOrder \/ Close
  \/ \E v \in Statuses : chooseStatus(v)
  \/ \E n \in Typed : typeOrder(n)
  \/ updateStatus \/ updateGameDisplayOrder

Spec == Init /\ [][Next]_vars
----------------------------------------------------------------------------
(* Once every answer is in, and none was lost or overtaken, cacheData and  *)
(* an untouched field hold what the server holds (gamesSetting.js:35-57).  *)
QuietPageIsFresh ==
  Quiet /\ ~disturbed =>
    /\ cacheData = server
    /\ ~OnProfile /\ ~field.edited => field.val = server

(* What is in the field without an edit changes nothing when it is saved.  *)
UneditedSaveKeeps ==
  \A s \in Slots :
       ~flight[s].from.edited /\ flight[s].from.fresh /\ ~disturbed /\ ServeSave(s)
         => server' = server

(* What is typed is never refused for its range: the page checks for 100   *)
(* and the server for 99, and only the filter of the field keeps the two   *)
(* apart (gamesSetting.js:12-32 and 63, ContentManageServlet.java:316).    *)
TypedIsAccepted ==
  \A s \in Out("save") :
    ~OnProfile /\ flight[s].from.edited => Accepted(flight[s].from.val)
----------------------------------------------------------------------------
(***************************************************************************)
(* What the proofs rest on.                                                *)
(***************************************************************************)
Values == Stored \cup 0..99 \cup {Blank}
Fields == [val : Values, edited : BOOLEAN, fresh : BOOLEAN]
Requests ==
  [op : {"free", "load", "save"}, state : {"free", "asked", "served", "failed"}, from : Fields,
   known : BOOLEAN, data : Values]

(* Types; one save at a time. *)
Formed ==
  /\ server \in Stored \cup 0..99 /\ cacheData \in Values /\ field \in Fields
  /\ flight \in [Slots -> Requests]
  /\ disabled \in BOOLEAN /\ disturbed \in BOOLEAN

OneSave ==
  /\ disabled <=> Out("save") # {}
  /\ \A s, t \in Out("save") : s = t

(* The filter of the field keeps two digits. *)
TwoDigits(f) == ~OnProfile /\ f.edited => f.val \in 0..99
DigitsInv == TwoDigits(field) /\ \A s \in Slots : TwoDigits(flight[s].from)

(* A save was taken and its load is not asked yet. *)
LoadIsDue == \E s \in Out("save") : flight[s].state = "served"

(* The only load that is out brings the value of the server, and without   *)
(* one the page has it, unless another load is due.                        *)
FreshInv ==
  ~disturbed /\ ~LoadIsDue =>
    /\ \A s \in Slots : Out("load") = {s} /\ flight[s].state = "served" => flight[s].data = server
    /\ Out("load") = {} =>
         cacheData = server /\ (~OnProfile /\ ~field.edited => field.val = server)

(* A fresh value that nobody edits is the server's, in the field and in    *)
(* the save that is out; the save does not change what the field holds.    *)
FreshKept(f) == f.fresh /\ ~f.edited => f.val = server
KeptInv ==
  ~disturbed =>
    /\ FreshKept(field)
    /\ \A s \in Out("save") :
         /\ FreshKept(flight[s].from)
         /\ field.fresh /\ ~field.edited => flight[s].from.val = server

IInv == Formed /\ OneSave /\ DigitsInv /\ FreshInv /\ KeptInv
=============================================================================
