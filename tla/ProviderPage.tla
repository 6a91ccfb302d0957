--------------------------- MODULE ProviderPage ---------------------------
(***************************************************************************)
(* The list and the profile of the game providers.  Both edit the status   *)
(* of a provider in a dialog, with the window of a maintenance; the        *)
(* profile also edits the name, in a form that carries the status along.   *)
(* No button is disabled while a save is out.  The server changes the      *)
(* cached object first, writes the whole object, then the vendors.         *)
(***************************************************************************)

CONSTANTS
  OnProfile,  \* TRUE on the profile, FALSE on the list
  Statuses,   \* the entries of the status list
  Windows,    \* windows a manager may pick
  Today,      \* the window the picker starts with
  Names,      \* names typed
  LongNames,  \* those longer than the server keeps
  Cut,        \* what is left of a long name
  Slots       \* bound: requests in flight

ProviderPageAssumption ==
  /\ OnProfile \in BOOLEAN
  /\ Statuses \subseteq {"active", "inactive", "maintenance"} /\ "active" \in Statuses
  /\ Today \in Windows
  /\ LongNames \subseteq Names /\ Cut \notin Names

VARIABLES
  object,    \* the cached WebsiteProvider: [name, status, window]
  db,        \* its row
  vendor,    \* status and window of its vendors
  provider,  \* what the page loaded last: a set, empty before the first answer
  dialog,    \* [form, name, status, window, edited, fresh]
  flight,    \* requests: [op, state, from, data]
  disturbed  \* history: a load overtook another, an answer or a write failed

vars == <<object, db, vendor, provider, dialog, flight, disturbed>>
serverVars == <<object, db, vendor>>

NoWindow == "null"
Row(n, s, w) == [name |-> n, status |-> s, window |-> w]
Sound(r) == r.status = "maintenance" <=> r.window # NoWindow
NoForm == [form |-> "none", name |-> Cut, status |-> "active", window |-> NoWindow,
           edited |-> FALSE, fresh |-> FALSE]
NoRow == Row(Cut, "active", NoWindow)
Free == [op |-> "free", state |-> "free", from |-> NoForm, data |-> NoRow]
Ask(op, f) == [op |-> op, state |-> "asked", from |-> f, data |-> NoRow]
Out(op) == {s \in Slots : flight[s].op = op}
Quiet == \A s \in Slots : flight[s] = Free
Advance(s, st) == flight' = [flight EXCEPT ![s].state = st]

TypeOK ==
  /\ \A r \in {object, db} \cup provider :
       r \in [name : Names \cup {Cut}, status : Statuses, window : Windows \cup {NoWindow}]
  /\ \A p, q \in provider : p = q
  /\ dialog.form \in {"none", "status"} \cup (IF OnProfile THEN {"name"} ELSE {})
  /\ dialog.form = "status" /\ dialog.status # "maintenance" => dialog.window = NoWindow
  /\ \A s \in Slots : /\ flight[s].op \in {"free", "load", "save"}
                      /\ flight[s].state \in {"free", "asked", "set", "written", "served", "failed"}

(* A provider in maintenance has a window, the others have none; init      *)
(* loads it.                                                               *)
Init ==
  /\ \E n \in Names \ LongNames, s \in Statuses, w \in Windows \cup {NoWindow} :
       Sound(Row(n, s, w)) /\ db = Row(n, s, w)
  /\ object = db /\ vendor = [status |-> db.status, window |-> db.window]
  /\ provider = {} /\ dialog = NoForm /\ disturbed = FALSE
  /\ \E s \in Slots : flight = [t \in Slots |-> IF t = s THEN Ask("load", NoForm) ELSE Free]

----------------------------------------------------------------------------
(* Loading: the profile is answered from the cache, the list from the      *)
(* database.                                                               *)

ServeLoad(s) ==
  /\ flight[s].op = "load" /\ flight[s].state = "asked"
  /\ flight' = [flight EXCEPT ![s].state = "served",
                              ![s].data = IF OnProfile THEN object ELSE db]
  /\ UNCHANGED <<serverVars, provider, dialog, disturbed>>

Loaded(s) ==
  /\ flight[s].op = "load" /\ flight[s].state = "served"
  /\ provider' = {flight[s].data}
  /\ flight' = [flight EXCEPT ![s] = Free]
  /\ disturbed' = (disturbed \/ Out("load") # {s})
  /\ UNCHANGED <<serverVars, dialog>>

loadProviderProfile(s) == OnProfile /\ Loaded(s)
queryAllProviders(s) == ~OnProfile /\ Loaded(s)

----------------------------------------------------------------------------
(* The dialogs. *)

OpenWith(f) == dialog' = f /\ UNCHANGED <<serverVars, provider, flight, disturbed>>

WindowOfToday(p) == IF p.status = "maintenance" THEN Today ELSE NoWindow
   \* mutant: the picker is made without the dates

(* The picker writes the field; without dates it starts with today.        *)
WindowShown(p) ==
  IF p.status # "maintenance" THEN NoWindow
  ELSE IF p.window = NoWindow THEN Today ELSE p.window

StatusForm(p) ==
  [form |-> "status", name |-> Cut, status |-> p.status, window |-> WindowShown(p),
   edited |-> FALSE, fresh |-> Quiet /\ ~disturbed /\ Sound(p)]

editProvider == dialog = NoForm /\ \E p \in provider : OpenWith(StatusForm(p))
resetUpdateProviderForm ==
  dialog.form = "status" /\ \E p \in provider : OpenWith(StatusForm(p))

bindProviderProfileEvent(s) ==
  /\ dialog.form = "status"
  /\ OpenWith([dialog EXCEPT !.status = s, !.edited = TRUE,
                             !.window = IF s = "maintenance" THEN Today ELSE NoWindow])

(* apply writes a window, cancel empties the field. *)
dateRangeInitial(w) ==
  /\ dialog.form = "status" /\ dialog.status = "maintenance"
  /\ OpenWith([dialog EXCEPT !.window = w, !.edited = TRUE])

loadProviderName(p) ==
  [form |-> "name", name |-> p.name, status |-> p.status, window |-> NoWindow,
   edited |-> FALSE, fresh |-> FALSE]

gotoEditProviderName ==
  OnProfile /\ dialog = NoForm /\ \E p \in provider : OpenWith(loadProviderName(p))
resetProviderName ==
  dialog.form = "name" /\ \E p \in provider : OpenWith(loadProviderName(p))

TypeName(n) == dialog.form = "name" /\ OpenWith([dialog EXCEPT !.name = n, !.edited = TRUE])

Close == dialog # NoForm /\ OpenWith(NoForm)

----------------------------------------------------------------------------
(* Saving. *)

(* The window is required where it is shown. *)
Valid(d) == d.form = "status" /\ d.status = "maintenance" => d.window # NoWindow

updateProvider ==
  /\ dialog # NoForm /\ Valid(dialog)
  /\ \E s \in Slots :
       /\ flight[s] = Free
       /\ flight' = [t \in Slots |->
            IF t = s THEN Ask("save", [dialog EXCEPT !.fresh = @ /\ Quiet])
            ELSE [flight[t] EXCEPT !.from.fresh = FALSE]]
  /\ UNCHANGED <<serverVars, provider, dialog, disturbed>>

Kept(n) == IF n \in LongNames THEN Cut ELSE n   \* the first 19 characters

(* The status form carries no name, the name form no window. *)
setProvider(s) ==
  LET d == flight[s].from
  IN  /\ flight[s].op = "save" /\ flight[s].state = "asked"
      /\ object' = Row(IF d.form = "name" THEN Kept(d.name) ELSE object.name,
                       d.status, d.window)
      /\ Advance(s, "set")
      /\ UNCHANGED <<db, vendor, provider, dialog, disturbed>>

writeProvider(s) ==
  /\ flight[s].state = "set"
  /\ db' = object
  /\ flight' = [flight EXCEPT ![s].state = "written", ![s].data = object]
  /\ UNCHANGED <<object, vendor, provider, dialog, disturbed>>

updateWebsiteVendor(s) ==
  /\ flight[s].state = "written"
  /\ vendor' = [status |-> flight[s].data.status, window |-> flight[s].data.window]
  /\ Advance(s, "served")
  /\ UNCHANGED <<object, db, provider, dialog, disturbed>>

(* A request is refused or lost, a write fails: nothing is undone.         *)
Fail(s) ==
  /\ flight[s].state \in {"asked", "set", "written"}
  /\ flight' = [flight EXCEPT ![s] = [Free EXCEPT !.op = flight[s].op, !.state = "failed"]]
  /\ disturbed' = (disturbed \/ flight[s].op = "load" \/ flight[s].state # "asked")
  /\ UNCHANGED <<serverVars, provider, dialog>>

(* Success loads the page again and hides the dialogs; hiding one resets   *)
(* its form from what the page had loaded.                                 *)
Saved(s) ==
  /\ flight[s].op = "save" /\ flight[s].state = "served"
  /\ flight' = [flight EXCEPT ![s] = Ask("load", NoForm)]
  /\ dialog' = NoForm
  /\ UNCHANGED <<serverVars, provider, disturbed>>

Failed(s) ==
  /\ flight[s].state = "failed"
  /\ flight' = [flight EXCEPT ![s] = Free]
  /\ UNCHANGED <<serverVars, provider, dialog, disturbed>>

Next ==
  \/ \E s \in Slots :
       \/ ServeLoad(s) \/ loadProviderProfile(s) \/ queryAllProviders(s)
       \/ setProvider(s) \/ writeProvider(s) \/ updateWebsiteVendor(s)
       \/ Fail(s) \/ Saved(s) \/ Failed(s)
  \/ editProvider \/ resetUpdateProviderForm \/ gotoEditProviderName \/ resetProviderName
  \/ \E s \in Statuses : bindProviderProfileEvent(s)
  \/ \E w \in Windows \cup {NoWindow} : dateRangeInitial(w)
  \/ \E n \in Names : TypeName(n)
  \/ Close \/ updateProvider

Spec == Init /\ [][Next]_vars
----------------------------------------------------------------------------
(* Once every answer is in, and none was overtaken or lost, the page shows *)
(* what is in the database (Provider.js:298-309).                          *)
QuietPageIsFresh == Quiet /\ ~disturbed => provider = {db}

(* A status dialog opened while nothing was out and saved without an edit  *)
(* writes what was there, unless another save overlaps it                  *)
(* (Provider.js:174-198).                                                  *)
UneditedSaveKeeps ==
  \A s \in Slots :
       LET d == flight[s].from
       IN  d.form = "status" /\ d.fresh /\ ~d.edited /\ ~disturbed /\ writeProvider(s)
             => db' = db

(* A provider in maintenance has a window and the others have none: the    *)
(* dialog marks the window as required (Provider.js:283-286,               *)
(* provider.jsp:184-192) and BTProviderBO.java:87-94 reads it unchecked.   *)
(* The name dialog of the profile sends none and may lose it.              *)
WindowWhileInMaintenance == ~OnProfile => Sound(db)

----------------------------------------------------------------------------
(***************************************************************************)
(* What the proofs rest on.                                                *)
(***************************************************************************)
ProviderRows == [name : Names \cup {Cut}, status : Statuses, window : Windows \cup {NoWindow}]
Dialogs ==
  [form : {"none", "status", "name"}, name : Names \cup {Cut}, status : Statuses,
   window : Windows \cup {NoWindow}, edited : BOOLEAN, fresh : BOOLEAN]
Requests ==
  [op : {"free", "load", "save"},
   state : {"free", "asked", "set", "written", "served", "failed"},
   from : Dialogs, data : ProviderRows]

RowsFormed ==
  /\ object \in ProviderRows /\ db \in ProviderRows
  /\ provider \subseteq ProviderRows /\ \A p, q \in provider : p = q

DialogFormed ==
  /\ dialog \in Dialogs /\ disturbed \in BOOLEAN
  /\ dialog.form = "none" => dialog = NoForm
  /\ dialog.form = "name" => OnProfile
  /\ dialog.form = "status" /\ dialog.status # "maintenance" => dialog.window = NoWindow

SlotsFormed ==
  /\ flight \in [Slots -> Requests]
  /\ \A s \in Slots : /\ flight[s].state \in {"set", "written"} => flight[s].op = "save"
                      /\ flight[s].op = "load" /\ flight[s].state = "failed" => disturbed

(* Saves that have not failed. *)
Saves == {s \in Out("save") : flight[s].state # "failed"}

(* Only a dialog that is open is saved, with its window where it needs one.*)
Whole(d) == d.status = "maintenance" <=> d.window # NoWindow
SoundInv ==
  ~OnProfile => /\ Sound(object) /\ Sound(db)
                /\ \A s \in Saves : flight[s].from.form = "status" /\ Whole(flight[s].from)

(* The cache is ahead of the database only while a save is between them.   *)
WrittenInv == ~disturbed /\ (\A s \in Slots : flight[s].state # "set") => object = db

(* A save was taken and its load is not asked yet. *)
LoadIsDue == \E s \in Out("save") : flight[s].state \in {"set", "written", "served"}

(* The only load that is out brings what is stored, and without one the    *)
(* page has it, unless another load is due.                                *)
FreshInv ==
  ~disturbed /\ ~LoadIsDue =>
    /\ \A s \in Slots : Out("load") = {s} /\ flight[s].state = "served" => flight[s].data = db
    /\ Out("load") = {} => provider = {db}

(* A fresh status form that nobody edits is the row, and so are the saves  *)
(* sent from it; a fresh save is the only one.                             *)
FreshForm(d) == d.form = "status" /\ d.fresh /\ ~d.edited
IsRow(d) == d.form = "status" /\ d.status = db.status /\ d.window = db.window
DialogInv ==
  ~disturbed /\ FreshForm(dialog) =>
    object = db /\ IsRow(dialog) /\ \A s \in Saves : IsRow(flight[s].from)
SaveInv ==
  ~disturbed => \A s \in Saves :
    FreshForm(flight[s].from) => object = db /\ IsRow(flight[s].from) /\ \A t \in Saves : t = s

(* What the manager does in a dialog, but for saving it. *)
Edits ==
  \/ editProvider \/ resetUpdateProviderForm \/ gotoEditProviderName \/ resetProviderName
  \/ \E s \in Statuses : bindProviderProfileEvent(s)
  \/ \E w \in Windows \cup {NoWindow} : dateRangeInitial(w)
  \/ \E n \in Names : TypeName(n)
  \/ Close

IInv ==
  /\ RowsFormed /\ DialogFormed /\ SlotsFormed
  /\ SoundInv /\ WrittenInv /\ FreshInv /\ DialogInv /\ SaveInv
=============================================================================
