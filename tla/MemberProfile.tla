---------------------------- MODULE MemberProfile ----------------------------
(***************************************************************************)
(* The profile page of one member.  One request, the overview, fills the   *)
(* whole page and cacheData; a second one, chained to it, draws the marks  *)
(* of the verified contacts.  Every dialog posts one item of the member    *)
(* and a success asks for the overview again.  The dialogs of the status,  *)
(* the remark and the document status start from cacheData, never from the *)
(* server.  Requests are answered in any order.                            *)
(***************************************************************************)
EXTENDS Integers, FiniteSets

CONSTANTS
  Items,    \* what the dialogs change
  Values,   \* values of an item; Blank is not one
  Blank,    \* nothing loaded or typed
  Slots     \* bound: requests in flight

FromCache == {"status", "remark", "kycStatus"}   \* dialogs filled from cacheData
Guarded == FromCache \cup {"addBank"}            \* dialogs that disable their buttons

MemberProfileAssumption ==
  /\ Items \subseteq Guarded \cup {"removeBank", "accountCard", "contact"}
  /\ Blank \notin Values

VARIABLES
  server,     \* the member's items
  cacheData,  \* the last overview
  marks,      \* the verified contact the page shows
  dialog,     \* the dialog on the screen: [item, val, edited, fresh]
  busy,       \* items whose buttons are disabled
  flight,     \* requests: [op, state, item, val, mine, data]
  disturbed   \* history: an overview overtook another, or an answer was lost

vars == <<server, cacheData, marks, dialog, busy, flight, disturbed>>

NoItem == "none"
AllBlank == [i \in Items |-> Blank]
NoDialog == [item |-> NoItem, val |-> Blank, edited |-> FALSE, fresh |-> FALSE]
Free == [op |-> "free", state |-> "free", from |-> NoDialog, data |-> AllBlank]
Ask(op) == [Free EXCEPT !.op = op, !.state = "asked"]
Out(op) == {s \in Slots : flight[s].op = op}
Quiet == \A s \in Slots : flight[s] = Free

TypeOK ==
  /\ server \in [Items -> Values]
  /\ cacheData \in [Items -> Values \cup {Blank}]
  /\ marks \in Values \cup {Blank}
  /\ dialog.item \in Items \cup {NoItem} /\ dialog.val \in Values \cup {Blank}
  /\ busy \subseteq Guarded \cap Items
  /\ \A s \in Slots : /\ flight[s].op \in {"free", "overview", "contacts", "save"}
                      /\ flight[s].state \in {"free", "asked", "served", "failed"}
  /\ disturbed \in BOOLEAN

(* init asks for the overview. *)
Init ==
  /\ server \in [Items -> Values]
  /\ cacheData = AllBlank /\ marks = Blank
  /\ dialog = NoDialog /\ busy = {} /\ disturbed = FALSE
  /\ \E s \in Slots : flight = [t \in Slots |-> IF t = s THEN Ask("overview") ELSE Free]

----------------------------------------------------------------------------
(* The overview and the contacts. *)

Serve(s) ==
  /\ flight[s].state = "asked" /\ flight[s].op # "save"
  /\ flight' = [flight EXCEPT ![s].state = "served", ![s].data = server]
  /\ UNCHANGED <<server, cacheData, marks, dialog, busy, disturbed>>

Fail(s) ==
  /\ flight[s].state = "asked"
  /\ flight' = [flight EXCEPT ![s].state = "failed"]
  /\ UNCHANGED <<server, cacheData, marks, dialog, busy, disturbed>>

(* An answered overview replaces cacheData and is drawn; then the contacts *)
(* are asked for.                                                          *)
getProfileOverview(s) ==
  /\ flight[s].op = "overview" /\ flight[s].state = "served"
  /\ cacheData' = flight[s].data
  /\ flight' = [flight EXCEPT ![s] = Ask("contacts")]
  /\ disturbed' = (disturbed \/ Out("overview") # {s} \/ Out("contacts") # {})
  /\ UNCHANGED <<server, marks, dialog, busy>>

getAccountContactVerify(s) ==
  /\ flight[s].op = "contacts" /\ flight[s].state = "served"
  /\ marks' = IF "contact" \in Items THEN flight[s].data["contact"] ELSE Blank
  /\ flight' = [flight EXCEPT ![s] = Free]
  /\ UNCHANGED <<server, cacheData, dialog, busy, disturbed>>

(* An answer with an error is shown and nothing else. *)
Errored(s) ==
  /\ flight[s].op \in {"overview", "contacts"} /\ flight[s].state = "failed"
  /\ flight' = [flight EXCEPT ![s] = Free]
  /\ disturbed' = TRUE
  /\ UNCHANGED <<server, cacheData, marks, dialog, busy>>

----------------------------------------------------------------------------
(* The dialogs. *)

Fresh(i) ==
  [item |-> i, val |-> IF i \in FromCache THEN cacheData[i] ELSE Blank,
   edited |-> FALSE, fresh |-> Quiet /\ ~disturbed]

Open(i) ==
  /\ dialog = NoDialog /\ i \in Items
  /\ dialog' = Fresh(i)
  /\ UNCHANGED <<server, cacheData, marks, busy, flight, disturbed>>

getEditStatus == Open("status")
goToEditUserRemark == Open("remark")
openUpdateKycStatusModal == Open("kycStatus")
openAddBankModal == Open("addBank")
openRemoveAccountBankModal == Open("removeBank")
openRemoveAccountCardModal == Open("accountCard")

Reset(i) ==
  /\ dialog.item = i /\ i \notin busy
  /\ dialog' = Fresh(i)
  /\ UNCHANGED <<server, cacheData, marks, busy, flight, disturbed>>

resetStatus == Reset("status")
resetUserRemark == Reset("remark")
resetKycStatus == Reset("kycStatus")
resetBank == Reset("addBank")

EditDialog(v) ==
  /\ dialog # NoDialog
  /\ dialog' = [dialog EXCEPT !.val = v, !.edited = TRUE]
  /\ UNCHANGED <<server, cacheData, marks, busy, flight, disturbed>>

CloseDialog ==
  /\ dialog # NoDialog /\ dialog' = NoDialog
  /\ UNCHANGED <<server, cacheData, marks, busy, flight, disturbed>>

PostUnguarded(d) ==   \* mutant: beforeSend disables nothing
  /\ \E s \in Slots :
       /\ flight[s] = Free
       /\ flight' = [flight EXCEPT ![s] = [Ask("save") EXCEPT !.from = d]]
  /\ UNCHANGED <<server, cacheData, marks, dialog, disturbed, busy>>

(* The buttons of the guarded dialogs stay disabled until the answer. *)
Post(d) ==
  /\ busy' = busy \cup ({d.item} \cap Guarded)
  /\ \E s \in Slots :
       /\ flight[s] = Free
       /\ flight' = [flight EXCEPT ![s] = [Ask("save") EXCEPT !.from = d]]
  /\ UNCHANGED <<server, cacheData, marks, dialog, disturbed>>

Save(i) == dialog.item = i /\ i \notin busy /\ Post(dialog)

updateStatus == Save("status")
updateUserRemark == Save("remark")
updateKycStatus == Save("kycStatus")
removeAccountBank == Save("removeBank")
removeAccountCard == Save("accountCard")

(* The validator of the bank form lets no blank account number through. *)
saveBank == dialog.val # Blank /\ Save("addBank")

(* The verify buttons of the page post without a dialog. *)
gotoVerifyContact(v) ==
  /\ dialog = NoDialog /\ "contact" \in Items
  /\ Post([item |-> "contact", val |-> v, edited |-> TRUE, fresh |-> FALSE])

(* The server refuses a blank value. *)
ServeSave(s) ==
  /\ flight[s].op = "save" /\ flight[s].state = "asked" /\ flight[s].from.val # Blank
  /\ server' = [server EXCEPT ![flight[s].from.item] = flight[s].from.val]
  /\ flight' = [flight EXCEPT ![s].state = "served"]
  /\ UNCHANGED <<cacheData, marks, dialog, busy, disturbed>>

Complete(i) == busy' = busy \ {i}
Hide(i) == dialog' = IF dialog.item = i THEN NoDialog ELSE dialog

SavedNotReloaded(s) ==   \* mutant: the page is not asked for again
  /\ flight[s].op = "save" /\ flight[s].state = "served"
  /\ Hide(flight[s].from.item) /\ Complete(flight[s].from.item)
  /\ flight' = [flight EXCEPT ![s] = Free]
  /\ UNCHANGED <<server, cacheData, marks, disturbed>>

(* Success hides the dialog, asks for the overview and enables the buttons. *)
Saved(s) ==
  /\ flight[s].op = "save" /\ flight[s].state = "served"
  /\ Hide(flight[s].from.item) /\ Complete(flight[s].from.item)
  /\ flight' = [flight EXCEPT ![s] = Ask("overview")]
  /\ UNCHANGED <<server, cacheData, marks, disturbed>>

SaveFailedStaysBusy(s) ==   \* mutant: the buttons come back only on success
  /\ flight[s].op = "save" /\ flight[s].state = "failed"
  /\ flight' = [flight EXCEPT ![s] = Free]
  /\ UNCHANGED <<server, cacheData, marks, dialog, busy, disturbed>>

(* An error keeps the dialog and enables the buttons. *)
SaveFailed(s) ==
  /\ flight[s].op = "save" /\ flight[s].state = "failed"
  /\ Complete(flight[s].from.item)
  /\ flight' = [flight EXCEPT ![s] = Free]
  /\ UNCHANGED <<server, cacheData, marks, dialog, disturbed>>

(* The item is saved and the answer is lost. *)
SaveLost(s) ==
  /\ flight[s].op = "save" /\ flight[s].state = "served"
  /\ Complete(flight[s].from.item)
  /\ flight' = [flight EXCEPT ![s] = Free]
  /\ disturbed' = TRUE
  /\ UNCHANGED <<server, cacheData, marks, dialog>>

Answer(s) ==
  \/ getProfileOverview(s) \/ getAccountContactVerify(s) \/ Errored(s)
  \/ Saved(s) \/ SaveFailed(s) \/ SaveLost(s)

OpenDialog ==
  \/ getEditStatus \/ goToEditUserRemark \/ openUpdateKycStatusModal
  \/ openAddBankModal \/ openRemoveAccountBankModal \/ openRemoveAccountCardModal

ResetDialog == resetStatus \/ resetUserRemark \/ resetKycStatus \/ resetBank

SaveDialog ==
  \/ updateStatus \/ updateUserRemark \/ updateKycStatus
  \/ saveBank \/ removeAccountBank \/ removeAccountCard

Next ==
  \/ \E s \in Slots : Serve(s) \/ Fail(s) \/ ServeSave(s) \/ Answer(s)
  \/ \E v \in Values : EditDialog(v) \/ gotoVerifyContact(v)
  \/ OpenDialog \/ ResetDialog \/ CloseDialog \/ SaveDialog

(* The server takes up every request and the browser runs every handler. *)
Answered(s) == Serve(s) \/ Fail(s) \/ ServeSave(s) \/ Answer(s)
Spec == Init /\ [][Next]_vars
FairSpec == Spec /\ \A s \in Slots : WF_vars(Answered(s))

----------------------------------------------------------------------------
(* Once every answer is in, and none was lost or overtaken, the page and   *)
(* its contacts show what the server holds (profile.js:148-170).           *)
QuietPageIsFresh ==
  Quiet /\ ~disturbed =>
    cacheData = server /\ ("contact" \in Items => marks = server["contact"])

(* A dialog filled while nothing was out and saved without an edit changes *)
(* nothing, whatever other dialogs did meanwhile (profile.js:337-346).     *)
UneditedSaveKeeps ==
  \A s \in Slots :
       LET d == flight[s].from
       IN  d.item \in FromCache /\ ~d.edited /\ d.fresh /\ ServeSave(s)
             => server' = server

(* A dialog with guarded buttons has at most one save in flight, also when *)
(* it is closed and opened again before the answer (profile.js:314-329).   *)
OneSaveAtATime ==
  \A s, t \in Out("save") :
    flight[s].from.item = flight[t].from.item /\ flight[s].from.item \in Guarded
      => s = t

(* No answer leaves the buttons of a dialog disabled for good.             *)
Busy(i) == i \in busy
ButtonsComeBack == \A i \in Guarded \cap Items : []<>~Busy(i)

----------------------------------------------------------------------------
(* What the proofs rest on.  Dialogs and requests are typed.               *)
Dialogs == [item : Items \cup {NoItem}, val : Values \cup {Blank}, edited : BOOLEAN, fresh : BOOLEAN]
Requests == [op : {"free", "overview", "contacts", "save"}, state : {"free", "asked", "served", "failed"},
             from : Dialogs, data : [Items -> Values \cup {Blank}]]

Typed ==
  /\ server \in [Items -> Values] /\ cacheData \in [Items -> Values \cup {Blank}]
  /\ marks \in Values \cup {Blank} /\ dialog \in Dialogs /\ busy \subseteq Guarded \cap Items
  /\ flight \in [Slots -> Requests] /\ disturbed \in BOOLEAN
  /\ \A s \in Slots : flight[s].op = "save" => flight[s].from.item \in Items

(* A guarded dialog with a save in flight has its buttons disabled.        *)
Saves(s) == flight[s].op = "save" /\ flight[s].from.item \in Guarded
BusyInv ==
  \A s \in Slots : Saves(s) =>
    /\ flight[s].from.item \in busy
    /\ \A t \in Slots : Saves(t) /\ flight[t].from.item = flight[s].from.item => t = s

(* What is not on the page yet is on its way: a save that was taken will   *)
(* ask for the overview, which brings what the server holds, unless it was *)
(* answered before the server changed; and then the contacts.              *)
Renews(t) ==
  \/ flight[t].op = "save" /\ flight[t].state = "served"
  \/ flight[t].op = "overview" /\ (flight[t].state # "served" \/ flight[t].data = server)
Remarks(t) ==
  \/ flight[t].op = "save" /\ flight[t].state = "served"
  \/ flight[t].op = "overview"
  \/ flight[t].op = "contacts" /\ (flight[t].state # "served" \/ flight[t].data["contact"] = server["contact"])

OverviewInv ==
  ~disturbed =>
    \/ cacheData = server /\ Out("overview") = {}
    \/ \E t \in Slots : Renews(t)
ContactsInv ==
  ~disturbed =>
    /\ \A s, t \in Out("contacts") : s = t
    /\ "contact" \in Items =>
         \/ marks = server["contact"] /\ Out("contacts") = {}
         \/ \E t \in Slots : Remarks(t)

(* An unedited dialog that was filled while nothing was out holds the      *)
(* value of the server, and so does a save of it.                          *)
Unedited(d) == d.item \in FromCache \cap Items /\ ~d.edited /\ d.fresh
UneditedInv ==
  /\ Unedited(dialog) => dialog.val = server[dialog.item]
  /\ \A s \in Slots : Saves(s) /\ Unedited(dialog) /\ flight[s].from.item = dialog.item => flight[s].from.val = dialog.val
  /\ \A s \in Slots : Saves(s) /\ flight[s].state = "asked" /\ Unedited(flight[s].from) =>
       flight[s].from.val = server[flight[s].from.item]

IInv == Typed /\ BusyInv /\ OverviewInv /\ ContactsInv /\ UneditedInv
=============================================================================
