---------------------------- MODULE MemberSearch ----------------------------
(***************************************************************************)
(* The list of members.  A click on the status or on the document status   *)
(* of a row opens a dialog filled from the row; its reset goes back to a   *)
(* value kept beside the dialog.  A saved dialog and a created account     *)
(* search again, in a table that is destroyed and made anew, so that an    *)
(* answer to the table before still draws its rows.                        *)
(***************************************************************************)
EXTENDS Integers, FiniteSets

CONSTANTS
  Kinds,     \* the dialogs: of the status, of the document status
  Members,   \* the members, those to be created included
  AtFirst,   \* those that exist at first
  Statuses,  \* values of either status
  New,       \* the value of a created member
  None,      \* nothing
  Slots      \* bound: requests in flight

MemberSearchAssumption ==
  /\ Kinds \subseteq {"status", "kycStatus"}
  /\ AtFirst \subseteq Members /\ New \in Statuses
  /\ None \notin Statuses \cup Members \cup {"status", "kycStatus", "create"}

VARIABLES
  server,   \* [Kinds -> [Members -> status]], None for no such member
  rows,     \* the same for the rows of the table
  dialog,   \* the dialog on the screen: a kind, "create" or None
  form,     \* per kind the member and the value of its form
  kept,     \* per kind the value the reset goes back to
  busy,     \* kinds whose buttons are disabled
  blocked,  \* whether blockUI covers the page
  flight,   \* requests: [op, state, form, data]
  clicked,  \* history: the member and the value of the row last clicked
  overtaken \* history: a search was asked while another was out, or failed

dialogVars == <<dialog, form, kept, clicked>>
vars == <<server, rows, dialogVars, busy, blocked, flight, overtaken>>

Table == [Kinds -> [Members -> Statuses \cup {None}]]
NoTable == [k \in Kinds |-> [m \in Members |-> None]]
Entry == [member : Members \cup {None}, val : Statuses \cup {None}]
Blank == [member |-> None, val |-> None]
Free == [op |-> "free", state |-> "free", form |-> Blank, data |-> NoTable]
Searches == {s \in Slots : flight[s].op = "search"}
Quiet == \A s \in Slots : flight[s] = Free
CanClick == Searches = {} /\ ~blocked

TypeOK ==
  /\ server \in Table /\ rows \in Table
  /\ dialog \in Kinds \cup {"create", None}
  /\ form \in [Kinds -> Entry] /\ kept \in [Kinds -> Statuses \cup {None}]
  /\ busy \subseteq Kinds /\ blocked \in BOOLEAN /\ overtaken \in BOOLEAN
  /\ blocked <=> \E s \in Slots : flight[s].op = "create"
  /\ \A k \in busy : \E s \in Slots : flight[s].op = k

Init ==
  /\ server = [k \in Kinds |-> [m \in Members |-> IF m \in AtFirst THEN New ELSE None]]
  /\ rows = NoTable /\ dialog = None
  /\ form = [k \in Kinds |-> Blank] /\ kept = [k \in Kinds |-> None]
  /\ busy = {} /\ blocked = FALSE /\ overtaken = FALSE
  /\ flight = [s \in Slots |-> Free] /\ clicked = Blank

----------------------------------------------------------------------------
(* Searching. *)

Search(s) ==
  /\ flight' = [flight EXCEPT ![s] = [Free EXCEPT !.op = "search", !.state = "asked"]]
  /\ overtaken' = (overtaken \/ Searches # {})

SearchClick ==
  /\ CanClick /\ dialog = None
  /\ \E s \in Slots : flight[s] = Free /\ Search(s)
  /\ UNCHANGED <<server, rows, dialogVars, busy, blocked>>

ServeSearch(s) ==
  /\ s \in Searches /\ flight[s].state = "asked"
  /\ flight' = [flight EXCEPT ![s].state = "done", ![s].data = server]
  /\ UNCHANGED <<server, rows, dialogVars, busy, blocked, overtaken>>

Drawn(s) ==
  /\ s \in Searches /\ flight[s].state = "done"
  /\ rows' = flight[s].data
  /\ flight' = [flight EXCEPT ![s] = Free]
  /\ UNCHANGED <<server, dialogVars, busy, blocked, overtaken>>

SearchFails(s) ==
  /\ s \in Searches /\ flight[s].state = "asked"
  /\ flight' = [flight EXCEPT ![s] = Free] /\ overtaken' = TRUE
  /\ UNCHANGED <<server, rows, dialogVars, busy, blocked>>

----------------------------------------------------------------------------
(* The dialogs of a row. *)

OpenWithoutUser(k, m) ==   \* mutant: the user of the form is not set
  /\ CanClick /\ dialog = None /\ k \in Kinds /\ rows[k][m] # None
  /\ dialog' = k
  /\ kept' = [kept EXCEPT ![k] = rows[k][m]]
  /\ form' = [form EXCEPT ![k].val = rows[k][m]]
  /\ clicked' = [member |-> m, val |-> rows[k][m]]
  /\ UNCHANGED <<server, rows, busy, blocked, flight, overtaken>>

OpenDialog(k, m) ==
  /\ CanClick /\ dialog = None /\ k \in Kinds /\ rows[k][m] # None
  /\ dialog' = k
  /\ kept' = [kept EXCEPT ![k] = rows[k][m]]
  /\ form' = [form EXCEPT ![k] = [member |-> m, val |-> rows[k][m]]]
  /\ clicked' = [member |-> m, val |-> rows[k][m]]
  /\ UNCHANGED <<server, rows, busy, blocked, flight, overtaken>>

openUpdateStatusModal(m) == OpenDialog("status", m)
openUpdateKycStatusModal(m) == OpenDialog("kycStatus", m)

EditDialog(v) ==
  /\ CanClick /\ dialog \in Kinds
  /\ form' = [form EXCEPT ![dialog].val = v]
  /\ UNCHANGED <<server, rows, dialog, kept, clicked, busy, blocked, flight, overtaken>>

(* Hidden inputs keep their value when a form is reset. *)
Reset(k) ==
  /\ CanClick /\ dialog = k /\ k \notin busy
  /\ form' = [form EXCEPT ![k].val = kept[k]]
  /\ UNCHANGED <<server, rows, dialog, kept, clicked, busy, blocked, flight, overtaken>>

resetStatus == Reset("status")
resetKycStatus == Reset("kycStatus")

(* hidden.bs.modal drops the kept status; the document status stays. *)
Hide(k) ==
  /\ dialog' = IF dialog = k THEN None ELSE dialog
  /\ kept' = IF dialog = k /\ k = "status" THEN [kept EXCEPT ![k] = None] ELSE kept
  /\ UNCHANGED <<form, clicked>>

Close ==
  /\ CanClick /\ dialog # None /\ Hide(dialog)
  /\ UNCHANGED <<server, rows, busy, blocked, flight, overtaken>>

Save(k) ==
  /\ CanClick /\ dialog = k /\ k \notin busy
  /\ busy' = busy \cup {k}
  /\ \E s \in Slots :
       /\ flight[s] = Free
       /\ flight' = [flight EXCEPT ![s] = [Free EXCEPT !.op = k, !.state = "asked", !.form = form[k]]]
  /\ UNCHANGED <<server, rows, dialogVars, blocked, overtaken>>

updateStatus == Save("status")
updateKycStatus == Save("kycStatus")

ServeUpdate(s) ==
  /\ flight[s].op \in Kinds /\ flight[s].state = "asked"
  /\ server' = [server EXCEPT ![flight[s].op][flight[s].form.member] = flight[s].form.val]
  /\ flight' = [flight EXCEPT ![s].state = "done"]
  /\ UNCHANGED <<rows, dialogVars, busy, blocked, overtaken>>

(* Success hides the dialog, for whichever row it is open by then. *)
Updated(s) ==
  /\ flight[s].op \in Kinds /\ flight[s].state = "done"
  /\ Hide(flight[s].op) /\ busy' = busy \ {flight[s].op}
  /\ Search(s)
  /\ UNCHANGED <<server, rows, blocked>>

UpdateFails(s) ==
  /\ flight[s].op \in Kinds /\ flight[s].state = "asked"
  /\ busy' = busy \ {flight[s].op}
  /\ flight' = [flight EXCEPT ![s] = Free]
  /\ UNCHANGED <<server, rows, dialogVars, blocked, overtaken>>

----------------------------------------------------------------------------
(* Creating a member. *)

create ==
  /\ CanClick /\ dialog = None /\ dialog' = "create"
  /\ UNCHANGED <<server, rows, form, kept, clicked, busy, blocked, flight, overtaken>>

createAccount(m) ==
  /\ CanClick /\ dialog = "create" /\ blocked' = TRUE
  /\ \E s \in Slots :
       /\ flight[s] = Free
       /\ flight' = [flight EXCEPT ![s] = [Free EXCEPT !.op = "create", !.state = "asked",
                                                       !.form.member = m]]
  /\ UNCHANGED <<server, rows, dialogVars, busy, overtaken>>

(* The server refuses a member it has. *)
ServeCreate(s) ==
  /\ flight[s].op = "create" /\ flight[s].state = "asked"
  /\ \A k \in Kinds : server[k][flight[s].form.member] = None
  /\ server' = [k \in Kinds |-> [server[k] EXCEPT ![flight[s].form.member] = New]]
  /\ flight' = [flight EXCEPT ![s].state = "done"]
  /\ UNCHANGED <<rows, dialogVars, busy, blocked, overtaken>>

creatMemberAccount(s) ==
  /\ flight[s].op = "create" /\ flight[s].state = "done"
  /\ Hide("create") /\ Search(s) /\ blocked' = FALSE
  /\ UNCHANGED <<server, rows, busy>>

CreateFails(s) ==
  /\ flight[s].op = "create" /\ flight[s].state = "asked"
  /\ flight' = [flight EXCEPT ![s] = Free] /\ blocked' = FALSE
  /\ UNCHANGED <<server, rows, dialogVars, busy, overtaken>>

----------------------------------------------------------------------------
Next ==
  \/ SearchClick \/ Close \/ create
  \/ \E m \in Members : openUpdateStatusModal(m) \/ openUpdateKycStatusModal(m) \/ createAccount(m)
  \/ \E v \in Statuses : EditDialog(v)
  \/ resetStatus \/ resetKycStatus \/ updateStatus \/ updateKycStatus
  \/ \E s \in Slots :
       \/ ServeSearch(s) \/ Drawn(s) \/ SearchFails(s)
       \/ ServeUpdate(s) \/ Updated(s) \/ UpdateFails(s)
       \/ ServeCreate(s) \/ creatMemberAccount(s) \/ CreateFails(s)

Spec == Init /\ [][Next]_vars

----------------------------------------------------------------------------
(* A dialog saves to the member whose row was clicked and its reset goes   *)
(* back to the value of that row, whatever was open, saved or hidden       *)
(* before (search.js:91-109, 486-554).                                     *)
DialogIsOfRowClicked ==
  dialog \in Kinds => form[dialog].member = clicked.member /\ kept[dialog] = clicked.val

(* Once every answer is in, and no search was overtaken or failed, a list  *)
(* that was searched shows what was saved and created                      *)
(* (search.js:415, 505, 576).                                              *)
QuietListIsFresh == Quiet /\ ~overtaken /\ rows # NoTable => rows = server

----------------------------------------------------------------------------
(***************************************************************************)
(* What the proofs rest on.                                                *)
(***************************************************************************)
Requests ==
  [op : Kinds \cup {"free", "search", "create"}, state : {"free", "asked", "done"},
   form : Entry, data : Table]

(* Types; blockUI covers the page for one creation at most. *)
Typed ==
  /\ TypeOK
  /\ clicked \in Entry /\ flight \in [Slots -> Requests]
  /\ \A s, t \in Slots : flight[s].op = "create" /\ flight[t].op = "create" => s = t

(* A change was taken and its search is not asked yet. *)
SearchIsDue == \E s \in Slots : flight[s].op \in Kinds \cup {"create"} /\ flight[s].state = "done"

(* Nobody overtakes: one search at most is out.  What it brings, or the    *)
(* list, is what is stored, unless another search is due.                  *)
FreshInv ==
  ~overtaken =>
    /\ \A s, t \in Searches : s = t
    /\ SearchIsDue
       \/ /\ \A s \in Searches : flight[s].state = "done" => flight[s].data = server
          /\ Searches = {} /\ rows # NoTable => rows = server

IInv == Typed /\ DialogIsOfRowClicked /\ FreshInv
=============================================================================
