---------------------------- MODULE ExportReport ----------------------------
(***************************************************************************)
(* The export button of the list of adjustments (ExcelUtils.schedule).  A  *)
(* click asks the server how many reports of the type it is making; when   *)
(* there are some, a dialog asks whether to go on.  The report is then     *)
(* ordered.  The button is disabled meanwhile; its style takes no clicks   *)
(* of the mouse, with which it is clicked.                                 *)
(*                                                                         *)
(* Each answer of the table puts a copy of a hidden template in the place  *)
(* of the button.  A click disables the template and the button that is    *)
(* there; the end of its order enables these two again.                    *)
(***************************************************************************)
EXTENDS Naturals, FiniteSets

CONSTANTS
  Pages,   \* pages that show the list
  None,    \* no page
  Orders   \* bound: identities of orders, one for each click

ExportReportAssumption == IsFiniteSet(Orders) /\ None \notin Pages

VARIABLES
  template,  \* pages whose template is disabled
  button,    \* button[p]: the button in the toolbar of p
  order,     \* order[o]: the order of the click o
  making,    \* the reports that the server makes
  failed,    \* history: pages whose question failed
  redrawn    \* history: pages whose button was replaced during an order

vars == <<template, button, order, making, failed, redrawn>>

Idle == "idle"
Steps == {Idle, "checking", "asking", "posting", "served", "done"}
Order == [page : Pages \cup {None}, step : Steps, confirmed : BOOLEAN,
          blind : BOOLEAN,   \* ordered upon an error
          mine : BOOLEAN]    \* the button clicked is still there
Unused == [page |-> None, step |-> Idle, confirmed |-> FALSE, blind |-> FALSE, mine |-> FALSE]

Init ==
  /\ template = {} /\ button = [p \in Pages |-> "none"]
  /\ order = [o \in Orders |-> Unused]
  /\ making = {} /\ failed = {} /\ redrawn = {}

At(o, step) == order[o].step = step
Goes(o, step) == order' = [order EXCEPT ![o].step = step]
Waiting(o) == order[o].step \in {"checking", "asking", "posting", "served"}
WaitsOn(p) == {o \in Orders : Waiting(o) /\ order[o].page = p}

(* The callback of the table: addToolBar with a copy of the template. *)
search(p) ==
  /\ button' = [button EXCEPT ![p] = IF p \in template THEN "off" ELSE "on"]
  /\ order' = [o \in Orders |-> IF order[o].page = p THEN [order[o] EXCEPT !.mine = FALSE] ELSE order[o]]
  /\ redrawn' = IF WaitsOn(p) # {} THEN redrawn \cup {p} ELSE redrawn \ {p}
  /\ UNCHANGED <<template, making, failed>>

Disable(p) ==
  /\ template' = template \cup {p}
  /\ button' = [button EXCEPT ![p] = "off"]

(* exportExcel of a form that is valid. *)
schedule(p, o) ==
  /\ button[p] = "on" /\ At(o, Idle)
  /\ Disable(p)
  /\ order' = [order EXCEPT ![o] = [page |-> p, step |-> "checking", confirmed |-> FALSE,
                                    blind |-> FALSE, mine |-> TRUE]]
  /\ UNCHANGED <<making, failed, redrawn>>

MoreThanOne == Cardinality(making) > 1   \* mutant: one report does not count
InProduction == Cardinality(making) > 0

CheckAnswered(o) ==
  /\ At(o, "checking")
  /\ Goes(o, IF InProduction THEN "asking" ELSE "posting")
  /\ UNCHANGED <<template, button, making, failed, redrawn>>

(* An answer that is an error has no count, which is no count above zero.  *)
CheckIsError(o) ==
  /\ At(o, "checking")
  /\ order' = [order EXCEPT ![o].step = "posting", ![o].blind = TRUE]
  /\ UNCHANGED <<template, button, making, failed, redrawn>>

(* The question has no handler of errors. *)
CheckFails(o) ==
  /\ At(o, "checking") /\ Goes(o, "done")
  /\ failed' = failed \cup {order[o].page}
  /\ UNCHANGED <<template, button, making, redrawn>>

Enable(o) ==
  /\ template' = template \ {order[o].page}
  /\ button' = IF order[o].mine THEN [button EXCEPT ![order[o].page] = "on"] ELSE button

Confirm(o) ==
  /\ At(o, "asking")
  /\ order' = [order EXCEPT ![o].step = "posting", ![o].confirmed = TRUE]
  /\ UNCHANGED <<template, button, making, failed, redrawn>>

Cancel(o) ==
  /\ At(o, "asking") /\ Goes(o, "done")
  /\ Enable(o)
  /\ UNCHANGED <<making, failed, redrawn>>

Answer(o) == Confirm(o) \/ Cancel(o)

(* The server takes the order, or answers with an error. *)
Serve(o) ==
  /\ At(o, "posting") /\ Goes(o, "served")
  /\ making' \in {making, making \cup {o}}
  /\ UNCHANGED <<template, button, failed, redrawn>>

(* success and error end in complete. *)
Complete(o) ==
  /\ order[o].step \in {"posting", "served"} /\ Goes(o, "done")
  /\ Enable(o)
  /\ UNCHANGED <<making, failed, redrawn>>

ReportEnds(o) ==
  /\ o \in making /\ making' = making \ {o}
  /\ UNCHANGED <<template, button, order, failed, redrawn>>

Next ==
  \/ \E p \in Pages : search(p)
  \/ \E o \in Orders :
       \/ \E p \in Pages : schedule(p, o)
       \/ CheckAnswered(o) \/ CheckIsError(o) \/ CheckFails(o) \/ Answer(o)
       \/ Serve(o) \/ Complete(o) \/ ReportEnds(o)

Spec == Init /\ [][Next]_vars

(* Requests are answered or fail, and the manager answers the dialog. *)
Fairness ==
  \A o \in Orders :
    /\ WF_vars(CheckAnswered(o) \/ CheckIsError(o) \/ CheckFails(o))
    /\ WF_vars(Answer(o)) /\ WF_vars(Complete(o))

LiveSpec == Spec /\ Fairness

-----------------------------------------------------------------------------
(* Buttons and orders are well formed; an order that a page waits for      *)
(* keeps the button disabled, and no two orders of a page are under way.   *)
TypeOK ==
  /\ template \subseteq Pages /\ button \in [Pages -> {"none", "on", "off"}]
  /\ order \in [Orders -> Order]
  /\ \A o \in Orders : Waiting(o) => button[order[o].page] = "off"
  /\ \A p \in Pages : \A o, q \in WaitsOn(p) : o = q
  /\ making \subseteq Orders /\ {failed, redrawn} \subseteq SUBSET Pages

(* A report that no one confirmed is the only one of its page that the     *)
(* server makes when it starts, however often the table is drawn and       *)
(* whatever other pages order meanwhile: the button and its copies are     *)
(* disabled from the question until the order has been answered            *)
(* (schedule).  Only an order after an answer that was an error is blind   *)
(* to the others.                                                          *)
UnaskedAlone ==
  \A o \in making' \ making :
    order[o].confirmed \/ order[o].blind \/ \A q \in making : order[q].page # order[o].page

(* The button comes back, whatever becomes of the order, unless the        *)
(* question before it failed or the table replaced the button meanwhile.   *)
Disabled(p) == button[p] = "off" /\ p \notin failed \cup redrawn
ButtonReturns ==
  \A p \in Pages : []<>~Disabled(p)

(* A table that is drawn when no order is under way brings a button that   *)
(* can be clicked, unless a question failed.                               *)
NextDrawRepairs ==
  \A p \in Pages : WaitsOn(p) = {} /\ p \notin failed /\ search(p) => button'[p] = "on"

-----------------------------------------------------------------------------
(* What the proofs rest on.                                                *)
Typed ==
  /\ template \subseteq Pages /\ button \in [Pages -> {"none", "on", "off"}]
  /\ order \in [Orders -> Order]
  /\ making \subseteq Orders /\ failed \subseteq Pages /\ redrawn \subseteq Pages

(* An order that is waited for disables the template and the button of its *)
(* page, is alone, and only it or a question that failed does so.          *)
WaitInv ==
  /\ \A o \in Orders : Waiting(o) =>
       order[o].page \in template /\ button[order[o].page] = "off"
  /\ \A o, q \in Orders : Waiting(o) /\ Waiting(q) /\ order[o].page = order[q].page => o = q
  /\ \A p \in template : p \in failed \/ \E o \in Orders : Waiting(o) /\ order[o].page = p

(* An order that nobody confirmed is posted when the server makes none of  *)
(* the page.                                                               *)
UnaskedInv ==
  \A o \in Orders : At(o, "posting") /\ ~order[o].confirmed /\ ~order[o].blind =>
    \A q \in making : order[q].page # order[o].page

IInv == Typed /\ WaitInv /\ UnaskedInv
=============================================================================
