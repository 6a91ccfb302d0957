--------------------------- MODULE PaymentReview ---------------------------
(***************************************************************************)
(* The review pages of deposits and withdrawals: each manager works on a   *)
(* list loaded earlier, opens payments in the detail or the batch dialog   *)
(* and posts a decision.  Requests of one page are answered in any order;  *)
(* only the loading of the list blocks the page.  The server reads which   *)
(* payments are pending and writes the verdict later, by id.               *)
(***************************************************************************)
EXTENDS Integers, FiniteSets

CONSTANTS
  Managers, Payments,
  Page,         \* "deposit" or "withdrawal"
  Gateway,      \* the deposits of a payment gateway
  MaxRequests   \* bound: the requests of a behaviour

PaymentReviewAssumption ==
  Page \in {"deposit", "withdrawal"} /\ Gateway \subseteq Payments /\ MaxRequests \in Nat

VARIABLES
  status,    \* [Payments -> Status], the rows of MoneyTransaction
  list,      \* [Managers -> [Payments -> Status]], the table on the screen
  batch,     \* [Managers -> [open, rows]], the batch dialog
  detail,    \* [Managers -> [open, shown, buttons]], the detail dialog
  flight,    \* requests not yet answered
  sent,      \* number of requests sent
  \* history
  seen,      \* [Managers -> SUBSET Payments], shown as pending so far
  selection, \* [Managers -> SUBSET Payments], the last selection taken to the batch dialog
  raced,     \* managers with two requests of one kind open at once, or one lost
  settled,   \* [Managers -> SUBSET Payments], decided by an answered post of the manager
  contested  \* payments that two decisions worked on at once

vars == <<status, list, batch, detail, flight, sent, seen, selection, raced, settled, contested>>

Status == {"NEW", "CONFIRMED", "CLOSE"}
Verdicts == {"CONFIRMED", "CLOSE"}
NoOne == "none"
NoVerdict == [verdict |-> NoOne, dialog |-> NoOne]
Kinds == {"list", "rows", "detail", "decide"}

(* The state is well formed, and the requests on their way were sent. *)
TypeOK ==
  /\ status \in [Payments -> Status]
  /\ list \in [Managers -> [Payments -> Status]]
  /\ batch \in [Managers -> [open : BOOLEAN, rows : SUBSET Payments]]
  /\ detail \in [Managers -> [open : BOOLEAN, shown : Payments \cup {NoOne}, buttons : Payments \cup {NoOne}]]
  /\ sent \in 0..MaxRequests
  /\ \A r \in flight : r.id \in 1..sent /\ r.kind \in Kinds /\ r.who \in Managers /\ r.ids \subseteq Payments
  /\ seen \in [Managers -> SUBSET Payments]
  /\ selection \in [Managers -> SUBSET Payments]
  /\ raced \subseteq Managers
  /\ settled \in [Managers -> SUBSET Payments]
  /\ contested \subseteq Payments

Pending(l) == {t \in Payments : l[t] = "NEW"}
Loading(m) == \E r \in flight : r.who = m /\ r.kind = "list"
DialogOpen(m) == batch[m].open \/ detail[m].open

Init ==
  /\ status \in [Payments -> Status]
  /\ list = [m \in Managers |-> status]
  /\ batch = [m \in Managers |-> [open |-> FALSE, rows |-> {}]]
  /\ detail = [m \in Managers |-> [open |-> FALSE, shown |-> NoOne, buttons |-> NoOne]]
  /\ flight = {} /\ sent = 0
  /\ seen = [m \in Managers |-> Pending(status)]
  /\ selection = [m \in Managers |-> {}]
  /\ raced = {}
  /\ settled = [m \in Managers |-> {}]
  /\ contested = {}

----------------------------------------------------------------------------
(* One request: what it is about, what the server read as pending, what of *)
(* that is left to decide and what it counts as decided, and its answer.   *)
Request(kind, m, ids, what) ==
  [id |-> sent + 1, kind |-> kind, who |-> m, ids |-> ids, what |-> what,
   read |-> FALSE, work |-> {}, left |-> {}, counted |-> {},
   served |-> FALSE, answer |-> [t \in ids |-> "NEW"], ok |-> FALSE]

Send(kind, m, ids, what) ==
  /\ sent < MaxRequests
  /\ sent' = sent + 1
  /\ flight' = flight \cup {Request(kind, m, ids, what)}
  /\ raced' = IF \E r \in flight : r.who = m /\ r.kind = kind THEN raced \cup {m} ELSE raced

(* search, and the fnDraw of the answers. *)
Search(m) ==
  /\ ~Loading(m) /\ ~DialogOpen(m)
  /\ Send("list", m, Payments, NoVerdict)
  /\ UNCHANGED <<status, list, batch, detail, seen, selection, settled, contested>>

(* goToBatchApprove with the ticked rows: only a pending row has a         *)
(* checkbox.  The deposit page shows the dialog before the answer.         *)
GoToBatchApprove(m, S) ==
  /\ ~Loading(m) /\ ~DialogOpen(m)
  /\ S # {} /\ S \subseteq Pending(list[m])
  /\ Send("rows", m, S, NoVerdict)
  /\ batch' = [batch EXCEPT ![m].open = (Page = "deposit")]
  /\ selection' = [selection EXCEPT ![m] = S]
  /\ UNCHANGED <<status, list, detail, seen, settled, contested>>

GotoDetail(m, t) ==
  /\ ~Loading(m) /\ ~DialogOpen(m)
  /\ Send("detail", m, {t}, NoVerdict)
  /\ UNCHANGED <<status, list, batch, detail, seen, selection, settled, contested>>

(* The buttons of the batch dialog post the rows it holds. *)
BatchDecide(m, v) ==
  /\ ~Loading(m) /\ batch[m].open
  /\ Send("decide", m, batch[m].rows, [verdict |-> v, dialog |-> "batch"])
  /\ UNCHANGED <<status, list, batch, detail, seen, selection, settled, contested>>

(* The buttons of the detail dialog post the payment they were made for. *)
SingleDecide(m, v) ==
  /\ ~Loading(m) /\ detail[m].open /\ detail[m].buttons # NoOne
  /\ Send("decide", m, {detail[m].buttons}, [verdict |-> v, dialog |-> "detail"])
  /\ UNCHANGED <<status, list, batch, detail, seen, selection, settled, contested>>

(* A dialog is closed.  What the deposit page then asks for is no endpoint  *)
(* of the servlet, so nothing else changes.                                *)
CloseDialogs(m) ==
  /\ ~Loading(m) /\ DialogOpen(m)
  /\ batch' = [batch EXCEPT ![m].open = FALSE]
  /\ detail' = [detail EXCEPT ![m].open = FALSE]
  /\ UNCHANGED <<status, list, flight, sent, seen, selection, raced, settled, contested>>

----------------------------------------------------------------------------
(* The server: a query answers what the table holds. *)
Query(r) ==
  /\ r \in flight /\ ~r.served /\ r.kind # "decide"
  /\ flight' = (flight \ {r}) \cup {[r EXCEPT !.served = TRUE, !.ok = TRUE, !.answer = [t \in r.ids |-> status[t]]]}
  /\ UNCHANGED <<status, list, batch, detail, sent, seen, selection, raced, settled, contested>>

(* A decision goes on with the payments that are read as pending. *)
PendingOfAny(r) == r.ids   \* mutant: the status is not looked at

PendingOf(r) == {t \in r.ids : status[t] = "NEW"}

ReadRows(r) ==
  /\ r \in flight /\ r.kind = "decide" /\ ~r.read
  /\ flight' = (flight \ {r}) \cup {[r EXCEPT !.read = TRUE, !.work = PendingOf(r), !.left = PendingOf(r)]}
  /\ contested' = contested \cup {t \in PendingOf(r) : \E q \in flight \ {r} : t \in q.left}
  /\ UNCHANGED <<status, list, batch, detail, sent, seen, selection, raced, settled>>

(* batchApproveDeposit approves one payment after the other, each in a     *)
(* transaction of its own; every other decision is one transaction.        *)
RowByRow(r) == Page = "deposit" /\ r.what.verdict = "CONFIRMED"

Handled(r) == IF RowByRow(r) THEN {{t} : t \in r.left} ELSE {r.left} \ {{}}

(* Which of the payments S a decision takes effect on.  The approval of a  *)
(* deposit looks at the status again under the row lock and fails for a    *)
(* suspended account; the wallet can refuse some of the refunds of         *)
(* withdrawals; the others write all rows by id, or roll back.             *)
Effect(r, S) ==
  IF RowByRow(r) THEN SUBSET {t \in S : status[t] = "NEW" \/ (t \in Gateway /\ status[t] = "CLOSE")}
  ELSE IF Page = "withdrawal" /\ r.what.verdict = "CLOSE" THEN SUBSET S
  ELSE {{}, S}

(* approvePaymentDepositByBoCheckOrder throws for some failures only: the  *)
(* others count as approved.                                               *)
Counts(r, S, done) == IF RowByRow(r) THEN {done, S} ELSE {done}

Writes(r, verdict) ==
  /\ r \in flight /\ r.read
  /\ \E S \in Handled(r) : \E done \in Effect(r, S) : \E counted \in Counts(r, S, done) :
       /\ status' = [t \in Payments |-> IF t \in done THEN verdict ELSE status[t]]
       /\ flight' = (flight \ {r}) \cup {[r EXCEPT !.left = @ \ S, !.counted = @ \cup counted]}
  /\ UNCHANGED <<list, batch, detail, sent, seen, selection, raced, settled, contested>>

DecideByDialog(r) == Writes(r, r.what.dialog)   \* mutant: the name of the dialog is stored for the verdict

Decide(r) == Writes(r, r.what.verdict)

(* Whether the page hears of a success: approveDeposit answers nothing     *)
(* when a part was counted as approved, a rejection of deposits that was   *)
(* rolled back answers an error, and the withdrawals always answer a       *)
(* success.                                                                *)
HearsSuccess(r) ==
  /\ r.ids # {}
  /\ Page = "deposit" => r.counted \in IF RowByRow(r) THEN {{}, r.ids} ELSE {r.work}

Respond(r) ==
  /\ r \in flight /\ r.read /\ r.left = {} /\ ~r.served
  /\ flight' = (flight \ {r}) \cup
       {[r EXCEPT !.served = TRUE, !.ok = HearsSuccess(r), !.answer = [t \in r.ids |-> status[t]]]}
  /\ UNCHANGED <<status, list, batch, detail, sent, seen, selection, raced, settled, contested>>

----------------------------------------------------------------------------
Ready(r, kind) == r \in flight /\ r.served /\ r.kind = kind

DrawList(r) ==
  /\ Ready(r, "list") /\ r.ok
  /\ list' = [list EXCEPT ![r.who] = r.answer]
  /\ seen' = [seen EXCEPT ![r.who] = @ \cup Pending(r.answer)]
  /\ flight' = flight \ {r}
  /\ UNCHANGED <<status, batch, detail, sent, selection, raced, settled, contested>>

ShowBatchAppending(r) ==   \* mutant: the container is not emptied
  /\ Ready(r, "rows") /\ r.ok
  /\ batch' = [batch EXCEPT ![r.who] = [open |-> @.open \/ Page = "withdrawal", rows |-> @.rows \cup r.ids]]
  /\ flight' = flight \ {r}
  /\ UNCHANGED <<status, list, detail, sent, seen, selection, raced, settled, contested>>

(* batchDepositCallBack and batchWithdrawalCallBack rebuild the rows; the  *)
(* withdrawal page opens the dialog now.                                   *)
ShowBatch(r) ==
  /\ Ready(r, "rows") /\ r.ok
  /\ batch' = [batch EXCEPT ![r.who] = [open |-> @.open \/ Page = "withdrawal", rows |-> r.ids]]
  /\ flight' = flight \ {r}
  /\ UNCHANGED <<status, list, detail, sent, seen, selection, raced, settled, contested>>

TheOne(S) == CHOOSE t \in S : TRUE

(* The answer of gotoDetail: buttons for a pending payment only. *)
ShowDetail(r) ==
  /\ Ready(r, "detail") /\ r.ok
  /\ LET t == TheOne(r.ids) IN
     /\ detail' = [detail EXCEPT ![r.who] =
          [open |-> TRUE, shown |-> t, buttons |-> IF r.answer[t] = "NEW" THEN t ELSE NoOne]]
     /\ seen' = [seen EXCEPT ![r.who] = @ \cup {u \in {t} : r.answer[u] = "NEW"}]
  /\ flight' = flight \ {r}
  /\ UNCHANGED <<status, list, batch, sent, selection, raced, settled, contested>>

SucceedNoDraw(r) ==   \* mutant: the callback only hides the dialog
  /\ Ready(r, "decide") /\ r.ok
  /\ batch' = [batch EXCEPT ![r.who].open = @ /\ r.what.dialog # "batch"]
  /\ detail' = [detail EXCEPT ![r.who].open = @ /\ r.what.dialog # "detail"]
  /\ settled' = [settled EXCEPT ![r.who] = @ \cup {t \in r.ids : r.answer[t] # "NEW"}]
  /\ flight' = flight \ {r}
  /\ UNCHANGED <<status, list, sent, seen, selection, raced, contested>>

(* The callback of a decision hides its dialog and draws the list again. *)
Succeed(r) ==
  /\ Ready(r, "decide") /\ r.ok
  /\ sent < MaxRequests
  /\ batch' = [batch EXCEPT ![r.who].open = @ /\ r.what.dialog # "batch"]
  /\ detail' = [detail EXCEPT ![r.who].open = @ /\ r.what.dialog # "detail"]
  /\ settled' = [settled EXCEPT ![r.who] = @ \cup {t \in r.ids : r.answer[t] # "NEW"}]
  /\ flight' = (flight \ {r}) \cup {Request("list", r.who, Payments, NoVerdict)}
  /\ sent' = sent + 1
  /\ raced' = IF Loading(r.who) THEN raced \cup {r.who} ELSE raced
  /\ UNCHANGED <<status, list, seen, selection, contested>>

(* An error or no answer, as when the server dies on the way: a message at *)
(* most; nothing on the page changes.                                      *)
GiveUp(r) ==
  /\ r \in flight
  /\ flight' = flight \ {r}
  /\ raced' = raced \cup {r.who}
  /\ UNCHANGED <<status, list, batch, detail, sent, seen, selection, settled, contested>>

Manager(m) ==
  \/ Search(m)
  \/ \E S \in SUBSET Payments : GoToBatchApprove(m, S)
  \/ \E t \in Payments : GotoDetail(m, t)
  \/ \E v \in Verdicts : BatchDecide(m, v) \/ SingleDecide(m, v)
  \/ CloseDialogs(m)

Server(r) == Query(r) \/ ReadRows(r) \/ Decide(r) \/ Respond(r)

Browser(r) == DrawList(r) \/ ShowBatch(r) \/ ShowDetail(r) \/ Succeed(r) \/ GiveUp(r)

Next == (\E m \in Managers : Manager(m)) \/ (\E r \in flight : Server(r) \/ Browser(r))

Spec == Init /\ [][Next]_vars

----------------------------------------------------------------------------
(* Every payment is decided at most once, from lists of any age, unless    *)
(* two decisions worked on it at once.                                     *)
Queue == INSTANCE ReviewQueue WITH
  pending <- {t \in Payments : status[t] = "NEW"},
  approved <- {t \in Payments : status[t] = "CONFIRMED"},
  rejected <- {t \in Payments : status[t] = "CLOSE"},
  contested <- contested

DecidedOnce == Queue!Spec
DecidesOnce == [Queue!Next]_<<status, contested>>

(* A decision is about payments its manager was shown as pending, and the  *)
(* buttons of the detail dialog are those of the payment it shows.         *)
DecidesWhatWasPending ==
  /\ \A r \in flight : r.kind = "decide" => r.ids \subseteq seen[r.who]
  /\ \A m \in Managers : detail[m].buttons \in {detail[m].shown, NoOne}

(* Once its rows have come, the batch dialog holds the selection that was  *)
(* taken to it and nothing of an earlier one.                              *)
BatchShowsSelection ==
  \A m \in Managers \ raced :
    (\A r \in flight : r.who = m => r.kind # "rows") => batch[m].rows = selection[m]

(* After the answers have come, the list of a manager shows no payment as  *)
(* pending that the manager has decided.                                   *)
OwnDecisionsShown ==
  \A m \in Managers \ raced : ~Loading(m) => settled[m] \cap Pending(list[m]) = {}
-----------------------------------------------------------------------------
(* What the proofs rest on.  A request and its answer are about payments;  *)
(* the list asks for all of them, the detail dialog for one, a decision    *)
(* carries a verdict.                                                      *)
What == [verdict : Verdicts, dialog : {"batch", "detail"}]
Answers == UNION {[S -> Status] : S \in SUBSET Payments}
Requests == [id : Nat, kind : Kinds, who : Managers, ids : SUBSET Payments,
             what : What \cup {NoVerdict}, read : BOOLEAN, work : SUBSET Payments,
             left : SUBSET Payments, counted : SUBSET Payments, served : BOOLEAN, answer : Answers, ok : BOOLEAN]

WellMade(r) ==
  /\ r \in Requests
  /\ r.answer \in [r.ids -> Status]
  /\ r.kind = "list" => r.ids = Payments
  /\ r.kind = "detail" => \E t \in Payments : r.ids = {t}
  /\ r.kind = "decide" => r.what \in What
  /\ r.read => r.kind = "decide"

FlightInv == \A r \in flight : WellMade(r)
Sound == TypeOK /\ FlightInv

(* What a decision has left to decide is still pending, or contested. *)
WorkInv ==
  \A r \in flight :
    /\ \A t \in r.left : status[t] = "NEW" \/ t \in contested
    /\ \A q \in flight \ {r} : r.left \cap q.left \subseteq contested

(* What a manager can decide on was shown as pending: the ticked rows, the *)
(* rows of the batch dialog, the payment behind the buttons.               *)
SeenInv ==
  /\ \A m \in Managers :
       /\ Pending(list[m]) \subseteq seen[m]
       /\ batch[m].rows \subseteq seen[m]
       /\ detail[m].buttons # NoOne => detail[m].buttons \in seen[m]
       /\ detail[m].buttons \in {detail[m].shown, NoOne}
  /\ \A r \in flight : r.kind \in {"rows", "decide"} => r.ids \subseteq seen[r.who]

(* Of a manager who never asked twice and lost no answer: the rows on      *)
(* their way to the batch dialog are the last selection, and they come     *)
(* once.                                                                   *)
Asks(m, kind) == {r \in flight : r.who = m /\ r.kind = kind}

RowsInv ==
  \A m \in Managers \ raced :
    /\ \A r, q \in Asks(m, "rows") : r = q
    /\ \A r \in Asks(m, "rows") : r.ids = selection[m]
    /\ Asks(m, "rows") = {} => batch[m].rows = selection[m]

(* What is decided stays decided, so a list that was read after the        *)
(* decision of its manager does not show the payment as pending.           *)
FreshInv ==
  /\ \A m \in Managers : \A t \in settled[m] : status[t] # "NEW"
  /\ \A r \in flight : r.kind = "decide" /\ r.served => \A t \in r.ids : r.answer[t] # "NEW" => status[t] # "NEW"
  /\ \A m \in Managers \ raced :
       /\ \A r, q \in Asks(m, "list") : r = q
       /\ \A r \in Asks(m, "list") : r.served => settled[m] \cap Pending(r.answer) = {}
       /\ Asks(m, "list") = {} => settled[m] \cap Pending(list[m]) = {}

IInv == Sound /\ WorkInv /\ SeenInv /\ RowsInv /\ FreshInv
=============================================================================
