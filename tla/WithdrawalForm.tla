--------------------------- MODULE WithdrawalForm ---------------------------
(***************************************************************************)
(* The dialog in which a manager withdraws for a member.  A choice of the  *)
(* member asks for the cards and for the balance, two requests that come   *)
(* back in any order; the box "Withdrawal amount" takes the whole balance  *)
(* and locks the amount, and a locked amount is not validated.             *)
(***************************************************************************)
EXTENDS Integers, Sequences

CONSTANTS
  Members,
  HasCard,      \* the members with a stored card
  InitBalance,  \* the balances members start with
  Typed,        \* the amounts a manager types
  MaxRequests   \* bound: the requests of a behaviour

WithdrawalFormAssumption ==
  /\ HasCard \subseteq Members /\ InitBalance \subseteq Nat /\ Typed \subseteq Int /\ MaxRequests \in Nat

VARIABLES
  dialog,     \* createWithdrawalModal is shown
  chosen,     \* emailSelect2
  shown,      \* generalDiv is shown
  card,       \* the owner of the cards in bankAccountNumberId
  available,  \* PageConfig.availableBalance
  box,        \* withdrawalAmountCheckbox: "absent", "off", "on" or "dead"
  amount, locked,  \* amountTest and its disabled property
  flight,     \* requests on their way
  sent,
  wallet,     \* [Members -> Int]
  rows,       \* the withdrawals created
  \* history
  balanceOf,  \* whose balance available is
  raced,      \* two requests of one kind were open at once, or one failed
  overtaken   \* members whose wallet fell between a check and its debit

pageVars == <<dialog, chosen, shown, card, available, box, amount, locked, balanceOf>>
vars == <<pageVars, flight, sent, wallet, rows, raced, overtaken>>

NoOne == "none"
Empty == 0   \* no amount and the amount 0 are both refused
Kinds == {"cards", "balance", "create"}
Stages == {"sent", "read", "done"}   \* of a request on the server

(* The state is well formed, and a box that is ticked locks the amount. *)
TypeOK ==
  /\ dialog \in BOOLEAN /\ shown \in BOOLEAN /\ locked \in BOOLEAN /\ raced \in BOOLEAN
  /\ chosen \in Members \cup {NoOne} /\ card \in HasCard \cup {NoOne} /\ balanceOf \in Members \cup {NoOne}
  /\ box \in {"absent", "off", "on", "dead"} /\ (box = "on" => locked)
  /\ available \in Int /\ amount \in Int
  /\ sent \in 0..MaxRequests
  /\ \A r \in flight : r.kind \in Kinds /\ r.of \in Members /\ r.stage \in Stages
  /\ wallet \in [Members -> Int] /\ overtaken \subseteq Members

Init ==
  /\ dialog = FALSE /\ chosen = NoOne /\ shown = TRUE /\ card = NoOne
  /\ available = 0 /\ box = "absent" /\ amount = Empty /\ locked = FALSE
  /\ flight = {} /\ sent = 0
  /\ wallet \in [Members -> InitBalance]
  /\ rows = << >>
  /\ balanceOf = NoOne /\ raced = FALSE /\ overtaken = {}

----------------------------------------------------------------------------
(* gotoCreateWithdrawal: the amount is emptied, its lock stays. *)
OpenDialog ==
  /\ ~dialog /\ dialog' = TRUE
  /\ chosen' = NoOne /\ shown' = FALSE
  /\ box' = "absent" /\ amount' = Empty
  /\ UNCHANGED <<card, available, locked, balanceOf, flight, sent, wallet, rows, raced, overtaken>>

CloseDialog ==
  /\ dialog /\ dialog' = FALSE
  /\ UNCHANGED <<chosen, shown, card, available, box, amount, locked, balanceOf, flight, sent, wallet, rows, raced, overtaken>>

(* resetCreateWithdrawal. *)
Reset ==
  /\ dialog
  /\ chosen' = NoOne /\ shown' = FALSE
  /\ box' = "absent" /\ amount' = Empty /\ locked' = FALSE
  /\ UNCHANGED <<dialog, card, available, balanceOf, flight, sent, wallet, rows, raced, overtaken>>

Ask(kind, a, n) ==
  [id |-> n, kind |-> kind, of |-> a, stage |-> "sent", balance |-> 0, card |-> NoOne, amount |-> 0]

Open(kind) == \E r \in flight : r.kind = kind

(* getWithdrawalInfoForCreate: nothing of the member before is taken away. *)
Choose(a) ==
  /\ dialog /\ chosen # a /\ sent + 2 <= MaxRequests
  /\ chosen' = a /\ shown' = TRUE
  /\ sent' = sent + 2
  /\ flight' = flight \cup {Ask("cards", a, sent + 1), Ask("balance", a, sent + 2)}
  /\ raced' = (raced \/ Open("cards") \/ Open("balance"))
  /\ UNCHANGED <<dialog, card, available, box, amount, locked, balanceOf, wallet, rows, overtaken>>

(* getAvailableBalance on the server. *)
ReadBalance(r) ==
  /\ r \in flight /\ r.kind = "balance" /\ r.stage = "sent"
  /\ flight' = (flight \ {r}) \cup {[r EXCEPT !.stage = "read", !.balance = wallet[r.of]]}
  /\ UNCHANGED <<pageVars, sent, wallet, rows, raced, overtaken>>

(* The balance comes: the box is built again, and dead for 0. *)
ShowBalance(r) ==
  /\ r \in flight /\ r.kind = "balance" /\ r.stage = "read"
  /\ available' = r.balance /\ balanceOf' = r.of
  /\ box' = IF r.balance = 0 THEN "dead" ELSE "off"
  /\ flight' = flight \ {r}
  /\ UNCHANGED <<dialog, chosen, shown, card, amount, locked, sent, wallet, rows, raced, overtaken>>

(* populateWithdrawalMethod: the first card is selected. *)
ShowCards(r) ==
  /\ r \in flight /\ r.kind = "cards"
  /\ card' = IF r.of \in HasCard THEN r.of ELSE NoOne
  /\ flight' = flight \ {r}
  /\ UNCHANGED <<dialog, chosen, shown, available, box, amount, locked, balanceOf, sent, wallet, rows, raced, overtaken>>

(* An error or no answer to one of the questions. *)
Fails(r) ==
  /\ r \in flight /\ r.kind # "create"
  /\ flight' = flight \ {r} /\ raced' = TRUE
  /\ UNCHANGED <<pageVars, sent, wallet, rows, overtaken>>

(* handleCheckboxChange. *)
Tick ==
  /\ dialog /\ shown /\ box = "off"
  /\ box' = "on" /\ amount' = available /\ locked' = TRUE
  /\ UNCHANGED <<dialog, chosen, shown, card, available, balanceOf, flight, sent, wallet, rows, raced, overtaken>>

Untick ==
  /\ dialog /\ shown /\ box = "on"
  /\ box' = "off" /\ amount' = Empty /\ locked' = FALSE
  /\ UNCHANGED <<dialog, chosen, shown, card, available, balanceOf, flight, sent, wallet, rows, raced, overtaken>>

(* validateMaxAmount on change. *)
Clamp(x, max) == IF x > max THEN max ELSE IF x < 0 THEN 0 ELSE x

TypeAmount(x) ==
  /\ dialog /\ shown /\ ~locked
  /\ amount' = Clamp(x, available)
  /\ UNCHANGED <<dialog, chosen, shown, card, available, box, locked, balanceOf, flight, sent, wallet, rows, raced, overtaken>>

CreateOldRule ==   \* mutant: the amount is not validated again with the present balance
  /\ dialog /\ chosen # NoOne /\ card # NoOne /\ amount # Empty /\ sent < MaxRequests
  /\ sent' = sent + 1
  /\ flight' = flight \cup {[Ask("create", chosen, sent + 1) EXCEPT !.card = card, !.amount = amount]}
  /\ UNCHANGED <<pageVars, wallet, rows, raced, overtaken>>

(* create: a locked amount is appended to the form without validation. *)
Create ==
  /\ dialog /\ chosen # NoOne /\ card # NoOne /\ amount # Empty /\ sent < MaxRequests
  /\ locked \/ (0 < amount /\ amount <= available)
  /\ sent' = sent + 1
  /\ flight' = flight \cup {[Ask("create", chosen, sent + 1) EXCEPT !.card = card, !.amount = amount]}
  /\ UNCHANGED <<pageVars, wallet, rows, raced, overtaken>>

----------------------------------------------------------------------------

(* The checks of createWithdrawal: the card is the member's, the wallet    *)
(* has the amount.                                                         *)
Acceptable(r) == r.card = r.of /\ r.amount <= wallet[r.of]

(* The withdrawals of a that were checked and not yet taken from its       *)
(* wallet.                                                                 *)
Checked(a) == {r \in flight : r.kind = "create" /\ r.stage = "read" /\ r.of = a}

(* The wallet of a falls while another withdrawal than r relies on it. *)
Overtaking(a, r) == overtaken' = IF Checked(a) \ {r} = {} THEN overtaken ELSE overtaken \cup {a}

Passes(r, stage) == flight' = (flight \ {r}) \cup {[r EXCEPT !.stage = stage]}

(* The row is inserted and the balance read, with a call of its own. *)
Check(r) ==
  /\ r \in flight /\ r.kind = "create" /\ r.stage = "sent" /\ Acceptable(r)
  /\ Passes(r, "read")
  /\ UNCHANGED <<pageVars, sent, wallet, rows, raced, overtaken>>

Pay(r) ==
  /\ wallet' = [wallet EXCEPT ![r.of] = @ - r.amount]
  /\ Overtaking(r.of, r)

(* A second call takes the amount, and the row commits. *)
Debit(r) ==
  /\ r \in Checked(r.of)
  /\ Pay(r)
  /\ rows' = Append(rows, [of |-> r.of, card |-> r.card, amount |-> r.amount])
  /\ Passes(r, "done")
  /\ UNCHANGED <<pageVars, sent, raced>>

(* The call or the commit fails, before or after the amount was taken. *)
DebitFails(r) ==
  /\ r \in Checked(r.of)
  /\ Pay(r) \/ UNCHANGED <<wallet, overtaken>>
  /\ flight' = flight \ {r}
  /\ UNCHANGED <<pageVars, sent, rows, raced>>

Refuse(r) ==
  /\ r \in flight /\ r.kind = "create" /\ r.stage = "sent"
  /\ flight' = flight \ {r}
  /\ UNCHANGED <<pageVars, sent, wallet, rows, raced, overtaken>>

(* The success reaches the page: the dialog is hidden, whoever it is for. *)
Succeed(r) ==
  /\ r \in flight /\ r.kind = "create" /\ r.stage = "done"
  /\ flight' = flight \ {r}
  /\ dialog' = FALSE
  /\ UNCHANGED <<chosen, shown, card, available, box, amount, locked, balanceOf, sent, wallet, rows, raced, overtaken>>

(* The wallet falls by other means. *)
Play(a) ==
  /\ wallet[a] > 0
  /\ wallet' = [wallet EXCEPT ![a] = @ - 1]
  /\ overtaken' = IF Checked(a) = {} THEN overtaken ELSE overtaken \cup {a}
  /\ UNCHANGED <<pageVars, flight, sent, rows, raced>>

Page ==
  \/ OpenDialog \/ CloseDialog \/ Reset \/ Tick \/ Untick \/ Create
  \/ \E a \in Members : Choose(a)
  \/ \E x \in Typed : TypeAmount(x)

Net ==
  \E r \in flight :
    \/ ReadBalance(r) \/ ShowBalance(r) \/ ShowCards(r) \/ Fails(r)
    \/ Check(r) \/ Debit(r) \/ DebitFails(r) \/ Refuse(r) \/ Succeed(r)

Next == Page \/ Net \/ \E a \in Members : Play(a)

Spec == Init /\ [][Next]_vars

----------------------------------------------------------------------------
(* However the answers come, a withdrawal goes to a card of its member,    *)
(* and it overdraws the wallet only when another withdrawal or a bet came  *)
(* between its check and its debit.                                        *)
PaidToOwnCard ==
  /\ \A i \in DOMAIN rows : rows[i].card = rows[i].of
  /\ \A a \in Members \ overtaken : wallet[a] >= 0

(* When the answers to every choice came in order, the cards and the       *)
(* balance of the dialog are those of the member that is chosen.           *)
ShowsChosenMember ==
  dialog /\ ~raced /\ chosen # NoOne /\ ~Open("cards") /\ ~Open("balance") =>
    balanceOf = chosen /\ card = (IF chosen \in HasCard THEN chosen ELSE NoOne)

(* A request asks for more than the balance on the page only with an       *)
(* amount that the box locked before that balance came.                    *)
AsksWithinBalance ==
  \A r \in flight' \ flight : r.kind = "create" /\ r.stage = "sent" /\ ~locked => r.amount <= available

----------------------------------------------------------------------------
(* What the proofs rest on. *)
Requests ==
  [id : Nat, kind : Kinds, of : Members, stage : Stages, balance : Int,
   card : HasCard \cup {NoOne}, amount : Int]

(* A withdrawal that was checked has its card and its money. *)
FlightInv ==
  /\ flight \subseteq Requests
  /\ \A a \in Members : \A r \in Checked(a) : r.card = a /\ (a \notin overtaken => r.amount <= wallet[a])

RowsInv ==
  /\ rows \in Seq([of : Members, card : HasCard \cup {NoOne}, amount : Int])
  /\ PaidToOwnCard

(* While no two questions of a kind were open at once, the open ones are   *)
(* about the member that is chosen, and what was answered is its.          *)
CardOf(a) == IF a \in HasCard THEN a ELSE NoOne

ChosenInv ==
  ~raced /\ chosen # NoOne =>
    /\ \A r \in flight : r.kind # "create" => r.of = chosen
    /\ balanceOf = chosen \/ Open("balance")
    /\ card = CardOf(chosen) \/ Open("cards")

IInv == TypeOK /\ FlightInv /\ RowsInv /\ ChosenInv
=============================================================================
