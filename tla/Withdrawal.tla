---------------------------- MODULE Withdrawal ----------------------------
(***************************************************************************)
(* The life of a withdrawal row that back-office managers decide:          *)
(* MoneyTransactionBO.createWithdrawal, boApproveWithdrawal and            *)
(* disapproveWithdrawal, against the seamless wallet.                      *)
(*                                                                         *)
(* The money leaves the wallet while the inserted row is still             *)
(* uncommitted.  A decision reads the rows on one connection and later     *)
(* overwrites them by id, whatever they hold by then; a refund carries no  *)
(* reference, so the wallet cannot recognise a second one.                 *)
(* Withdrawals through a payment gateway are in GatewayWithdrawal.         *)
(***************************************************************************)
EXTENDS Integers, FiniteSets

CONSTANTS
  Withdrawals,    (* ids of rows                                           *)
  Accounts, Workers,
  OwnerOf,        (* the account of a withdrawal                           *)
  Amount,         (* its amount                                            *)
  Funds,          (* the balance an account starts with                    *)
  Suspended,      (* accounts whose status is SUSPEND                      *)
  MaxRefunds,     (* bound: refunds of one withdrawal                      *)
  NoOne           (* null                                                  *)

ASSUME WithdrawalAssumption ==
  /\ OwnerOf \in [Withdrawals -> Accounts]
  /\ Amount \in [Withdrawals -> Int]
  /\ Funds \in Nat
  /\ Suspended \subseteq Accounts
  /\ MaxRefunds \in Nat
  /\ NoOne \notin Workers

VARIABLES
  (* committed database state *)
  status,      (* row status; "none" before the insert commits             *)
  stamped,     (* accounts with first_withdrawal_time set                  *)
  rowLock,     (* the open transaction that has updated the row            *)
  (* the wallet service *)
  balance,
  debited,     (* withdrawals the wallet has taken the money for           *)
  refunds,     (* how often it has been given back                         *)
  (* request threads *)
  pc,
  todo,        (* rows the request still has to handle                     *)
  done,        (* rows its open transaction writes                         *)
  account,     (* the account it has read and not yet updated              *)
  isFirst,     (* requests whose account had no withdrawal time when read  *)
  updated,     (* accounts its open transaction has updated                *)
  firsts,      (* and those of them that get a first_withdrawal_time       *)
  (* history *)
  incident,    (* withdrawals decided by two requests at once, or with a
                  wallet call whose transaction failed                     *)
  stale,       (* requests whose balance was lowered after they checked it *)
  overdrawn,   (* accounts debited by such a request                       *)
  restamped,   (* accounts whose first_withdrawal_time was overwritten     *)
  crowded      (* accounts that two approvals stamped at once              *)

walletVars == <<balance, debited, refunds>>
timeVars == <<stamped, restamped, crowded>>
dbVars == <<status, timeVars>>
stampVars == <<account, isFirst, updated, firsts>>
histVars == <<incident, stale, overdrawn>>
vars == <<dbVars, rowLock, walletVars, pc, todo, done, stampVars, histVars>>

Status == {"none", "NEW", "CONFIRMED", "CLOSE"}
Creating == {"check", "debit", "commitCreate"}
Stamping == {"readAccount", "updateAccount"}
Approving == {"approveRows"} \cup Stamping
Disapproving == {"refund", "commitClose"}

TypeOK ==
  /\ status \in [Withdrawals -> Status]
  /\ stamped \subseteq Accounts
  /\ rowLock \in [Withdrawals -> Workers \cup {NoOne}]
  /\ balance \in [Accounts -> Int]
  /\ debited \subseteq Withdrawals
  /\ refunds \in [Withdrawals -> 0..MaxRefunds]
  /\ pc \in [Workers -> {"idle"} \cup Creating \cup Approving \cup Disapproving]
  /\ todo \in [Workers -> SUBSET Withdrawals]
  /\ done \in [Workers -> SUBSET Withdrawals]
  /\ account \in [Workers -> Accounts \cup {NoOne}]
  /\ \A w \in Workers : pc[w] = "updateAccount" => account[w] \in Accounts
  /\ isFirst \subseteq Workers
  /\ updated \in [Workers -> SUBSET Accounts]
  /\ firsts \in [Workers -> SUBSET Accounts]
  /\ incident \subseteq Withdrawals
  /\ stale \subseteq Workers
  /\ overdrawn \subseteq Accounts
  /\ restamped \subseteq Accounts
  /\ crowded \subseteq Accounts

Init ==
  /\ status = [t \in Withdrawals |-> "none"]
  /\ stamped = {}
  /\ rowLock = [t \in Withdrawals |-> NoOne]
  /\ balance = [a \in Accounts |-> Funds]
  /\ debited = {}
  /\ refunds = [t \in Withdrawals |-> 0]
  /\ pc = [w \in Workers |-> "idle"]
  /\ todo = [w \in Workers |-> {}]
  /\ done = [w \in Workers |-> {}]
  /\ account = [w \in Workers |-> NoOne]
  /\ isFirst = {}
  /\ updated = [w \in Workers |-> {}]
  /\ firsts = [w \in Workers |-> {}]
  /\ incident = {}
  /\ stale = {}
  /\ overdrawn = {}
  /\ restamped = {}
  /\ crowded = {}

-----------------------------------------------------------------------------
Involved(w) == todo[w] \cup done[w]

Goto(w, at) == pc' = [pc EXCEPT ![w] = at]

(* The request ends; commit and rollback release the row locks. *)
End(w) ==
  /\ Goto(w, "idle")
  /\ todo' = [todo EXCEPT ![w] = {}]
  /\ done' = [done EXCEPT ![w] = {}]
  /\ account' = [account EXCEPT ![w] = NoOne]
  /\ isFirst' = isFirst \ {w}
  /\ updated' = [updated EXCEPT ![w] = {}]
  /\ firsts' = [firsts EXCEPT ![w] = {}]
  /\ rowLock' = [t \in Withdrawals |-> IF rowLock[t] = w THEN NoOne ELSE rowLock[t]]

(* The requests past their check whose balance this step lowers. *)
Overtaken ==
  {x \in Workers : pc[x] = "debit"
                     /\ \E t \in todo[x] : balance'[OwnerOf[t]] < balance[OwnerOf[t]]}

-----------------------------------------------------------------------------
(* createWithdrawal *)

(* The row is inserted, under a fresh id, in a transaction that stays open. *)
CreateWithdrawal(w, t) ==
  /\ pc[w] = "idle"
  /\ status[t] = "none"
  /\ t \notin debited
  /\ \A x \in Workers : t \notin todo[x]
  /\ Goto(w, "check")
  /\ todo' = [todo EXCEPT ![w] = {t}]
  /\ UNCHANGED <<dbVars, rowLock, walletVars, done, stampVars, histVars>>

(* getBalance: "Withdrawal failed" rolls back when the balance is too small. *)
CheckBalanceSkipped(w) ==   \* mutant: the balance is not compared
  /\ pc[w] = "check"
  /\ Goto(w, "debit")
  /\ UNCHANGED <<dbVars, rowLock, walletVars, todo, done, stampVars, histVars>>

CheckBalance(w) ==
  /\ pc[w] = "check"
  /\ \E t \in todo[w] :
       IF balance[OwnerOf[t]] < Amount[t]
       THEN End(w)
       ELSE Goto(w, "debit") /\ UNCHANGED <<rowLock, todo, done, stampVars>>
  /\ UNCHANGED <<dbVars, walletVars, histVars>>

(* The wallet takes the money for t on behalf of w. *)
Take(w, t) ==
  /\ balance' = [balance EXCEPT ![OwnerOf[t]] = @ - Amount[t]]
  /\ debited' = debited \cup {t}
  /\ overdrawn' = overdrawn \cup (IF w \in stale THEN {OwnerOf[t]} ELSE {})
  /\ stale' = (stale \cup Overtaken) \ {w}
  /\ UNCHANGED refunds

(* withdrawFromWallet answers 200. *)
Debit(w) ==
  /\ pc[w] = "debit"
  /\ \E t \in todo[w] : Take(w, t)
  /\ Goto(w, "commitCreate")
  /\ UNCHANGED <<dbVars, rowLock, todo, done, stampVars, incident>>

(* Another answer, or an exception after which the money may be gone. *)
DebitFails(w) ==
  /\ pc[w] = "debit"
  /\ \/ /\ stale' = stale \ {w}
        /\ UNCHANGED <<walletVars, incident, overdrawn>>
     \/ \E t \in todo[w] : Take(w, t) /\ incident' = incident \cup {t}
  /\ End(w)
  /\ UNCHANGED dbVars

CommitCreateProcessing(w) ==   \* mutant: the row is inserted with another status
  /\ pc[w] = "commitCreate"
  /\ status' = [t \in Withdrawals |-> IF t \in todo[w] THEN "PROCESSING" ELSE status[t]]
  /\ End(w)
  /\ UNCHANGED <<timeVars, walletVars, histVars>>

CommitCreate(w) ==
  /\ pc[w] = "commitCreate"
  /\ status' = [t \in Withdrawals |-> IF t \in todo[w] THEN "NEW" ELSE status[t]]
  /\ End(w)
  /\ UNCHANGED <<timeVars, walletVars, histVars>>

-----------------------------------------------------------------------------
(* boApproveWithdrawal and disapproveWithdrawal *)

PendingUnchecked(ids) == {t \in ids : status[t] # "none"}   \* mutant: no status filter

Pending(ids) == {t \in ids : status[t] = "NEW"}

(* The rows of a decision are read on a connection of their own. *)
Begin(w, ids, at) ==
  /\ pc[w] = "idle"
  /\ Pending(ids) # {}
  /\ Goto(w, at)
  /\ todo' = [todo EXCEPT ![w] = Pending(ids)]
  /\ incident' = incident \cup
       {t \in Pending(ids) : \E x \in Workers \ {w} : t \in Involved(x)}
  /\ UNCHANGED <<dbVars, rowLock, walletVars, done, stampVars, stale, overdrawn>>

BoApproveWithdrawal(w, ids) == Begin(w, ids, "approveRows")
DisapproveWithdrawal(w, ids) == Begin(w, ids, "refund")

(* approveRejectWithdrawalBO: one UPDATE by id, without a look at the status. *)
UpdateRows(w, rows, at) ==
  /\ \A t \in rows : rowLock[t] = NoOne
  /\ rowLock' = [t \in Withdrawals |-> IF t \in rows THEN w ELSE rowLock[t]]
  /\ done' = [done EXCEPT ![w] = rows]
  /\ Goto(w, at)
  /\ UNCHANGED <<status, stamped, restamped, walletVars, stampVars, histVars>>

AccountsOf(rows) == {OwnerOf[t] : t \in rows}

(* The accounts of these rows that another approval stamps at the same time. *)
SharedAccounts(w) ==
  AccountsOf(todo[w]) \cap
    UNION {AccountsOf(done[x]) : x \in {y \in Workers \ {w} : pc[y] \in Stamping}}

ApproveRows(w) ==
  /\ pc[w] = "approveRows"
  /\ UpdateRows(w, todo[w], "readAccount")
  /\ crowded' = crowded \cup SharedAccounts(w)
  /\ UNCHANGED todo

(* confirmWithdrawalInTransaction, row by row: the account is read without a
   lock; the transaction sees what it has written itself. *)
ReadAccountOnce(w) ==   \* mutant: the withdrawal time of the account is not read
  /\ pc[w] = "readAccount"
  /\ \E t \in todo[w] :
       /\ todo' = [todo EXCEPT ![w] = @ \ {t}]
       /\ account' = [account EXCEPT ![w] = OwnerOf[t]]
       /\ isFirst' = isFirst \cup {w}
  /\ Goto(w, "updateAccount")
  /\ UNCHANGED <<dbVars, rowLock, walletVars, done, updated, firsts, histVars>>

ReadAccount(w) ==
  /\ pc[w] = "readAccount"
  /\ \E t \in todo[w] :
       /\ todo' = [todo EXCEPT ![w] = @ \ {t}]
       /\ account' = [account EXCEPT ![w] = OwnerOf[t]]
       /\ isFirst' = IF OwnerOf[t] \in stamped \cup firsts[w]
                     THEN isFirst \ {w} ELSE isFirst \cup {w}
  /\ Goto(w, "updateAccount")
  /\ UNCHANGED <<dbVars, rowLock, walletVars, done, updated, firsts, histVars>>

(* updateForApproveWithdrawal waits for the row of the account. *)
UpdateAccountErrorCaught(w) ==   \* mutant: a row whose account fails is left out
  /\ pc[w] = "updateAccount"
  /\ \A x \in Workers \ {w} : account[w] \notin updated[x]
  /\ \/ /\ updated' = [updated EXCEPT ![w] = @ \cup {account[w]}]
        /\ firsts' = [firsts EXCEPT ![w] = IF w \in isFirst THEN @ \cup {account[w]} ELSE @]
     \/ UNCHANGED <<updated, firsts>>
  /\ account' = [account EXCEPT ![w] = NoOne]
  /\ Goto(w, "readAccount")
  /\ UNCHANGED <<dbVars, rowLock, walletVars, todo, done, isFirst, histVars>>

UpdateAccount(w) ==
  /\ pc[w] = "updateAccount"
  /\ \A x \in Workers \ {w} : account[w] \notin updated[x]
  /\ updated' = [updated EXCEPT ![w] = @ \cup {account[w]}]
  /\ firsts' = [firsts EXCEPT ![w] = IF w \in isFirst THEN @ \cup {account[w]} ELSE @]
  /\ account' = [account EXCEPT ![w] = NoOne]
  /\ Goto(w, "readAccount")
  /\ UNCHANGED <<dbVars, rowLock, walletVars, todo, done, isFirst, histVars>>

(* The rows and the times of their accounts become visible together. *)
CommitApprove(w) ==
  /\ pc[w] = "readAccount"
  /\ todo[w] = {}
  /\ status' = [t \in Withdrawals |-> IF t \in done[w] THEN "CONFIRMED" ELSE status[t]]
  /\ stamped' = stamped \cup firsts[w]
  /\ restamped' = restamped \cup (stamped \cap firsts[w])
  /\ End(w)
  /\ UNCHANGED <<crowded, walletVars, histVars>>

GiveBack(t) ==
  /\ refunds[t] < MaxRefunds
  /\ refunds' = [refunds EXCEPT ![t] = @ + 1]
  /\ balance' = [balance EXCEPT ![OwnerOf[t]] = @ + Amount[t]]
  /\ stale' = stale \cup Overtaken
  /\ UNCHANGED debited

(* refundAndGetNewBalance for the next row; a row whose refund throws is left
   out, although the wallet may have given the money back. *)
RefundErrorsCounted(w) ==   \* mutant: a failed refund is closed as well
  /\ pc[w] = "refund"
  /\ \E t \in todo[w] :
       /\ todo' = [todo EXCEPT ![w] = @ \ {t}]
       /\ done' = [done EXCEPT ![w] = @ \cup {t}]
       /\ \/ GiveBack(t) /\ UNCHANGED incident
          \/ UNCHANGED <<walletVars, incident, stale>>
  /\ UNCHANGED <<dbVars, rowLock, pc, stampVars, overdrawn>>

Refund(w) ==
  /\ pc[w] = "refund"
  /\ \E t \in todo[w] :
       /\ todo' = [todo EXCEPT ![w] = @ \ {t}]
       /\ \/ /\ GiveBack(t)
             /\ done' = [done EXCEPT ![w] = @ \cup {t}]
             /\ UNCHANGED incident
          \/ /\ GiveBack(t)
             /\ incident' = incident \cup {t}
             /\ UNCHANGED done
          \/ UNCHANGED <<walletVars, done, incident, stale>>
  /\ UNCHANGED <<dbVars, rowLock, pc, stampVars, overdrawn>>

CloseRows(w) ==
  /\ pc[w] = "refund"
  /\ todo[w] = {}
  /\ done[w] # {}
  /\ UpdateRows(w, done[w], "commitClose")
  /\ UNCHANGED <<todo, crowded>>

(* No refund succeeded: the empty transaction is committed. *)
NothingRefunded(w) ==
  /\ pc[w] = "refund"
  /\ todo[w] = {} /\ done[w] = {}
  /\ End(w)
  /\ UNCHANGED <<dbVars, walletVars, histVars>>

CommitClose(w) ==
  /\ pc[w] = "commitClose"
  /\ status' = [t \in Withdrawals |-> IF t \in done[w] THEN "CLOSE" ELSE status[t]]
  /\ End(w)
  /\ UNCHANGED <<timeVars, walletVars, histVars>>

-----------------------------------------------------------------------------
(* Failures and the rest of the world *)

(* A statement or the commit throws, or the server dies: the transaction is
   rolled back, what the wallet has done stays. *)
FailKeepsTimes(w) ==   \* mutant: the times are committed one by one
  /\ pc[w] # "idle"
  /\ stamped' = stamped \cup firsts[w]
  /\ End(w)
  /\ incident' = incident \cup
       (IF pc[w] = "commitCreate" THEN todo[w]
        ELSE IF pc[w] \in Disapproving THEN done[w] ELSE {})
  /\ stale' = stale \ {w}
  /\ UNCHANGED <<status, restamped, crowded, walletVars, overdrawn>>

Fail(w) ==
  /\ pc[w] # "idle"
  /\ End(w)
  /\ incident' = incident \cup
       (IF pc[w] = "commitCreate" THEN todo[w]
        ELSE IF pc[w] \in Disapproving THEN done[w] ELSE {})
  /\ stale' = stale \ {w}
  /\ UNCHANGED <<dbVars, walletVars, overdrawn>>

(* The player bets; the wallet accepts no bet beyond the balance. *)
Spend(a) ==
  /\ balance[a] > 0
  /\ balance' = [balance EXCEPT ![a] = @ - 1]
  /\ stale' = stale \cup Overtaken
  /\ UNCHANGED <<dbVars, rowLock, debited, refunds, pc, todo, done, stampVars, incident, overdrawn>>

(* A deposit or a win comes in (bound: up to the starting balance). *)
Earn(a) ==
  /\ balance[a] < Funds
  /\ balance' = [balance EXCEPT ![a] = @ + 1]
  /\ UNCHANGED <<dbVars, rowLock, debited, refunds, pc, todo, done, stampVars, histVars>>

Create(w) ==
  \/ \E t \in Withdrawals : CreateWithdrawal(w, t)
  \/ CheckBalance(w) \/ Debit(w) \/ DebitFails(w) \/ CommitCreate(w)

Decide(w) ==
  \/ \E ids \in SUBSET Withdrawals : BoApproveWithdrawal(w, ids) \/ DisapproveWithdrawal(w, ids)
  \/ ApproveRows(w) \/ ReadAccount(w) \/ UpdateAccount(w) \/ CommitApprove(w)
  \/ Refund(w) \/ CloseRows(w) \/ NothingRefunded(w) \/ CommitClose(w)

Next ==
  \/ \E w \in Workers : Create(w) \/ Decide(w) \/ Fail(w)
  \/ \E a \in Accounts : Spend(a) \/ Earn(a)

Spec == Init /\ [][Next]_vars

-----------------------------------------------------------------------------
(* Properties *)

(* A row others can see has been paid for by the wallet, and a closed row has
   been refunded, whatever raced or failed: createWithdrawal commits after the
   debit, disapproveWithdrawal closes only its successful refunds. *)
RowNeedsMoney ==
  \A t \in Withdrawals :
    /\ status[t] # "none" => t \in debited
    /\ status[t] = "CLOSE" => refunds[t] > 0

Idle(t) == \A w \in Workers : t \notin Involved(w)

(* With no request on it, a withdrawal that no two requests decided at once and
   whose wallet calls were all followed by their commit is debited exactly when
   its row exists, and refunded exactly once when closed, else never. *)
MoneyFollowsRow ==
  \A t \in Withdrawals \ incident :
    Idle(t) =>
      /\ t \in debited <=> status[t] # "none"
      /\ refunds[t] = IF status[t] = "CLOSE" THEN 1 ELSE 0

(* "The balance must not become negative": it does so only by a debit whose
   balance check was overtaken, or when a withdrawal of a negative amount, which
   createWithdrawal accepts, is rejected and "given back". *)
OverdraftNeedsRace ==
  \A a \in Accounts : balance[a] < 0 =>
    \/ a \in overdrawn
    \/ \E t \in Withdrawals : OwnerOf[t] = a /\ Amount[t] < 0 /\ refunds[t] > 0

(* boApproveWithdrawal writes the rows of a batch and, one by one, the
   withdrawal times of their accounts in one transaction.  Wherever it fails, a
   confirmed row is never seen without the time of its account, and no time
   without a row that was confirmed (one that a second request decided at the
   same time may be closed by now); and the first time of an account is
   overwritten only when two approvals stamped the account at once, as the time
   is read without a lock. *)
TimesFollowApprovals ==
  /\ \A t \in Withdrawals : status[t] = "CONFIRMED" => OwnerOf[t] \in stamped
  /\ \A a \in stamped : \E t \in Withdrawals :
       OwnerOf[t] = a /\ (status[t] = "CONFIRMED" \/ t \in incident)
  /\ restamped \subseteq crowded

(* A decision nobody is working on any more is final: no later request pays,
   refunds or rewrites the withdrawal. *)
Decided(t) == status[t] \in {"CONFIRMED", "CLOSE"} /\ Idle(t)

DecidedIsFinal ==
  [][\A t \in Withdrawals :
       Decided(t) => /\ Decided(t)'
                     /\ status'[t] = status[t] /\ refunds'[t] = refunds[t]]_vars

(* createWithdrawal's comment: "account為suspend擋", a suspended account is
   stopped. *)
SuspendedIsStopped ==
  \A t \in Withdrawals : OwnerOf[t] \in Suspended => status[t] = "none"

(* createWithdrawal's comment: only positive amounts are accepted. *)
OnlyPositiveAmounts ==
  \A t \in Withdrawals : status[t] # "none" => Amount[t] > 0
=============================================================================
