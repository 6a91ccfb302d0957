------------------------- MODULE GatewayWithdrawal -------------------------
(***************************************************************************)
(* Withdrawals through a payment gateway: the gateway's callbacks settle a *)
(* row that is PROCESSING (PaymentGatewayProxy.updateWithdrawalStatus,     *)
(* MoneyTransactionBO.settledWithdrawalByPaymentGateway).  A callback may  *)
(* come any number of times and on any server; unlike a manager's decision *)
(* every UPDATE repeats the expected status in its WHERE clause.           *)
(***************************************************************************)
EXTENDS Naturals, FiniteSets

CONSTANTS
  Withdrawals, Accounts, Workers,
  OwnerOf,      (* the account of a withdrawal                       *)
  Assigned,     (* rows with an executor; the others have NULL       *)
  NoOne         (* null                                              *)

ASSUME GatewayAssumption ==
  /\ OwnerOf \in [Withdrawals -> Accounts]
  /\ Assigned \subseteq Withdrawals
  /\ NoOne \notin Withdrawals \cup Workers

(* For TLC: all withdrawals are of one player. *)
OneOwner == [t \in Withdrawals |-> CHOOSE a \in Accounts : TRUE]

VARIABLES
  (* committed database state *)
  status,
  credits,      (* times the amount was added to account.balance     *)
  executor,     (* rows whose executor is not NULL                   *)
  suspended,    (* accounts whose status is SUSPEND                  *)
  stamped,      (* accounts with last_withdrawal_time set            *)
  rowLock, acctLock,
  (* callback threads *)
  pc,
  cur,          (* the withdrawal of the callback                    *)
  sawExecutor,  (* the row had an executor when it was read          *)
  wrote,        (* the open transaction has changed the row          *)
  paid          (* and the account                                   *)

dbVars == <<status, credits, executor, suspended, stamped>>
lockVars == <<rowLock, acctLock>>
workVars == <<cur, sawExecutor, wrote, paid>>
vars == <<dbVars, lockVars, pc, workVars>>

Steps == {"ask", "settle", "reject", "credit", "commitSettle", "commitReject", "stamp"}

TypeOK ==
  /\ status \in [Withdrawals -> {"PROCESSING", "CONFIRMED", "CLOSE"}]
  /\ credits \in [Withdrawals -> Nat]
  /\ executor \subseteq Withdrawals
  /\ suspended \subseteq Accounts
  /\ stamped \subseteq Accounts
  /\ rowLock \in [Withdrawals -> Workers \cup {NoOne}]
  /\ acctLock \in [Accounts -> Workers \cup {NoOne}]
  /\ pc \in [Workers -> {"idle"} \cup Steps]
  /\ cur \in [Workers -> Withdrawals \cup {NoOne}]
  /\ sawExecutor \in [Workers -> BOOLEAN]
  /\ wrote \in [Workers -> BOOLEAN]
  /\ paid \in [Workers -> BOOLEAN]

(* Nothing in this repository moves a row to PROCESSING: the rows are those
   that were sent to a gateway before. *)
Init ==
  /\ status = [t \in Withdrawals |-> "PROCESSING"]
  /\ credits = [t \in Withdrawals |-> 0]
  /\ executor = Assigned
  /\ suspended = {}
  /\ stamped = {}
  /\ rowLock = [t \in Withdrawals |-> NoOne]
  /\ acctLock = [a \in Accounts |-> NoOne]
  /\ pc = [w \in Workers |-> "idle"]
  /\ cur = [w \in Workers |-> NoOne]
  /\ sawExecutor = [w \in Workers |-> FALSE]
  /\ wrote = [w \in Workers |-> FALSE]
  /\ paid = [w \in Workers |-> FALSE]

Goto(w, at) == pc' = [pc EXCEPT ![w] = at]

(* Commit or rollback releases the locks; the request goes on at `at`. *)
Finish(w, at) ==
  /\ rowLock' = [t \in Withdrawals |-> IF rowLock[t] = w THEN NoOne ELSE rowLock[t]]
  /\ acctLock' = [a \in Accounts |-> IF acctLock[a] = w THEN NoOne ELSE acctLock[a]]
  /\ Goto(w, at)
  /\ wrote' = [wrote EXCEPT ![w] = FALSE]
  /\ paid' = [paid EXCEPT ![w] = FALSE]
  /\ UNCHANGED <<cur, sawExecutor>>

-----------------------------------------------------------------------------
(* processSyncData: only a row that is PROCESSING is found. *)
Callback(w, t) ==
  /\ pc[w] = "idle"
  /\ status[t] = "PROCESSING"
  /\ Goto(w, "ask")
  /\ cur' = [cur EXCEPT ![w] = t]
  /\ sawExecutor' = [sawExecutor EXCEPT ![w] = t \in executor]
  /\ UNCHANGED <<dbVars, lockVars, wrote, paid>>

(* checkOrderStatus: SUCCESS, FAIL, or an answer that changes nothing. *)
CheckOrderStatus(w) ==
  /\ pc[w] = "ask"
  /\ \E at \in {"settle", "reject", "idle"} : Goto(w, at)
  /\ UNCHANGED <<dbVars, lockVars, workVars>>

(* An UPDATE that finds its row waits for the row lock; otherwise it changes
   no row. *)
Update(w, found, at, after) ==
  /\ IF found
     THEN /\ rowLock[cur[w]] = NoOne
          /\ rowLock' = [rowLock EXCEPT ![cur[w]] = w]
          /\ wrote' = [wrote EXCEPT ![w] = TRUE]
          /\ Goto(w, at)
     ELSE /\ Goto(w, after)
          /\ UNCHANGED <<rowLock, wrote>>
  /\ UNCHANGED <<dbVars, acctLock, cur, sawExecutor, paid>>

(* approveWithdrawal: "WHERE id = ? AND status = ?". *)
ApproveWithdrawalById(w) ==   \* mutant: by id only
  pc[w] = "settle" /\ Update(w, TRUE, "commitSettle", "commitSettle")

ApproveWithdrawal(w) ==
  /\ pc[w] = "settle"
  /\ Update(w, status[cur[w]] = "PROCESSING", "commitSettle", "commitSettle")

(* rejectWithdrawalByPaymentGateway: "WHERE executor = ? AND status IN (...)";
   NULL equals nothing. *)
RejectWithdrawalById(w) ==   \* mutant: by id only
  pc[w] = "reject" /\ Update(w, sawExecutor[w], "credit", "commitReject")

RejectWithdrawal(w) ==
  /\ pc[w] = "reject"
  /\ Update(w, status[cur[w]] = "PROCESSING" /\ sawExecutor[w] /\ cur[w] \in executor,
            "credit", "commitReject")

(* updateForRejectWithdrawal: the account row is locked if it is not SUSPEND,
   else the rejection is rolled back. *)
CreditUnlocked(w) ==   \* mutant: SELECT without FOR UPDATE
  /\ pc[w] = "credit"
  /\ OwnerOf[cur[w]] \notin suspended
  /\ paid' = [paid EXCEPT ![w] = TRUE]
  /\ Goto(w, "commitReject")
  /\ UNCHANGED <<dbVars, lockVars, cur, sawExecutor, wrote>>

CreditNoRollback(w) ==   \* mutant: the rejected transaction stays open
  LET a == OwnerOf[cur[w]] IN
  /\ pc[w] = "credit"
  /\ acctLock[a] = NoOne
  /\ IF a \in suspended
     THEN /\ Goto(w, "idle")
          /\ wrote' = [wrote EXCEPT ![w] = FALSE]
          /\ UNCHANGED <<lockVars, cur, sawExecutor, paid>>
     ELSE /\ acctLock' = [acctLock EXCEPT ![a] = w]
          /\ paid' = [paid EXCEPT ![w] = TRUE]
          /\ Goto(w, "commitReject")
          /\ UNCHANGED <<rowLock, cur, sawExecutor, wrote>>
  /\ UNCHANGED dbVars

CreditAccount(w) ==
  LET a == OwnerOf[cur[w]] IN
  /\ pc[w] = "credit"
  /\ acctLock[a] = NoOne
  /\ IF a \in suspended
     THEN Finish(w, "idle")
     ELSE /\ acctLock' = [acctLock EXCEPT ![a] = w]
          /\ paid' = [paid EXCEPT ![w] = TRUE]
          /\ Goto(w, "commitReject")
          /\ UNCHANGED <<rowLock, cur, sawExecutor, wrote>>
  /\ UNCHANGED dbVars

(* refreshUpdateTime waits for the row in any case; then the commit. *)
CommitSettle(w) ==
  /\ pc[w] = "commitSettle"
  /\ rowLock[cur[w]] \in {NoOne, w}
  /\ IF wrote[w]
     THEN /\ status' = [status EXCEPT ![cur[w]] = "CONFIRMED"]
          /\ executor' = executor \ {cur[w]}
     ELSE UNCHANGED <<status, executor>>
  /\ Finish(w, IF wrote[w] THEN "stamp" ELSE "idle")
  /\ UNCHANGED <<credits, suspended, stamped>>

CommitRejected(w) ==   \* mutant: another status is written
  /\ pc[w] = "commitReject"
  /\ wrote[w]
  /\ status' = [status EXCEPT ![cur[w]] = "REJECTED"]
  /\ Finish(w, "idle")
  /\ UNCHANGED <<executor, credits, suspended, stamped>>

CommitReject(w) ==
  /\ pc[w] = "commitReject"
  /\ rowLock[cur[w]] \in {NoOne, w}
  /\ IF wrote[w]
     THEN /\ status' = [status EXCEPT ![cur[w]] = "CLOSE"]
          /\ executor' = executor \ {cur[w]}
     ELSE UNCHANGED <<status, executor>>
  /\ credits' = IF paid[w] THEN [credits EXCEPT ![cur[w]] = @ + 1] ELSE credits
  /\ Finish(w, "idle")
  /\ UNCHANGED <<suspended, stamped>>

(* confirmWithdrawal, in a transaction of its own. *)
ConfirmWithdrawal(w) ==
  /\ pc[w] = "stamp"
  /\ acctLock[OwnerOf[cur[w]]] = NoOne
  /\ stamped' = stamped \cup {OwnerOf[cur[w]]}
  /\ Finish(w, "idle")
  /\ UNCHANGED <<status, credits, executor, suspended>>

(* A statement or the commit throws, or the server dies. *)
Fail(w) ==
  /\ pc[w] # "idle"
  /\ Finish(w, "idle")
  /\ UNCHANGED dbVars

(* AccountBO.updateStatus updates the account row. *)
UpdateStatus(a) ==
  /\ acctLock[a] = NoOne
  /\ suspended' = IF a \in suspended THEN suspended \ {a} ELSE suspended \cup {a}
  /\ UNCHANGED <<status, credits, executor, stamped, lockVars, pc, workVars>>

Progress(w) ==
  \/ CheckOrderStatus(w) \/ ApproveWithdrawal(w) \/ RejectWithdrawal(w)
  \/ CreditAccount(w) \/ CommitSettle(w) \/ CommitReject(w) \/ ConfirmWithdrawal(w)

Next ==
  \/ \E w \in Workers : Progress(w) \/ Fail(w) \/ \E t \in Withdrawals : Callback(w, t)
  \/ \E a \in Accounts : UpdateStatus(a)

Spec == Init /\ [][Next]_vars

(* The database serves the waiters of a row in turn; threads are scheduled. *)
FairSpec == Spec /\ \A w \in Workers : SF_vars(Progress(w))

-----------------------------------------------------------------------------
(* Properties *)

(* However many callbacks settle a withdrawal at once, its account is credited
   exactly when it is closed, and once: the row and the account are written in
   one transaction that claims the row first. *)
CreditedOnce ==
  \A t \in Withdrawals : credits[t] = IF status[t] = "CLOSE" THEN 1 ELSE 0

(* A settled withdrawal is never settled again, the other way included. *)
SettledIsFinal ==
  [][\A t \in Withdrawals : status[t] # "PROCESSING" => status'[t] = status[t]]_vars

(* The account of a suspended player is not credited: the status is read and
   kept under the account's row lock until the commit. *)
NoCreditWhileSuspended ==
  [][\A t \in Withdrawals :
       credits'[t] # credits[t] => OwnerOf[t] \notin suspended]_vars

(* Callbacks lock the row before the account, so they cannot block each other
   for good and each of them ends. *)
EveryCallbackEnds == \A w \in Workers : pc[w] # "idle" ~> pc[w] = "idle"
=============================================================================
