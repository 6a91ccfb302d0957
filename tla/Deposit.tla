------------------------------ MODULE Deposit ------------------------------
(***************************************************************************)
(* The life of a deposit row of the table moneytransaction between its     *)
(* creation and the decision CONFIRMED / CLOSE, as MoneyTransactionBO,     *)
(* PaymentGatewayProxy and PaymentDisplaySettingCache drive it.            *)
(*                                                                         *)
(* Request threads (Workers) read a row on one connection, talk to the     *)
(* seamless wallet, and only then lock and write the row on another        *)
(* connection, so every read can be stale when it is used.  Oracle row     *)
(* locks (account and moneytransaction) are held to commit or rollback.    *)
(* Written rows are invisible to others until commit.                      *)
(***************************************************************************)
EXTENDS Naturals, FiniteSets

CONSTANTS
  Deposits,     (* ids of deposit rows                                     *)
  Accounts,     (* players                                                 *)
  Workers,      (* request threads of all servers                          *)
  OwnerOf,      (* the account of a deposit                                *)
  Gateway,      (* deposits of type DEPOSIT_PAYMENT_GATEWAY; others DEPOSIT *)
  Online,       (* accounts with SERVER_ID not null: logged in             *)
  NoOne         (* null                                                    *)

ASSUME DepositAssumption ==
  /\ OwnerOf \in [Deposits -> Accounts]
  /\ Gateway \subseteq Deposits
  /\ Online \subseteq Accounts
  /\ NoOne \notin Deposits \cup Workers

VARIABLES
  (* committed database state *)
  status,        (* row status; "none" before the insert commits           *)
  suspended,     (* account.status = SUSPEND                               *)
  firstDeposit,  (* account.first_deposit_time, as the deposit that set it *)
  lastDeposit,   (* account.last_deposit_time, likewise                    *)
  (* row locks of the open database transactions *)
  rowLock, acctLock,
  (* the wallet service: the outcomes it has accepted for a deposit *)
  told,
  (* request threads *)
  pc,
  batch,         (* ids the request was given                              *)
  todo,          (* those read as undecided and not handled yet            *)
  cur,           (* the deposit being handled                              *)
  dirty,         (* rows written by the open transaction                   *)
  sawFirst,      (* isFirstDeposit, computed from the locked account row   *)
  (* history *)
  spoke,         (* deposits the open transaction told the wallet about    *)
  incident       (* deposits handled by two requests at once, or told to
                    the wallet by a transaction that rolled back           *)

dbVars == <<status, suspended, firstDeposit, lastDeposit>>
lockVars == <<rowLock, acctLock>>
workVars == <<pc, batch, todo, cur, dirty, sawFirst>>
histVars == <<spoke, incident>>
vars == <<dbVars, lockVars, told, workVars, histVars>>

Status == {"none", "NEW", "CONFIRMED", "CLOSE"}
Outcome == {"COMPLETED", "FAILED"}
Approving == {"lockAccount", "credit", "approveRow", "commitApprove", "stamp"}
Rejecting == {"reject", "rejectRow", "notify", "refresh"}
Checking == {"makePG", "callback", "boCheck", "recheckPG", "recheckBO"}

TypeOK ==
  /\ status \in [Deposits -> Status]
  /\ suspended \in [Accounts -> BOOLEAN]
  /\ firstDeposit \in [Accounts -> Deposits \cup {NoOne}]
  /\ lastDeposit \in [Accounts -> Deposits \cup {NoOne}]
  /\ rowLock \in [Deposits -> Workers \cup {NoOne}]
  /\ acctLock \in [Accounts -> Workers \cup {NoOne}]
  /\ told \in [Deposits -> SUBSET Outcome]
  /\ pc \in [Workers -> {"idle"} \cup Checking \cup Approving \cup Rejecting]
  /\ batch \in [Workers -> SUBSET Deposits]
  /\ todo \in [Workers -> SUBSET Deposits]
  /\ cur \in [Workers -> Deposits \cup {NoOne}]
  /\ dirty \in [Workers -> SUBSET Deposits]
  /\ sawFirst \in [Workers -> BOOLEAN]
  /\ spoke \in [Workers -> SUBSET Deposits]
  /\ incident \subseteq Deposits

(* Local bank deposits are inserted by the member site; gateway deposits by
   MakeDeposit below. *)
Init ==
  /\ status = [t \in Deposits |-> IF t \in Gateway THEN "none" ELSE "NEW"]
  /\ suspended = [a \in Accounts |-> FALSE]
  /\ firstDeposit = [a \in Accounts |-> NoOne]
  /\ lastDeposit = [a \in Accounts |-> NoOne]
  /\ rowLock = [t \in Deposits |-> NoOne]
  /\ acctLock = [a \in Accounts |-> NoOne]
  /\ told = [t \in Deposits |-> {}]
  /\ pc = [w \in Workers |-> "idle"]
  /\ batch = [w \in Workers |-> {}]
  /\ todo = [w \in Workers |-> {}]
  /\ cur = [w \in Workers |-> NoOne]
  /\ dirty = [w \in Workers |-> {}]
  /\ sawFirst = [w \in Workers |-> FALSE]
  /\ spoke = [w \in Workers |-> {}]
  /\ incident = {}

-----------------------------------------------------------------------------
(* Requests and transactions *)

Involved(w) == todo[w] \cup spoke[w] \cup ({cur[w]} \ {NoOne})

(* Request w starts working on the deposits `work`, read just now. *)
Begin(w, ids, work, at) ==
  /\ pc[w] = "idle"
  /\ pc' = [pc EXCEPT ![w] = at]
  /\ batch' = [batch EXCEPT ![w] = ids]
  /\ todo' = [todo EXCEPT ![w] = work]
  /\ incident' = incident \cup
       {t \in work : \E x \in Workers \ {w} : t \in Involved(x)}
  /\ UNCHANGED <<cur, dirty, sawFirst, spoke>>

(* commit and rollback both release the row locks of the transaction. *)
Release(w) ==
  /\ rowLock' = [t \in Deposits |-> IF rowLock[t] = w THEN NoOne ELSE rowLock[t]]
  /\ acctLock' = [a \in Accounts |-> IF acctLock[a] = w THEN NoOne ELSE acctLock[a]]
  /\ dirty' = [dirty EXCEPT ![w] = {}]
  /\ spoke' = [spoke EXCEPT ![w] = {}]

(* The request goes on with the deposits `rest`, or ends. *)
Continue(w, rest) ==
  /\ todo' = [todo EXCEPT ![w] = rest]
  /\ cur' = [cur EXCEPT ![w] = NoOne]
  /\ pc' = [pc EXCEPT ![w] = IF rest = {} THEN "idle" ELSE "recheckBO"]
  /\ batch' = [batch EXCEPT ![w] = IF rest = {} THEN {} ELSE batch[w]]

(* A failed approval ends with a rollback and batchApproveDeposit goes on with
   the next deposit; a failed rejection rolls the whole batch back. *)
Rollback(w) ==
  /\ Release(w)
  /\ incident' = incident \cup spoke[w]
  /\ Continue(w, IF pc[w] \in Approving THEN todo[w] ELSE {})
  /\ UNCHANGED <<dbVars, sawFirst>>

-----------------------------------------------------------------------------
(* Entry points *)

(* createDeposit commits the row with status NEW, then the gateway is called. *)
MakeDeposit(w, t) ==
  /\ t \in Gateway
  /\ status[t] = "none"
  /\ status' = [status EXCEPT ![t] = "NEW"]
  /\ Begin(w, {t}, {t}, "makePG")
  /\ UNCHANGED <<suspended, firstDeposit, lastDeposit, lockVars, told>>

(* The gateway takes the order, or the row is rejected as "API Failed". *)
MakePGDeposit(w) ==
  /\ pc[w] = "makePG"
  /\ \/ /\ Continue(w, {})
        /\ UNCHANGED <<dirty, sawFirst>>
     \/ /\ pc' = [pc EXCEPT ![w] = "reject"]
        /\ UNCHANGED <<batch, todo, cur, dirty, sawFirst>>
  /\ UNCHANGED <<dbVars, lockVars, told, histVars>>

(* A gateway callback: only a row read as NEW is processed. *)
CallbackReadsNotification(t) ==   \* mutant: isNotification = true
  {t} \cap {d \in Gateway : status[d] \in {"NEW", "CONFIRMED"}}

CallbackReads(t) == {t} \cap {d \in Gateway : status[d] = "NEW"}

ProcessSyncData(w, t) ==
  /\ CallbackReads(t) # {}
  /\ Begin(w, {t}, {t}, "callback")
  /\ UNCHANGED <<dbVars, lockVars, told>>

(* updateDepositOrderStatus: a manager re-checks a pending or rejected order. *)
UpdateDepositOrderStatus(w, t) ==
  /\ t \in Gateway
  /\ status[t] \in {"NEW", "CLOSE"}
  /\ Begin(w, {t}, {t}, "boCheck")
  /\ UNCHANGED <<dbVars, lockVars, told>>

(* The gateway's answer to checkOrderStatus: SUCCESS, FAIL, or anything else,
   which changes nothing. *)
CheckOrderStatus(w) ==
  /\ pc[w] \in {"callback", "boCheck"}
  /\ \/ /\ pc' = [pc EXCEPT ![w] =
                    IF pc[w] = "callback" THEN "recheckPG" ELSE "recheckBO"]
        /\ UNCHANGED <<batch, todo, cur>>
     \/ /\ pc' = [pc EXCEPT ![w] = "reject"]
        /\ UNCHANGED <<batch, todo, cur>>
     \/ Continue(w, {})
  /\ UNCHANGED <<dbVars, lockVars, told, dirty, sawFirst, histVars>>

(* The rows of a manager's request that are skipped are those not read as NEW. *)
UndecidedUnchecked(ids) == ids   \* mutant: no status check

Undecided(ids) == {t \in ids : status[t] = "NEW"}

BatchApproveDeposit(w, ids) ==
  /\ Undecided(ids) # {}
  /\ Begin(w, ids, Undecided(ids), "recheckBO")
  /\ UNCHANGED <<dbVars, lockVars, told>>

DisapproveDeposit(w, ids) ==
  /\ ids # {}
  /\ \A t \in ids : status[t] # "none"
  /\ Begin(w, ids, Undecided(ids), "reject")
  /\ UNCHANGED <<dbVars, lockVars, told>>

-----------------------------------------------------------------------------
(* approveDeposit *)

(* approveDepositByPG reads NEW only, approvePaymentDepositByBoCheckOrder NEW
   or CLOSE; a row that is not found leaves everything as it is. *)
ReadForApprove(w) ==
  /\ pc[w] \in {"recheckPG", "recheckBO"}
  /\ \E t \in todo[w] :
       IF status[t] \in {"NEW"} \cup (IF pc[w] = "recheckBO" THEN {"CLOSE"} ELSE {})
       THEN /\ cur' = [cur EXCEPT ![w] = t]
            /\ todo' = [todo EXCEPT ![w] = todo[w] \ {t}]
            /\ pc' = [pc EXCEPT ![w] = "lockAccount"]
            /\ UNCHANGED batch
       ELSE Continue(w, todo[w] \ {t})
  /\ UNCHANGED <<dbVars, lockVars, told, dirty, sawFirst, histVars>>

(* selectForUpdateForApprove, then the SUSPEND check under the lock. *)
LockAccountNoForUpdate(w) ==   \* mutant: a plain SELECT
  /\ pc[w] = "lockAccount"
  /\ ~suspended[OwnerOf[cur[w]]]
  /\ sawFirst' = [sawFirst EXCEPT ![w] = firstDeposit[OwnerOf[cur[w]]] = NoOne]
  /\ pc' = [pc EXCEPT ![w] = "credit"]
  /\ UNCHANGED <<dbVars, lockVars, told, batch, todo, cur, dirty, histVars>>

LockAccount(w) ==
  LET a == OwnerOf[cur[w]] IN
  /\ pc[w] = "lockAccount"
  /\ acctLock[a] = NoOne
  /\ IF suspended[a]
     THEN /\ Continue(w, todo[w])
          /\ UNCHANGED <<acctLock, sawFirst>>
     ELSE /\ acctLock' = [acctLock EXCEPT ![a] = w]
          /\ sawFirst' = [sawFirst EXCEPT ![w] = firstDeposit[a] = NoOne]
          /\ pc' = [pc EXCEPT ![w] = "credit"]
          /\ UNCHANGED <<batch, todo, cur>>
  /\ UNCHANGED <<dbVars, rowLock, told, dirty, histVars>>

(* completeDepositAndGetNewBalance(COMPLETED): before the row is looked at. *)
CreditWalletRowStatus(w) ==   \* mutant: sends the row's status to the wallet
  /\ pc[w] = "credit"
  /\ told' = [told EXCEPT ![cur[w]] = @ \cup {"CONFIRMED"}]
  /\ pc' = [pc EXCEPT ![w] = "approveRow"]
  /\ UNCHANGED <<dbVars, lockVars, batch, todo, cur, dirty, sawFirst, histVars>>

CreditWallet(w) ==
  /\ pc[w] = "credit"
  /\ told' = [told EXCEPT ![cur[w]] = @ \cup {"COMPLETED"}]
  /\ spoke' = [spoke EXCEPT ![w] = @ \cup {cur[w]}]
  /\ pc' = [pc EXCEPT ![w] = "approveRow"]
  /\ UNCHANGED <<dbVars, lockVars, batch, todo, cur, dirty, sawFirst, incident>>

(* The statuses MoneyTransactionDAO.approveDeposit accepts under the row lock. *)
ApprovableClosedToo(t) ==   \* mutant: the type is not looked at
  status[t] \in {"NEW", "CLOSE"}

Approvable(t) ==
  status[t] \in {"NEW"} \cup (IF t \in Gateway THEN {"CLOSE"} ELSE {})

ApproveRowNoForUpdate(w) ==   \* mutant: checks the status without the row lock
  /\ pc[w] = "approveRow"
  /\ IF Approvable(cur[w])
     THEN /\ dirty' = [dirty EXCEPT ![w] = {cur[w]}]
          /\ pc' = [pc EXCEPT ![w] = "commitApprove"]
          /\ UNCHANGED <<dbVars, lockVars, batch, todo, cur, sawFirst, histVars>>
     ELSE Rollback(w)
  /\ UNCHANGED told

ApproveRowNoRollback(w) ==   \* mutant: "Status is invalid" keeps the transaction open
  /\ pc[w] = "approveRow"
  /\ rowLock[cur[w]] = NoOne
  /\ IF Approvable(cur[w])
     THEN /\ rowLock' = [rowLock EXCEPT ![cur[w]] = w]
          /\ dirty' = [dirty EXCEPT ![w] = {cur[w]}]
          /\ pc' = [pc EXCEPT ![w] = "commitApprove"]
          /\ UNCHANGED <<dbVars, acctLock, batch, todo, cur, sawFirst, histVars>>
     ELSE /\ Continue(w, todo[w])
          /\ UNCHANGED <<dbVars, lockVars, dirty, sawFirst, histVars>>
  /\ UNCHANGED told

ApproveRow(w) ==
  /\ pc[w] = "approveRow"
  /\ rowLock[cur[w]] = NoOne
  /\ IF Approvable(cur[w])
     THEN /\ rowLock' = [rowLock EXCEPT ![cur[w]] = w]
          /\ dirty' = [dirty EXCEPT ![w] = {cur[w]}]
          /\ pc' = [pc EXCEPT ![w] = "commitApprove"]
          /\ UNCHANGED <<dbVars, acctLock, batch, todo, cur, sawFirst, histVars>>
     ELSE Rollback(w)
  /\ UNCHANGED told

CommitApprove(w) ==
  /\ pc[w] = "commitApprove"
  /\ status' = [t \in Deposits |-> IF t \in dirty[w] THEN "CONFIRMED" ELSE status[t]]
  /\ Release(w)
  /\ pc' = [pc EXCEPT ![w] = "stamp"]
  /\ UNCHANGED <<suspended, firstDeposit, lastDeposit, told, batch, todo, cur,
                 sawFirst, incident>>

(* updateForApproveDeposit: a transaction of its own, after the lock is gone. *)
StampAccountInverted(w) ==   \* mutant: isFirstDeposit negated
  /\ pc[w] = "stamp"
  /\ acctLock[OwnerOf[cur[w]]] = NoOne
  /\ lastDeposit' = [lastDeposit EXCEPT ![OwnerOf[cur[w]]] = cur[w]]
  /\ firstDeposit' = [firstDeposit EXCEPT ![OwnerOf[cur[w]]] =
                        IF ~sawFirst[w] THEN cur[w] ELSE @]
  /\ Continue(w, todo[w])
  /\ UNCHANGED <<status, suspended, lockVars, told, dirty, sawFirst, histVars>>

StampAccount(w) ==
  LET a == OwnerOf[cur[w]] IN
  /\ pc[w] = "stamp"
  /\ acctLock[a] = NoOne
  /\ lastDeposit' = [lastDeposit EXCEPT ![a] = cur[w]]
  /\ firstDeposit' = [firstDeposit EXCEPT ![a] = IF sawFirst[w] THEN cur[w] ELSE @]
  /\ Continue(w, todo[w])
  /\ UNCHANGED <<status, suspended, lockVars, told, dirty, sawFirst, histVars>>

-----------------------------------------------------------------------------
(* rejectDeposit *)

(* completeDepositAndGetNewBalance(FAILED) for the next undecided deposit. *)
FailWallet(w) ==
  /\ pc[w] = "reject"
  /\ \E t \in todo[w] :
       /\ told' = [told EXCEPT ![t] = @ \cup {"FAILED"}]
       /\ spoke' = [spoke EXCEPT ![w] = @ \cup {t}]
       /\ cur' = [cur EXCEPT ![w] = t]
       /\ todo' = [todo EXCEPT ![w] = @ \ {t}]
  /\ pc' = [pc EXCEPT ![w] = "rejectRow"]
  /\ UNCHANGED <<dbVars, lockVars, batch, dirty, sawFirst, incident>>

(* MoneyTransactionDAO.rejectDeposit: SELECT ... FOR UPDATE without a status
   check, so whatever the row holds now becomes CLOSE. *)
RejectRow(w) ==
  /\ pc[w] = "rejectRow"
  /\ rowLock[cur[w]] \in {NoOne, w}
  /\ rowLock' = [rowLock EXCEPT ![cur[w]] = w]
  /\ dirty' = [dirty EXCEPT ![w] = @ \cup {cur[w]}]
  /\ pc' = [pc EXCEPT ![w] = "notify"]
  /\ UNCHANGED <<dbVars, acctLock, told, batch, todo, cur, sawFirst, histVars>>

(* updateUpdatedAttribute: locks the account row of a player who is logged in. *)
NotifyAccount(w) ==
  LET a == OwnerOf[cur[w]] IN
  /\ pc[w] = "notify"
  /\ IF a \in Online
     THEN /\ acctLock[a] \in {NoOne, w}
          /\ acctLock' = [acctLock EXCEPT ![a] = w]
     ELSE UNCHANGED acctLock
  /\ cur' = [cur EXCEPT ![w] = NoOne]
  /\ pc' = [pc EXCEPT ![w] = "reject"]
  /\ UNCHANGED <<dbVars, rowLock, told, batch, todo, dirty, sawFirst, histVars>>

AllRejected(w) ==
  /\ pc[w] = "reject"
  /\ todo[w] = {}
  /\ pc' = [pc EXCEPT ![w] = "refresh"]
  /\ UNCHANGED <<dbVars, lockVars, told, batch, todo, cur, dirty, sawFirst, histVars>>

(* refreshUpdateTime updates every row of the request, skipped ones included. *)
RefreshRow(w) ==
  /\ pc[w] = "refresh"
  /\ \E t \in batch[w] :
       /\ rowLock[t] = NoOne
       /\ rowLock' = [rowLock EXCEPT ![t] = w]
  /\ UNCHANGED <<dbVars, acctLock, told, workVars, histVars>>

CommitReject(w) ==
  /\ pc[w] = "refresh"
  /\ \A t \in batch[w] : rowLock[t] = w
  /\ status' = [t \in Deposits |-> IF t \in dirty[w] THEN "CLOSE" ELSE status[t]]
  /\ Release(w)
  /\ Continue(w, {})
  /\ UNCHANGED <<suspended, firstDeposit, lastDeposit, told, sawFirst, incident>>

-----------------------------------------------------------------------------
(* Failures *)

(* The wallet call throws; the wallet may have applied it all the same. *)
WalletErrorSwallowed(w) ==   \* mutant: the approval goes on without the wallet
  /\ pc[w] = "credit"
  /\ pc' = [pc EXCEPT ![w] = "approveRow"]
  /\ UNCHANGED <<dbVars, lockVars, told, batch, todo, cur, dirty, sawFirst, histVars>>

WalletError(w) ==
  \/ /\ pc[w] = "credit"
     /\ \E o \in {{}, {"COMPLETED"}} :
          /\ told' = [told EXCEPT ![cur[w]] = @ \cup o]
          /\ incident' = incident \cup {cur[w]}
     /\ Release(w)
     /\ Continue(w, todo[w])
     /\ UNCHANGED <<dbVars, sawFirst>>
  \/ /\ pc[w] = "reject"
     /\ \E t \in todo[w], o \in {{}, {"FAILED"}} :
          /\ told' = [told EXCEPT ![t] = @ \cup o]
          /\ incident' = incident \cup spoke[w] \cup {t}
     /\ Release(w)
     /\ Continue(w, {})
     /\ UNCHANGED <<dbVars, sawFirst>>

(* A statement or the commit throws: SQL error, abandoned connection, or the
   database picking this transaction as a deadlock victim. *)
DbError(w) ==
  /\ pc[w] \in Approving \cup {"rejectRow", "notify", "refresh"}
  /\ Rollback(w)
  /\ UNCHANGED told

(* The server dies; the database rolls its transactions back. *)
Crash(w) ==
  /\ pc[w] # "idle"
  /\ Release(w)
  /\ incident' = incident \cup spoke[w]
  /\ Continue(w, {})
  /\ UNCHANGED <<dbVars, told, sawFirst>>

(* AccountBO.updateStatus: an UPDATE of the account row, hence under its lock. *)
UpdateStatus(a) ==
  /\ acctLock[a] = NoOne
  /\ suspended' = [suspended EXCEPT ![a] = ~@]
  /\ UNCHANGED <<status, firstDeposit, lastDeposit, lockVars, told, workVars, histVars>>

-----------------------------------------------------------------------------
Start(w) ==
  \/ \E t \in Deposits : \/ MakeDeposit(w, t)
                         \/ ProcessSyncData(w, t)
                         \/ UpdateDepositOrderStatus(w, t)
  \/ \E ids \in SUBSET Deposits : BatchApproveDeposit(w, ids) \/ DisapproveDeposit(w, ids)

Approve(w) ==
  ReadForApprove(w) \/ LockAccount(w) \/ CreditWallet(w) \/ ApproveRow(w)
    \/ CommitApprove(w) \/ StampAccount(w)

Reject(w) ==
  FailWallet(w) \/ RejectRow(w) \/ NotifyAccount(w) \/ AllRejected(w)
    \/ RefreshRow(w) \/ CommitReject(w)

Progress(w) == MakePGDeposit(w) \/ CheckOrderStatus(w) \/ Approve(w) \/ Reject(w)

Failure(w) == WalletError(w) \/ DbError(w) \/ Crash(w)

Next ==
  \/ \E w \in Workers : Start(w) \/ Progress(w) \/ Failure(w)
  \/ \E a \in Accounts : UpdateStatus(a)

Spec == Init /\ [][Next]_vars

(* The workers whose row locks w is waiting for. *)
BlockedBy(w) ==
  { x \in Workers \ {w} :
      \/ /\ pc[w] \in {"lockAccount", "stamp"}
         /\ acctLock[OwnerOf[cur[w]]] = x
      \/ /\ pc[w] = "notify"
         /\ OwnerOf[cur[w]] \in Online
         /\ acctLock[OwnerOf[cur[w]]] = x
      \/ /\ pc[w] \in {"approveRow", "rejectRow"}
         /\ rowLock[cur[w]] = x
      \/ /\ pc[w] = "refresh"
         /\ \E t \in batch[w] : rowLock[t] = x }

Deadlocked(w) ==
  \E S \in SUBSET Workers :
    /\ w \in S
    /\ \A x \in S : BlockedBy(x) \cap S # {} /\ (\E y \in S : x \in BlockedBy(y))

(* Oracle grants a contended row lock to its waiters in turn and ends a cycle
   of waiters by failing one statement (ORA-00060); threads are not starved. *)
Fairness ==
  \A w \in Workers : /\ SF_vars(Progress(w))
                     /\ WF_vars(Deadlocked(w) /\ DbError(w))

FairSpec == Spec /\ Fairness

-----------------------------------------------------------------------------
(* Properties *)

(* A confirmed deposit has been credited and a closed one has been reported as
   failed: approveDeposit and rejectDeposit call the wallet before they write. *)
DecisionToldToWallet ==
  \A t \in Deposits :
    /\ status[t] = "CONFIRMED" => "COMPLETED" \in told[t]
    /\ status[t] = "CLOSE" => "FAILED" \in told[t]

Idle(t) == \A w \in Workers : t \notin Involved(w)

(* When no request is on a deposit, and none ever overlapped another one on it
   or rolled back after its wallet call, the row and the wallet agree. *)
WalletAgreesWithRow ==
  \A t \in Deposits \ incident :
    Idle(t) =>
      /\ status[t] \in {"none", "NEW"} => told[t] = {}
      /\ status[t] = "CLOSE" => told[t] = {"FAILED"}
      /\ status[t] = "CONFIRMED" /\ t \notin Gateway => told[t] = {"COMPLETED"}

(* approveDeposit: "only an account that is not suspended".  The account row
   stays locked from the check to the commit, so a suspension cannot slip in. *)
NoApprovalWhileSuspended ==
  [][\A t \in Deposits :
       status[t] # "CONFIRMED" /\ status'[t] = "CONFIRMED" => ~suspended[OwnerOf[t]]]_vars

(* Nobody approves a decided deposit: the status checked under the row lock is
   still the committed one at commit (a closed gateway order may be revived). *)
ApprovesOnlyUndecided ==
  [][\A t \in Deposits :
       status[t] # "CONFIRMED" /\ status'[t] = "CONFIRMED" =>
         status[t] = "NEW" \/ (status[t] = "CLOSE" /\ t \in Gateway)]_vars

(* A confirmed deposit that no request holds is final: no later callback,
   approval or rejection moves the row or speaks to the wallet about it again. *)
Settled(t) == status[t] = "CONFIRMED" /\ Idle(t)

SettledIsFinal ==
  [][\A t \in Deposits :
       Settled(t) => Settled(t)' /\ told'[t] = told[t]]_vars

(* The account never has a last deposit without a first one, although both are
   written from an account row read in an earlier transaction. *)
FirstBeforeLast ==
  \A a \in Accounts : firstDeposit[a] = NoOne => lastDeposit[a] = NoOne

(* Row locks never outlive their transaction, and a row being written is locked
   by its writer only. *)
LocksMatchTransactions ==
  /\ \A w \in Workers : \A t \in dirty[w] : rowLock[t] = w
  /\ \A w \in Workers :
       pc[w] \in {"idle", "stamp"} \cup Checking =>
         w \notin {rowLock[t] : t \in Deposits} \cup {acctLock[a] : a \in Accounts}

(* The component implements its abstract specification. *)
Ledger == INSTANCE DepositLedger WITH status <- status, told <- told

ImplementsLedger == Ledger!Spec

(* Every request comes to an end, although approvals lock the account row and
   then the deposit row, and rejections the other way round. *)
EveryRequestEnds == \A w \in Workers : pc[w] # "idle" ~> pc[w] = "idle"
=============================================================================
