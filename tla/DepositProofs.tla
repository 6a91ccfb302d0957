--------------------------- MODULE DepositProofs ---------------------------
(***************************************************************************)
(* Proofs about Deposit for every set of deposits, accounts and workers.   *)
(***************************************************************************)
EXTENDS Deposit, TLAPS

-----------------------------------------------------------------------------
(* The parts of the inductive invariant *)

(* A worker handles an existing deposit, and its request only names such. *)
WorkInv ==
  \A w \in Workers :
    /\ pc[w] \in Approving \cup {"rejectRow", "notify"} => cur[w] \in Deposits
    /\ pc[w] = "idle" => todo[w] = {}
    /\ cur[w] # NoOne => status[cur[w]] # "none"
    /\ \A t \in todo[w] \cup dirty[w] : status[t] # "none"

(* Locks are held inside transactions only; the row written is locked. *)
LockInv ==
  \A w \in Workers :
    /\ \A t \in Deposits :
         rowLock[t] = w => pc[w] \in {"commitApprove"} \cup Rejecting
    /\ \A a \in Accounts :
         acctLock[a] = w =>
           pc[w] \in {"credit", "approveRow", "commitApprove"} \cup Rejecting
    /\ \A t \in dirty[w] : rowLock[t] = w

(* What an approval has established on its way to the commit. *)
ApprovalInv ==
  \A w \in Workers :
    /\ pc[w] \in {"credit", "approveRow", "commitApprove"} =>
         /\ acctLock[OwnerOf[cur[w]]] = w
         /\ ~suspended[OwnerOf[cur[w]]]
    /\ pc[w] \in {"approveRow", "commitApprove"} => "COMPLETED" \in told[cur[w]]
    /\ pc[w] = "commitApprove" => dirty[w] = {cur[w]} /\ Approvable(cur[w])

(* What a rejection has established on its way to the commit. *)
RejectionInv ==
  \A w \in Workers :
    /\ pc[w] = "rejectRow" => "FAILED" \in told[cur[w]]
    /\ pc[w] \in Rejecting => \A t \in dirty[w] : "FAILED" \in told[t]

(* The transaction remembers the wallet calls behind the rows it writes. *)
SpokeInv ==
  \A w \in Workers :
    /\ dirty[w] \subseteq spoke[w]
    /\ pc[w] \in {"approveRow", "commitApprove", "rejectRow"} => cur[w] \in spoke[w]

DepositInv ==
  /\ TypeOK
  /\ WorkInv
  /\ LockInv
  /\ ApprovalInv
  /\ RejectionInv
  /\ SpokeInv
  /\ DecisionToldToWallet

-----------------------------------------------------------------------------
(* Type correctness *)

PCs == {"idle"} \cup Checking \cup Approving \cup Rejecting

(* Continue keeps the types of the four variables it assigns. *)
LEMMA ContinueType ==
  ASSUME TypeOK, NEW w \in Workers, NEW rest \in SUBSET Deposits, Continue(w, rest)
  PROVE  /\ pc' \in [Workers -> PCs]
         /\ batch' \in [Workers -> SUBSET Deposits]
         /\ todo' \in [Workers -> SUBSET Deposits]
         /\ cur' \in [Workers -> Deposits \cup {NoOne}]
  BY DEF Continue, TypeOK, PCs, Checking

(* Release keeps the types of the locks, dirty and spoke. *)
LEMMA ReleaseType ==
  ASSUME TypeOK, NEW w \in Workers, Release(w)
  PROVE  /\ rowLock' \in [Deposits -> Workers \cup {NoOne}]
         /\ acctLock' \in [Accounts -> Workers \cup {NoOne}]
         /\ dirty' \in [Workers -> SUBSET Deposits]
         /\ spoke' \in [Workers -> SUBSET Deposits]
  BY DEF Release, TypeOK

(* A rollback keeps the type invariant if the wallet's record is well typed. *)
LEMMA RollbackType ==
  ASSUME TypeOK, NEW w \in Workers, Rollback(w), told' = told
  PROVE  TypeOK'
<1>1. incident' \subseteq Deposits /\ todo[w] \in SUBSET Deposits
  BY DEF Rollback, TypeOK
<1>2. Release(w) /\ Continue(w, IF pc[w] \in Approving THEN todo[w] ELSE {})
  BY DEF Rollback
<1>3. QED
  BY <1>1, <1>2, ContinueType, ReleaseType DEF Rollback, dbVars, TypeOK, PCs

(* Every action keeps the type invariant; WorkInv says whose deposit it is. *)
LEMMA StepTypeOK == TypeOK /\ WorkInv /\ [Next]_vars => TypeOK'
<1> SUFFICES ASSUME TypeOK, WorkInv, [Next]_vars
             PROVE  TypeOK'
  OBVIOUS
<1> USE DepositAssumption
<1>1. ASSUME NEW w \in Workers, NEW t \in Deposits, MakeDeposit(w, t)
      PROVE  TypeOK'
  BY <1>1 DEF MakeDeposit, Begin, TypeOK, WorkInv, Status, Outcome, Approving,
     Rejecting, Checking, dbVars, lockVars, workVars, histVars
<1>2. ASSUME NEW w \in Workers, NEW t \in Deposits, ProcessSyncData(w, t)
      PROVE  TypeOK'
  BY <1>2 DEF ProcessSyncData, Begin, CallbackReads, TypeOK, WorkInv, Status,
     Outcome, Approving, Rejecting, Checking, dbVars, lockVars, workVars,
     histVars
<1>3. ASSUME NEW w \in Workers, NEW t \in Deposits, UpdateDepositOrderStatus(w, t)
      PROVE  TypeOK'
  BY <1>3 DEF UpdateDepositOrderStatus, Begin, TypeOK, WorkInv, Status,
     Outcome, Approving, Rejecting, Checking, dbVars, lockVars, workVars,
     histVars
<1>4. ASSUME NEW w \in Workers, NEW ids \in SUBSET Deposits, BatchApproveDeposit(w, ids)
      PROVE  TypeOK'
  BY <1>4 DEF BatchApproveDeposit, Begin, Undecided, TypeOK, WorkInv, Status,
     Outcome, Approving, Rejecting, Checking, dbVars, lockVars, workVars,
     histVars
<1>5. ASSUME NEW w \in Workers, NEW ids \in SUBSET Deposits, DisapproveDeposit(w, ids)
      PROVE  TypeOK'
  BY <1>5 DEF DisapproveDeposit, Begin, Undecided, TypeOK, WorkInv, Status,
     Outcome, Approving, Rejecting, Checking, dbVars, lockVars, workVars,
     histVars
<1>6. ASSUME NEW w \in Workers, MakePGDeposit(w)
      PROVE  TypeOK'
  BY <1>6 DEF MakePGDeposit, Continue, TypeOK, WorkInv, Status, Outcome,
     Approving, Rejecting, Checking, dbVars, lockVars, workVars, histVars
<1>7. ASSUME NEW w \in Workers, CheckOrderStatus(w)
      PROVE  TypeOK'
  BY <1>7 DEF CheckOrderStatus, Continue, TypeOK, WorkInv, Status, Outcome,
     Approving, Rejecting, Checking, dbVars, lockVars, workVars, histVars
<1>8. ASSUME NEW w \in Workers, ReadForApprove(w)
      PROVE  TypeOK'
  <2> PICK t \in todo[w] :
        IF status[t] \in {"NEW"} \cup (IF pc[w] = "recheckBO" THEN {"CLOSE"} ELSE {})
        THEN /\ cur' = [cur EXCEPT ![w] = t]
             /\ todo' = [todo EXCEPT ![w] = todo[w] \ {t}]
             /\ pc' = [pc EXCEPT ![w] = "lockAccount"]
             /\ UNCHANGED batch
        ELSE Continue(w, todo[w] \ {t})
    BY <1>8 DEF ReadForApprove
  <2>1. todo[w] \ {t} \in SUBSET Deposits /\ t \in Deposits
    BY DEF TypeOK
  <2>2. CASE Continue(w, todo[w] \ {t})
    BY <1>8, <2>1, <2>2, ContinueType DEF ReadForApprove, TypeOK, PCs, dbVars, lockVars, histVars
  <2>3. CASE ~ Continue(w, todo[w] \ {t})
    BY <1>8, <2>1, <2>3 DEF ReadForApprove, TypeOK, Approving, dbVars, lockVars, histVars
  <2>4. QED
    BY <2>2, <2>3
<1>9. ASSUME NEW w \in Workers, LockAccount(w)
      PROVE  TypeOK'
  <2>1. todo[w] \in SUBSET Deposits
    BY DEF TypeOK
  <2>2. CASE suspended[OwnerOf[cur[w]]]
    BY <1>9, <2>1, <2>2, ContinueType
       DEF LockAccount, TypeOK, PCs, dbVars, lockVars, histVars
  <2>3. CASE ~suspended[OwnerOf[cur[w]]]
    <3>1. OwnerOf[cur[w]] \in Accounts
      BY <1>9 DEF LockAccount, WorkInv, Approving
    <3>2. sawFirst' \in [Workers -> BOOLEAN]
      BY <1>9, <2>3 DEF LockAccount, TypeOK
    <3>3. pc' = [pc EXCEPT ![w] = "credit"] /\ UNCHANGED <<batch, todo, cur>>
      BY <1>9, <2>3 DEF LockAccount
    <3>4. acctLock' \in [Accounts -> Workers \cup {NoOne}]
      BY <1>9, <2>3, <3>1 DEF LockAccount, TypeOK
    <3>5. UNCHANGED <<dbVars, rowLock, told, dirty, histVars>>
      BY <1>9 DEF LockAccount
    <3>6. QED
      BY <3>2, <3>3, <3>4, <3>5 DEF TypeOK, Approving, dbVars, histVars
  <2>4. QED
    BY <2>2, <2>3
<1>10. ASSUME NEW w \in Workers, CreditWallet(w)
       PROVE  TypeOK'
  BY <1>10 DEF CreditWallet, TypeOK, WorkInv, Status, Outcome, Approving,
     Rejecting, Checking, dbVars, lockVars, workVars, histVars
<1>11. ASSUME NEW w \in Workers, ApproveRow(w)
       PROVE  TypeOK'
  <2> cur[w] \in Deposits
    BY <1>11 DEF ApproveRow, WorkInv, Approving
  <2>1. CASE Approvable(cur[w])
    BY <1>11, <2>1 DEF ApproveRow, TypeOK, Approving, dbVars, histVars
  <2>2. CASE ~Approvable(cur[w])
    BY <1>11, <2>2, RollbackType DEF ApproveRow
  <2>3. QED
    BY <2>1, <2>2
<1>12. ASSUME NEW w \in Workers, CommitApprove(w)
       PROVE  TypeOK'
  BY <1>12 DEF CommitApprove, Release, TypeOK, WorkInv, Status, Outcome,
     Approving, Rejecting, Checking, dbVars, lockVars, workVars, histVars
<1>13. ASSUME NEW w \in Workers, StampAccount(w)
       PROVE  TypeOK'
  BY <1>13 DEF StampAccount, Continue, TypeOK, WorkInv, Status, Outcome,
     Approving, Rejecting, Checking, dbVars, lockVars, workVars, histVars
<1>14. ASSUME NEW w \in Workers, FailWallet(w)
       PROVE  TypeOK'
  BY <1>14 DEF FailWallet, TypeOK, WorkInv, Status, Outcome, Approving,
     Rejecting, Checking, dbVars, lockVars, workVars, histVars
<1>15. ASSUME NEW w \in Workers, RejectRow(w)
       PROVE  TypeOK'
  BY <1>15 DEF RejectRow, TypeOK, WorkInv, Status, Outcome, Approving,
     Rejecting, Checking, dbVars, lockVars, workVars, histVars
<1>16. ASSUME NEW w \in Workers, NotifyAccount(w)
       PROVE  TypeOK'
  BY <1>16 DEF NotifyAccount, TypeOK, WorkInv, Status, Outcome, Approving,
     Rejecting, Checking, dbVars, lockVars, workVars, histVars
<1>17. ASSUME NEW w \in Workers, AllRejected(w)
       PROVE  TypeOK'
  BY <1>17 DEF AllRejected, TypeOK, WorkInv, Status, Outcome, Approving,
     Rejecting, Checking, dbVars, lockVars, workVars, histVars
<1>18. ASSUME NEW w \in Workers, RefreshRow(w)
       PROVE  TypeOK'
  BY <1>18 DEF RefreshRow, TypeOK, WorkInv, Status, Outcome, Approving,
     Rejecting, Checking, dbVars, lockVars, workVars, histVars
<1>19. ASSUME NEW w \in Workers, CommitReject(w)
       PROVE  TypeOK'
  BY <1>19 DEF CommitReject, Release, Continue, TypeOK, WorkInv, Status,
     Outcome, Approving, Rejecting, Checking, dbVars, lockVars, workVars,
     histVars
<1>20. ASSUME NEW w \in Workers, WalletError(w)
       PROVE  TypeOK'
  <2>1. /\ told' \in [Deposits -> SUBSET Outcome]
        /\ incident' \subseteq Deposits
    <3>1. CASE pc[w] = "credit"
      <4>1. cur[w] \in Deposits
        BY <3>1 DEF WorkInv, Approving
      <4>2. PICK o \in {{}, {"COMPLETED"}} :
              /\ told' = [told EXCEPT ![cur[w]] = @ \cup o]
              /\ incident' = incident \cup {cur[w]}
        BY <1>20, <3>1 DEF WalletError
      <4>3. QED
        BY <4>1, <4>2 DEF TypeOK, Outcome
    <3>2. CASE pc[w] = "reject"
      <4>1. PICK t \in todo[w], o \in {{}, {"FAILED"}} :
              /\ told' = [told EXCEPT ![t] = @ \cup o]
              /\ incident' = incident \cup spoke[w] \cup {t}
        BY <1>20, <3>2 DEF WalletError
      <4>2. QED
        BY <4>1 DEF TypeOK, Outcome
    <3>3. QED
      BY <1>20, <3>1, <3>2 DEF WalletError
  <2>2. Release(w) /\ \E rest \in SUBSET Deposits : Continue(w, rest)
    BY <1>20 DEF WalletError, TypeOK
  <2>3. UNCHANGED <<dbVars, sawFirst>>
    BY <1>20 DEF WalletError
  <2>4. QED
    BY <2>1, <2>2, <2>3, ContinueType, ReleaseType DEF TypeOK, PCs, dbVars
<1>21. ASSUME NEW w \in Workers, DbError(w)
       PROVE  TypeOK'
  BY <1>21 DEF DbError, Rollback, Release, Continue, TypeOK, WorkInv, Status,
     Outcome, Approving, Rejecting, Checking, dbVars, lockVars, workVars,
     histVars
<1>22. ASSUME NEW w \in Workers, Crash(w)
       PROVE  TypeOK'
  BY <1>22 DEF Crash, Release, Continue, TypeOK, WorkInv, Status, Outcome,
     Approving, Rejecting, Checking, dbVars, lockVars, workVars, histVars
<1>23. ASSUME NEW a \in Accounts, UpdateStatus(a)
       PROVE  TypeOK'
  BY <1>23 DEF UpdateStatus, TypeOK, WorkInv, Status, Outcome, Approving,
     Rejecting, Checking, dbVars, lockVars, workVars, histVars
<1>24. CASE UNCHANGED vars
  BY <1>24 DEF vars, TypeOK, WorkInv, Status, Outcome, Approving, Rejecting,
     Checking, dbVars, lockVars, workVars, histVars
<1>25. QED
  BY <1>1, <1>2, <1>3, <1>4, <1>5, <1>6, <1>7, <1>8, <1>9, <1>10, <1>11,
     <1>12, <1>13, <1>14, <1>15, <1>16, <1>17, <1>18, <1>19, <1>20, <1>21, <1>22,
     <1>23, <1>24
     DEF Next, Start, Progress, Approve, Reject, Failure

-----------------------------------------------------------------------------
(* The other parts of the inductive invariant, each from those before it *)

(* Requests keep naming existing deposits. *)
LEMMA StepWorkInv == TypeOK /\ WorkInv /\ [Next]_vars => WorkInv'
<1> SUFFICES ASSUME TypeOK, WorkInv, [Next]_vars
             PROVE  WorkInv'
  OBVIOUS
<1> USE DepositAssumption
<1>1. ASSUME NEW w \in Workers, NEW t \in Deposits, MakeDeposit(w, t)
      PROVE  WorkInv'
  BY <1>1 DEF MakeDeposit, Begin, TypeOK, WorkInv, Status, Outcome, Approving,
     Rejecting, Checking, dbVars, lockVars, workVars, histVars
<1>2. ASSUME NEW w \in Workers, NEW t \in Deposits, ProcessSyncData(w, t)
      PROVE  WorkInv'
  BY <1>2 DEF ProcessSyncData, Begin, CallbackReads, TypeOK, WorkInv, Status,
     Outcome, Approving, Rejecting, Checking, dbVars, lockVars, workVars,
     histVars
<1>3. ASSUME NEW w \in Workers, NEW t \in Deposits, UpdateDepositOrderStatus(w, t)
      PROVE  WorkInv'
  BY <1>3 DEF UpdateDepositOrderStatus, Begin, TypeOK, WorkInv, Status,
     Outcome, Approving, Rejecting, Checking, dbVars, lockVars, workVars,
     histVars
<1>4. ASSUME NEW w \in Workers, NEW ids \in SUBSET Deposits, BatchApproveDeposit(w, ids)
      PROVE  WorkInv'
  BY <1>4 DEF BatchApproveDeposit, Begin, Undecided, TypeOK, WorkInv, Status,
     Outcome, Approving, Rejecting, Checking, dbVars, lockVars, workVars,
     histVars
<1>5. ASSUME NEW w \in Workers, NEW ids \in SUBSET Deposits, DisapproveDeposit(w, ids)
      PROVE  WorkInv'
  BY <1>5 DEF DisapproveDeposit, Begin, Undecided, TypeOK, WorkInv, Status,
     Outcome, Approving, Rejecting, Checking, dbVars, lockVars, workVars,
     histVars
<1>6. ASSUME NEW w \in Workers, MakePGDeposit(w)
      PROVE  WorkInv'
  BY <1>6 DEF MakePGDeposit, Continue, TypeOK, WorkInv, Status, Outcome,
     Approving, Rejecting, Checking, dbVars, lockVars, workVars, histVars
<1>7. ASSUME NEW w \in Workers, CheckOrderStatus(w)
      PROVE  WorkInv'
  BY <1>7 DEF CheckOrderStatus, Continue, TypeOK, WorkInv, Status, Outcome,
     Approving, Rejecting, Checking, dbVars, lockVars, workVars, histVars
<1>8. ASSUME NEW w \in Workers, ReadForApprove(w)
      PROVE  WorkInv'
  BY <1>8 DEF ReadForApprove, Continue, TypeOK, WorkInv, Status, Outcome,
     Approving, Rejecting, Checking, dbVars, lockVars, workVars, histVars
<1>9. ASSUME NEW w \in Workers, LockAccount(w)
      PROVE  WorkInv'
  BY <1>9 DEF LockAccount, Continue, TypeOK, WorkInv, Status, Outcome,
     Approving, Rejecting, Checking, dbVars, lockVars, workVars, histVars
<1>10. ASSUME NEW w \in Workers, CreditWallet(w)
       PROVE  WorkInv'
  BY <1>10 DEF CreditWallet, TypeOK, WorkInv, Status, Outcome, Approving,
     Rejecting, Checking, dbVars, lockVars, workVars, histVars
<1>11. ASSUME NEW w \in Workers, ApproveRow(w)
       PROVE  WorkInv'
  BY <1>11 DEF ApproveRow, Rollback, Release, Continue, TypeOK, WorkInv,
     Status, Outcome, Approving, Rejecting, Checking, dbVars, lockVars, workVars,
     histVars
<1>12. ASSUME NEW w \in Workers, CommitApprove(w)
       PROVE  WorkInv'
  BY <1>12 DEF CommitApprove, Release, TypeOK, WorkInv, Status, Outcome,
     Approving, Rejecting, Checking, dbVars, lockVars, workVars, histVars
<1>13. ASSUME NEW w \in Workers, StampAccount(w)
       PROVE  WorkInv'
  BY <1>13 DEF StampAccount, Continue, TypeOK, WorkInv, Status, Outcome,
     Approving, Rejecting, Checking, dbVars, lockVars, workVars, histVars
<1>14. ASSUME NEW w \in Workers, FailWallet(w)
       PROVE  WorkInv'
  BY <1>14 DEF FailWallet, TypeOK, WorkInv, Status, Outcome, Approving,
     Rejecting, Checking, dbVars, lockVars, workVars, histVars
<1>15. ASSUME NEW w \in Workers, RejectRow(w)
       PROVE  WorkInv'
  BY <1>15 DEF RejectRow, TypeOK, WorkInv, Status, Outcome, Approving,
     Rejecting, Checking, dbVars, lockVars, workVars, histVars
<1>16. ASSUME NEW w \in Workers, NotifyAccount(w)
       PROVE  WorkInv'
  BY <1>16 DEF NotifyAccount, TypeOK, WorkInv, Status, Outcome, Approving,
     Rejecting, Checking, dbVars, lockVars, workVars, histVars
<1>17. ASSUME NEW w \in Workers, AllRejected(w)
       PROVE  WorkInv'
  BY <1>17 DEF AllRejected, TypeOK, WorkInv, Status, Outcome, Approving,
     Rejecting, Checking, dbVars, lockVars, workVars, histVars
<1>18. ASSUME NEW w \in Workers, RefreshRow(w)
       PROVE  WorkInv'
  BY <1>18 DEF RefreshRow, TypeOK, WorkInv, Status, Outcome, Approving,
     Rejecting, Checking, dbVars, lockVars, workVars, histVars
<1>19. ASSUME NEW w \in Workers, CommitReject(w)
       PROVE  WorkInv'
  BY <1>19 DEF CommitReject, Release, Continue, TypeOK, WorkInv, Status,
     Outcome, Approving, Rejecting, Checking, dbVars, lockVars, workVars,
     histVars
<1>20. ASSUME NEW w \in Workers, WalletError(w)
       PROVE  WorkInv'
  BY <1>20 DEF WalletError, Release, Continue, TypeOK, WorkInv, Status,
     Outcome, Approving, Rejecting, Checking, dbVars, lockVars, workVars,
     histVars
<1>21. ASSUME NEW w \in Workers, DbError(w)
       PROVE  WorkInv'
  BY <1>21 DEF DbError, Rollback, Release, Continue, TypeOK, WorkInv, Status,
     Outcome, Approving, Rejecting, Checking, dbVars, lockVars, workVars,
     histVars
<1>22. ASSUME NEW w \in Workers, Crash(w)
       PROVE  WorkInv'
  BY <1>22 DEF Crash, Release, Continue, TypeOK, WorkInv, Status, Outcome,
     Approving, Rejecting, Checking, dbVars, lockVars, workVars, histVars
<1>23. ASSUME NEW a \in Accounts, UpdateStatus(a)
       PROVE  WorkInv'
  BY <1>23 DEF UpdateStatus, TypeOK, WorkInv, Status, Outcome, Approving,
     Rejecting, Checking, dbVars, lockVars, workVars, histVars
<1>24. CASE UNCHANGED vars
  BY <1>24 DEF vars, TypeOK, WorkInv, Status, Outcome, Approving, Rejecting,
     Checking, dbVars, lockVars, workVars, histVars
<1>25. QED
  BY <1>1, <1>2, <1>3, <1>4, <1>5, <1>6, <1>7, <1>8, <1>9, <1>10, <1>11,
     <1>12, <1>13, <1>14, <1>15, <1>16, <1>17, <1>18, <1>19, <1>20, <1>21, <1>22,
     <1>23, <1>24
     DEF Next, Start, Progress, Approve, Reject, Failure

(* Locks are released with their transaction. *)
LEMMA StepLockInv == TypeOK /\ WorkInv /\ LockInv /\ [Next]_vars => LockInv'
<1> SUFFICES ASSUME TypeOK, WorkInv, LockInv, [Next]_vars
             PROVE  LockInv'
  OBVIOUS
<1> USE DepositAssumption
<1>1. ASSUME NEW w \in Workers, NEW t \in Deposits, MakeDeposit(w, t)
      PROVE  LockInv'
  BY <1>1 DEF MakeDeposit, Begin, TypeOK, WorkInv, LockInv, Status, Outcome,
     Approving, Rejecting, Checking, dbVars, lockVars, workVars, histVars
<1>2. ASSUME NEW w \in Workers, NEW t \in Deposits, ProcessSyncData(w, t)
      PROVE  LockInv'
  BY <1>2 DEF ProcessSyncData, Begin, CallbackReads, TypeOK, WorkInv, LockInv,
     Status, Outcome, Approving, Rejecting, Checking, dbVars, lockVars, workVars,
     histVars
<1>3. ASSUME NEW w \in Workers, NEW t \in Deposits, UpdateDepositOrderStatus(w, t)
      PROVE  LockInv'
  BY <1>3 DEF UpdateDepositOrderStatus, Begin, TypeOK, WorkInv, LockInv,
     Status, Outcome, Approving, Rejecting, Checking, dbVars, lockVars, workVars,
     histVars
<1>4. ASSUME NEW w \in Workers, NEW ids \in SUBSET Deposits, BatchApproveDeposit(w, ids)
      PROVE  LockInv'
  BY <1>4 DEF BatchApproveDeposit, Begin, Undecided, TypeOK, WorkInv, LockInv,
     Status, Outcome, Approving, Rejecting, Checking, dbVars, lockVars, workVars,
     histVars
<1>5. ASSUME NEW w \in Workers, NEW ids \in SUBSET Deposits, DisapproveDeposit(w, ids)
      PROVE  LockInv'
  BY <1>5 DEF DisapproveDeposit, Begin, Undecided, TypeOK, WorkInv, LockInv,
     Status, Outcome, Approving, Rejecting, Checking, dbVars, lockVars, workVars,
     histVars
<1>6. ASSUME NEW w \in Workers, MakePGDeposit(w)
      PROVE  LockInv'
  BY <1>6 DEF MakePGDeposit, Continue, TypeOK, WorkInv, LockInv, Status,
     Outcome, Approving, Rejecting, Checking, dbVars, lockVars, workVars,
     histVars
<1>7. ASSUME NEW w \in Workers, CheckOrderStatus(w)
      PROVE  LockInv'
  BY <1>7 DEF CheckOrderStatus, Continue, TypeOK, WorkInv, LockInv, Status,
     Outcome, Approving, Rejecting, Checking, dbVars, lockVars, workVars,
     histVars
<1>8. ASSUME NEW w \in Workers, ReadForApprove(w)
      PROVE  LockInv'
  BY <1>8 DEF ReadForApprove, Continue, TypeOK, WorkInv, LockInv, Status,
     Outcome, Approving, Rejecting, Checking, dbVars, lockVars, workVars,
     histVars
<1>9. ASSUME NEW w \in Workers, LockAccount(w)
      PROVE  LockInv'
  BY <1>9 DEF LockAccount, Continue, TypeOK, WorkInv, LockInv, Status,
     Outcome, Approving, Rejecting, Checking, dbVars, lockVars, workVars,
     histVars
<1>10. ASSUME NEW w \in Workers, CreditWallet(w)
       PROVE  LockInv'
  BY <1>10 DEF CreditWallet, TypeOK, WorkInv, LockInv, Status, Outcome,
     Approving, Rejecting, Checking, dbVars, lockVars, workVars, histVars
<1>11. ASSUME NEW w \in Workers, ApproveRow(w)
       PROVE  LockInv'
  BY <1>11 DEF ApproveRow, Rollback, Release, Continue, TypeOK, WorkInv,
     LockInv, Status, Outcome, Approving, Rejecting, Checking, dbVars, lockVars,
     workVars, histVars
<1>12. ASSUME NEW w \in Workers, CommitApprove(w)
       PROVE  LockInv'
  BY <1>12 DEF CommitApprove, Release, TypeOK, WorkInv, LockInv, Status,
     Outcome, Approving, Rejecting, Checking, dbVars, lockVars, workVars,
     histVars
<1>13. ASSUME NEW w \in Workers, StampAccount(w)
       PROVE  LockInv'
  BY <1>13 DEF StampAccount, Continue, TypeOK, WorkInv, LockInv, Status,
     Outcome, Approving, Rejecting, Checking, dbVars, lockVars, workVars,
     histVars
<1>14. ASSUME NEW w \in Workers, FailWallet(w)
       PROVE  LockInv'
  BY <1>14 DEF FailWallet, TypeOK, WorkInv, LockInv, Status, Outcome,
     Approving, Rejecting, Checking, dbVars, lockVars, workVars, histVars
<1>15. ASSUME NEW w \in Workers, RejectRow(w)
       PROVE  LockInv'
  BY <1>15 DEF RejectRow, TypeOK, WorkInv, LockInv, Status, Outcome,
     Approving, Rejecting, Checking, dbVars, lockVars, workVars, histVars
<1>16. ASSUME NEW w \in Workers, NotifyAccount(w)
       PROVE  LockInv'
  BY <1>16 DEF NotifyAccount, TypeOK, WorkInv, LockInv, Status, Outcome,
     Approving, Rejecting, Checking, dbVars, lockVars, workVars, histVars
<1>17. ASSUME NEW w \in Workers, AllRejected(w)
       PROVE  LockInv'
  BY <1>17 DEF AllRejected, TypeOK, WorkInv, LockInv, Status, Outcome,
     Approving, Rejecting, Checking, dbVars, lockVars, workVars, histVars
<1>18. ASSUME NEW w \in Workers, RefreshRow(w)
       PROVE  LockInv'
  BY <1>18 DEF RefreshRow, TypeOK, WorkInv, LockInv, Status, Outcome,
     Approving, Rejecting, Checking, dbVars, lockVars, workVars, histVars
<1>19. ASSUME NEW w \in Workers, CommitReject(w)
       PROVE  LockInv'
  BY <1>19 DEF CommitReject, Release, Continue, TypeOK, WorkInv, LockInv,
     Status, Outcome, Approving, Rejecting, Checking, dbVars, lockVars, workVars,
     histVars
<1>20. ASSUME NEW w \in Workers, WalletError(w)
       PROVE  LockInv'
  BY <1>20 DEF WalletError, Release, Continue, TypeOK, WorkInv, LockInv,
     Status, Outcome, Approving, Rejecting, Checking, dbVars, lockVars, workVars,
     histVars
<1>21. ASSUME NEW w \in Workers, DbError(w)
       PROVE  LockInv'
  BY <1>21 DEF DbError, Rollback, Release, Continue, TypeOK, WorkInv, LockInv,
     Status, Outcome, Approving, Rejecting, Checking, dbVars, lockVars, workVars,
     histVars
<1>22. ASSUME NEW w \in Workers, Crash(w)
       PROVE  LockInv'
  BY <1>22 DEF Crash, Release, Continue, TypeOK, WorkInv, LockInv, Status,
     Outcome, Approving, Rejecting, Checking, dbVars, lockVars, workVars,
     histVars
<1>23. ASSUME NEW a \in Accounts, UpdateStatus(a)
       PROVE  LockInv'
  BY <1>23 DEF UpdateStatus, TypeOK, WorkInv, LockInv, Status, Outcome,
     Approving, Rejecting, Checking, dbVars, lockVars, workVars, histVars
<1>24. CASE UNCHANGED vars
  BY <1>24 DEF vars, TypeOK, WorkInv, LockInv, Status, Outcome, Approving,
     Rejecting, Checking, dbVars, lockVars, workVars, histVars
<1>25. QED
  BY <1>1, <1>2, <1>3, <1>4, <1>5, <1>6, <1>7, <1>8, <1>9, <1>10, <1>11,
     <1>12, <1>13, <1>14, <1>15, <1>16, <1>17, <1>18, <1>19, <1>20, <1>21, <1>22,
     <1>23, <1>24
     DEF Next, Start, Progress, Approve, Reject, Failure

(* The locks keep what an approval has established. *)
LEMMA StepApprovalInv == TypeOK /\ WorkInv /\ LockInv /\ ApprovalInv /\ [Next]_vars => ApprovalInv'
<1> SUFFICES ASSUME TypeOK, WorkInv, LockInv, ApprovalInv, [Next]_vars
             PROVE  ApprovalInv'
  OBVIOUS
<1> USE DepositAssumption
<1>1. ASSUME NEW w \in Workers, NEW t \in Deposits, MakeDeposit(w, t)
      PROVE  ApprovalInv'
  BY <1>1 DEF MakeDeposit, Begin, TypeOK, WorkInv, LockInv, ApprovalInv,
     Approvable, Status, Outcome, Approving, Rejecting, Checking, dbVars,
     lockVars, workVars, histVars
<1>2. ASSUME NEW w \in Workers, NEW t \in Deposits, ProcessSyncData(w, t)
      PROVE  ApprovalInv'
  BY <1>2 DEF ProcessSyncData, Begin, CallbackReads, TypeOK, WorkInv, LockInv,
     ApprovalInv, Approvable, Status, Outcome, Approving, Rejecting, Checking,
     dbVars, lockVars, workVars, histVars
<1>3. ASSUME NEW w \in Workers, NEW t \in Deposits, UpdateDepositOrderStatus(w, t)
      PROVE  ApprovalInv'
  BY <1>3 DEF UpdateDepositOrderStatus, Begin, TypeOK, WorkInv, LockInv,
     ApprovalInv, Approvable, Status, Outcome, Approving, Rejecting, Checking,
     dbVars, lockVars, workVars, histVars
<1>4. ASSUME NEW w \in Workers, NEW ids \in SUBSET Deposits, BatchApproveDeposit(w, ids)
      PROVE  ApprovalInv'
  BY <1>4 DEF BatchApproveDeposit, Begin, Undecided, TypeOK, WorkInv, LockInv,
     ApprovalInv, Approvable, Status, Outcome, Approving, Rejecting, Checking,
     dbVars, lockVars, workVars, histVars
<1>5. ASSUME NEW w \in Workers, NEW ids \in SUBSET Deposits, DisapproveDeposit(w, ids)
      PROVE  ApprovalInv'
  BY <1>5 DEF DisapproveDeposit, Begin, Undecided, TypeOK, WorkInv, LockInv,
     ApprovalInv, Approvable, Status, Outcome, Approving, Rejecting, Checking,
     dbVars, lockVars, workVars, histVars
<1>6. ASSUME NEW w \in Workers, MakePGDeposit(w)
      PROVE  ApprovalInv'
  BY <1>6 DEF MakePGDeposit, Continue, TypeOK, WorkInv, LockInv, ApprovalInv,
     Approvable, Status, Outcome, Approving, Rejecting, Checking, dbVars,
     lockVars, workVars, histVars
<1>7. ASSUME NEW w \in Workers, CheckOrderStatus(w)
      PROVE  ApprovalInv'
  BY <1>7 DEF CheckOrderStatus, Continue, TypeOK, WorkInv, LockInv,
     ApprovalInv, Approvable, Status, Outcome, Approving, Rejecting, Checking,
     dbVars, lockVars, workVars, histVars
<1>8. ASSUME NEW w \in Workers, ReadForApprove(w)
      PROVE  ApprovalInv'
  BY <1>8 DEF ReadForApprove, Continue, TypeOK, WorkInv, LockInv, ApprovalInv,
     Approvable, Status, Outcome, Approving, Rejecting, Checking, dbVars,
     lockVars, workVars, histVars
<1>9. ASSUME NEW w \in Workers, LockAccount(w)
      PROVE  ApprovalInv'
  BY <1>9 DEF LockAccount, Continue, TypeOK, WorkInv, LockInv, ApprovalInv,
     Approvable, Status, Outcome, Approving, Rejecting, Checking, dbVars,
     lockVars, workVars, histVars
<1>10. ASSUME NEW w \in Workers, CreditWallet(w)
       PROVE  ApprovalInv'
  BY <1>10 DEF CreditWallet, TypeOK, WorkInv, LockInv, ApprovalInv,
     Approvable, Status, Outcome, Approving, Rejecting, Checking, dbVars,
     lockVars, workVars, histVars
<1>11. ASSUME NEW w \in Workers, ApproveRow(w)
       PROVE  ApprovalInv'
  BY <1>11 DEF ApproveRow, Rollback, Release, Continue, TypeOK, WorkInv,
     LockInv, ApprovalInv, Approvable, Status, Outcome, Approving, Rejecting,
     Checking, dbVars, lockVars, workVars, histVars
<1>12. ASSUME NEW w \in Workers, CommitApprove(w)
       PROVE  ApprovalInv'
  BY <1>12 DEF CommitApprove, Release, TypeOK, WorkInv, LockInv, ApprovalInv,
     Approvable, Status, Outcome, Approving, Rejecting, Checking, dbVars,
     lockVars, workVars, histVars
<1>13. ASSUME NEW w \in Workers, StampAccount(w)
       PROVE  ApprovalInv'
  BY <1>13 DEF StampAccount, Continue, TypeOK, WorkInv, LockInv, ApprovalInv,
     Approvable, Status, Outcome, Approving, Rejecting, Checking, dbVars,
     lockVars, workVars, histVars
<1>14. ASSUME NEW w \in Workers, FailWallet(w)
       PROVE  ApprovalInv'
  BY <1>14 DEF FailWallet, TypeOK, WorkInv, LockInv, ApprovalInv, Approvable,
     Status, Outcome, Approving, Rejecting, Checking, dbVars, lockVars, workVars,
     histVars
<1>15. ASSUME NEW w \in Workers, RejectRow(w)
       PROVE  ApprovalInv'
  BY <1>15 DEF RejectRow, TypeOK, WorkInv, LockInv, ApprovalInv, Approvable,
     Status, Outcome, Approving, Rejecting, Checking, dbVars, lockVars, workVars,
     histVars
<1>16. ASSUME NEW w \in Workers, NotifyAccount(w)
       PROVE  ApprovalInv'
  BY <1>16 DEF NotifyAccount, TypeOK, WorkInv, LockInv, ApprovalInv,
     Approvable, Status, Outcome, Approving, Rejecting, Checking, dbVars,
     lockVars, workVars, histVars
<1>17. ASSUME NEW w \in Workers, AllRejected(w)
       PROVE  ApprovalInv'
  BY <1>17 DEF AllRejected, TypeOK, WorkInv, LockInv, ApprovalInv, Approvable,
     Status, Outcome, Approving, Rejecting, Checking, dbVars, lockVars, workVars,
     histVars
<1>18. ASSUME NEW w \in Workers, RefreshRow(w)
       PROVE  ApprovalInv'
  BY <1>18 DEF RefreshRow, TypeOK, WorkInv, LockInv, ApprovalInv, Approvable,
     Status, Outcome, Approving, Rejecting, Checking, dbVars, lockVars, workVars,
     histVars
<1>19. ASSUME NEW w \in Workers, CommitReject(w)
       PROVE  ApprovalInv'
  BY <1>19 DEF CommitReject, Release, Continue, TypeOK, WorkInv, LockInv,
     ApprovalInv, Approvable, Status, Outcome, Approving, Rejecting, Checking,
     dbVars, lockVars, workVars, histVars
<1>20. ASSUME NEW w \in Workers, WalletError(w)
       PROVE  ApprovalInv'
  <2>1. \A t \in Deposits : told[t] \subseteq told'[t]
    <3>1. CASE pc[w] = "credit"
      BY <1>20, <3>1 DEF WalletError, TypeOK
    <3>2. CASE pc[w] = "reject"
      BY <1>20, <3>2 DEF WalletError, TypeOK
    <3>3. QED
      BY <1>20, <3>1, <3>2 DEF WalletError
  <2>2. /\ Release(w)
        /\ \E rest \in SUBSET Deposits : Continue(w, rest)
        /\ UNCHANGED <<dbVars, sawFirst>>
    BY <1>20 DEF WalletError, TypeOK
  <2>3. QED
    BY <2>1, <2>2 DEF Release, Continue, TypeOK, WorkInv, LockInv,
       ApprovalInv, Approvable, Approving, Rejecting, dbVars
<1>21. ASSUME NEW w \in Workers, DbError(w)
       PROVE  ApprovalInv'
  BY <1>21 DEF DbError, Rollback, Release, Continue, TypeOK, WorkInv, LockInv,
     ApprovalInv, Approvable, Status, Outcome, Approving, Rejecting, Checking,
     dbVars, lockVars, workVars, histVars
<1>22. ASSUME NEW w \in Workers, Crash(w)
       PROVE  ApprovalInv'
  BY <1>22 DEF Crash, Release, Continue, TypeOK, WorkInv, LockInv,
     ApprovalInv, Approvable, Status, Outcome, Approving, Rejecting, Checking,
     dbVars, lockVars, workVars, histVars
<1>23. ASSUME NEW a \in Accounts, UpdateStatus(a)
       PROVE  ApprovalInv'
  BY <1>23 DEF UpdateStatus, TypeOK, WorkInv, LockInv, ApprovalInv,
     Approvable, Status, Outcome, Approving, Rejecting, Checking, dbVars,
     lockVars, workVars, histVars
<1>24. CASE UNCHANGED vars
  BY <1>24 DEF vars, TypeOK, WorkInv, LockInv, ApprovalInv, Approvable,
     Status, Outcome, Approving, Rejecting, Checking, dbVars, lockVars, workVars,
     histVars
<1>25. QED
  BY <1>1, <1>2, <1>3, <1>4, <1>5, <1>6, <1>7, <1>8, <1>9, <1>10, <1>11,
     <1>12, <1>13, <1>14, <1>15, <1>16, <1>17, <1>18, <1>19, <1>20, <1>21, <1>22,
     <1>23, <1>24
     DEF Next, Start, Progress, Approve, Reject, Failure

(* A rejection has told the wallet about every row it writes. *)
LEMMA StepRejectionInv == TypeOK /\ WorkInv /\ LockInv /\ RejectionInv /\ [Next]_vars => RejectionInv'
<1> SUFFICES ASSUME TypeOK, WorkInv, LockInv, RejectionInv, [Next]_vars
             PROVE  RejectionInv'
  OBVIOUS
<1> USE DepositAssumption
<1>1. ASSUME NEW w \in Workers, NEW t \in Deposits, MakeDeposit(w, t)
      PROVE  RejectionInv'
  BY <1>1 DEF MakeDeposit, Begin, TypeOK, WorkInv, LockInv, RejectionInv,
     Status, Outcome, Approving, Rejecting, Checking, dbVars, lockVars, workVars,
     histVars
<1>2. ASSUME NEW w \in Workers, NEW t \in Deposits, ProcessSyncData(w, t)
      PROVE  RejectionInv'
  BY <1>2 DEF ProcessSyncData, Begin, CallbackReads, TypeOK, WorkInv, LockInv,
     RejectionInv, Status, Outcome, Approving, Rejecting, Checking, dbVars,
     lockVars, workVars, histVars
<1>3. ASSUME NEW w \in Workers, NEW t \in Deposits, UpdateDepositOrderStatus(w, t)
      PROVE  RejectionInv'
  BY <1>3 DEF UpdateDepositOrderStatus, Begin, TypeOK, WorkInv, LockInv,
     RejectionInv, Status, Outcome, Approving, Rejecting, Checking, dbVars,
     lockVars, workVars, histVars
<1>4. ASSUME NEW w \in Workers, NEW ids \in SUBSET Deposits, BatchApproveDeposit(w, ids)
      PROVE  RejectionInv'
  BY <1>4 DEF BatchApproveDeposit, Begin, Undecided, TypeOK, WorkInv, LockInv,
     RejectionInv, Status, Outcome, Approving, Rejecting, Checking, dbVars,
     lockVars, workVars, histVars
<1>5. ASSUME NEW w \in Workers, NEW ids \in SUBSET Deposits, DisapproveDeposit(w, ids)
      PROVE  RejectionInv'
  BY <1>5 DEF DisapproveDeposit, Begin, Undecided, TypeOK, WorkInv, LockInv,
     RejectionInv, Status, Outcome, Approving, Rejecting, Checking, dbVars,
     lockVars, workVars, histVars
<1>6. ASSUME NEW w \in Workers, MakePGDeposit(w)
      PROVE  RejectionInv'
  BY <1>6 DEF MakePGDeposit, Continue, TypeOK, WorkInv, LockInv, RejectionInv,
     Status, Outcome, Approving, Rejecting, Checking, dbVars, lockVars, workVars,
     histVars
<1>7. ASSUME NEW w \in Workers, CheckOrderStatus(w)
      PROVE  RejectionInv'
  BY <1>7 DEF CheckOrderStatus, Continue, TypeOK, WorkInv, LockInv,
     RejectionInv, Status, Outcome, Approving, Rejecting, Checking, dbVars,
     lockVars, workVars, histVars
<1>8. ASSUME NEW w \in Workers, ReadForApprove(w)
      PROVE  RejectionInv'
  BY <1>8 DEF ReadForApprove, Continue, TypeOK, WorkInv, LockInv,
     RejectionInv, Status, Outcome, Approving, Rejecting, Checking, dbVars,
     lockVars, workVars, histVars
<1>9. ASSUME NEW w \in Workers, LockAccount(w)
      PROVE  RejectionInv'
  BY <1>9 DEF LockAccount, Continue, TypeOK, WorkInv, LockInv, RejectionInv,
     Status, Outcome, Approving, Rejecting, Checking, dbVars, lockVars, workVars,
     histVars
<1>10. ASSUME NEW w \in Workers, CreditWallet(w)
       PROVE  RejectionInv'
  BY <1>10 DEF CreditWallet, TypeOK, WorkInv, LockInv, RejectionInv, Status,
     Outcome, Approving, Rejecting, Checking, dbVars, lockVars, workVars,
     histVars
<1>11. ASSUME NEW w \in Workers, ApproveRow(w)
       PROVE  RejectionInv'
  BY <1>11 DEF ApproveRow, Rollback, Release, Continue, TypeOK, WorkInv,
     LockInv, RejectionInv, Status, Outcome, Approving, Rejecting, Checking,
     dbVars, lockVars, workVars, histVars
<1>12. ASSUME NEW w \in Workers, CommitApprove(w)
       PROVE  RejectionInv'
  BY <1>12 DEF CommitApprove, Release, TypeOK, WorkInv, LockInv, RejectionInv,
     Status, Outcome, Approving, Rejecting, Checking, dbVars, lockVars, workVars,
     histVars
<1>13. ASSUME NEW w \in Workers, StampAccount(w)
       PROVE  RejectionInv'
  BY <1>13 DEF StampAccount, Continue, TypeOK, WorkInv, LockInv, RejectionInv,
     Status, Outcome, Approving, Rejecting, Checking, dbVars, lockVars, workVars,
     histVars
<1>14. ASSUME NEW w \in Workers, FailWallet(w)
       PROVE  RejectionInv'
  BY <1>14 DEF FailWallet, TypeOK, WorkInv, LockInv, RejectionInv, Status,
     Outcome, Approving, Rejecting, Checking, dbVars, lockVars, workVars,
     histVars
<1>15. ASSUME NEW w \in Workers, RejectRow(w)
       PROVE  RejectionInv'
  BY <1>15 DEF RejectRow, TypeOK, WorkInv, LockInv, RejectionInv, Status,
     Outcome, Approving, Rejecting, Checking, dbVars, lockVars, workVars,
     histVars
<1>16. ASSUME NEW w \in Workers, NotifyAccount(w)
       PROVE  RejectionInv'
  BY <1>16 DEF NotifyAccount, TypeOK, WorkInv, LockInv, RejectionInv, Status,
     Outcome, Approving, Rejecting, Checking, dbVars, lockVars, workVars,
     histVars
<1>17. ASSUME NEW w \in Workers, AllRejected(w)
       PROVE  RejectionInv'
  BY <1>17 DEF AllRejected, TypeOK, WorkInv, LockInv, RejectionInv, Status,
     Outcome, Approving, Rejecting, Checking, dbVars, lockVars, workVars,
     histVars
<1>18. ASSUME NEW w \in Workers, RefreshRow(w)
       PROVE  RejectionInv'
  BY <1>18 DEF RefreshRow, TypeOK, WorkInv, LockInv, RejectionInv, Status,
     Outcome, Approving, Rejecting, Checking, dbVars, lockVars, workVars,
     histVars
<1>19. ASSUME NEW w \in Workers, CommitReject(w)
       PROVE  RejectionInv'
  BY <1>19 DEF CommitReject, Release, Continue, TypeOK, WorkInv, LockInv,
     RejectionInv, Status, Outcome, Approving, Rejecting, Checking, dbVars,
     lockVars, workVars, histVars
<1>20. ASSUME NEW w \in Workers, WalletError(w)
       PROVE  RejectionInv'
  <2>1. \A t \in Deposits : told[t] \subseteq told'[t]
    <3>1. CASE pc[w] = "credit"
      BY <1>20, <3>1 DEF WalletError, TypeOK
    <3>2. CASE pc[w] = "reject"
      BY <1>20, <3>2 DEF WalletError, TypeOK
    <3>3. QED
      BY <1>20, <3>1, <3>2 DEF WalletError
  <2>2. /\ Release(w)
        /\ \E rest \in SUBSET Deposits : Continue(w, rest)
        /\ UNCHANGED <<dbVars, sawFirst>>
    BY <1>20 DEF WalletError, TypeOK
  <2>3. QED
    BY <2>1, <2>2 DEF Release, Continue, TypeOK, WorkInv, LockInv,
       RejectionInv, Approving, Rejecting, dbVars
<1>21. ASSUME NEW w \in Workers, DbError(w)
       PROVE  RejectionInv'
  BY <1>21 DEF DbError, Rollback, Release, Continue, TypeOK, WorkInv, LockInv,
     RejectionInv, Status, Outcome, Approving, Rejecting, Checking, dbVars,
     lockVars, workVars, histVars
<1>22. ASSUME NEW w \in Workers, Crash(w)
       PROVE  RejectionInv'
  BY <1>22 DEF Crash, Release, Continue, TypeOK, WorkInv, LockInv,
     RejectionInv, Status, Outcome, Approving, Rejecting, Checking, dbVars,
     lockVars, workVars, histVars
<1>23. ASSUME NEW a \in Accounts, UpdateStatus(a)
       PROVE  RejectionInv'
  BY <1>23 DEF UpdateStatus, TypeOK, WorkInv, LockInv, RejectionInv, Status,
     Outcome, Approving, Rejecting, Checking, dbVars, lockVars, workVars,
     histVars
<1>24. CASE UNCHANGED vars
  BY <1>24 DEF vars, TypeOK, WorkInv, LockInv, RejectionInv, Status, Outcome,
     Approving, Rejecting, Checking, dbVars, lockVars, workVars, histVars
<1>25. QED
  BY <1>1, <1>2, <1>3, <1>4, <1>5, <1>6, <1>7, <1>8, <1>9, <1>10, <1>11,
     <1>12, <1>13, <1>14, <1>15, <1>16, <1>17, <1>18, <1>19, <1>20, <1>21, <1>22,
     <1>23, <1>24
     DEF Next, Start, Progress, Approve, Reject, Failure

(* Only a commit decides a row, after what the transaction told the wallet. *)
LEMMA StepDecision == TypeOK /\ WorkInv /\ ApprovalInv /\ RejectionInv /\ DecisionToldToWallet /\ [Next]_vars => DecisionToldToWallet'
<1> SUFFICES ASSUME TypeOK, WorkInv, ApprovalInv, RejectionInv, DecisionToldToWallet, [Next]_vars
             PROVE  DecisionToldToWallet'
  OBVIOUS
<1> USE DepositAssumption
<1>1. ASSUME NEW w \in Workers, NEW t \in Deposits, MakeDeposit(w, t)
      PROVE  DecisionToldToWallet'
  BY <1>1 DEF MakeDeposit, Begin, TypeOK, WorkInv, ApprovalInv, RejectionInv,
     DecisionToldToWallet, Status, Outcome, Approving, Rejecting, Checking,
     dbVars, lockVars, workVars, histVars
<1>2. ASSUME NEW w \in Workers, NEW t \in Deposits, ProcessSyncData(w, t)
      PROVE  DecisionToldToWallet'
  BY <1>2 DEF ProcessSyncData, Begin, CallbackReads, TypeOK, WorkInv,
     ApprovalInv, RejectionInv, DecisionToldToWallet, Status, Outcome, Approving,
     Rejecting, Checking, dbVars, lockVars, workVars, histVars
<1>3. ASSUME NEW w \in Workers, NEW t \in Deposits, UpdateDepositOrderStatus(w, t)
      PROVE  DecisionToldToWallet'
  BY <1>3 DEF UpdateDepositOrderStatus, Begin, TypeOK, WorkInv, ApprovalInv,
     RejectionInv, DecisionToldToWallet, Status, Outcome, Approving, Rejecting,
     Checking, dbVars, lockVars, workVars, histVars
<1>4. ASSUME NEW w \in Workers, NEW ids \in SUBSET Deposits, BatchApproveDeposit(w, ids)
      PROVE  DecisionToldToWallet'
  BY <1>4 DEF BatchApproveDeposit, Begin, Undecided, TypeOK, WorkInv,
     ApprovalInv, RejectionInv, DecisionToldToWallet, Status, Outcome, Approving,
     Rejecting, Checking, dbVars, lockVars, workVars, histVars
<1>5. ASSUME NEW w \in Workers, NEW ids \in SUBSET Deposits, DisapproveDeposit(w, ids)
      PROVE  DecisionToldToWallet'
  BY <1>5 DEF DisapproveDeposit, Begin, Undecided, TypeOK, WorkInv,
     ApprovalInv, RejectionInv, DecisionToldToWallet, Status, Outcome, Approving,
     Rejecting, Checking, dbVars, lockVars, workVars, histVars
<1>6. ASSUME NEW w \in Workers, MakePGDeposit(w)
      PROVE  DecisionToldToWallet'
  BY <1>6 DEF MakePGDeposit, Continue, TypeOK, WorkInv, ApprovalInv,
     RejectionInv, DecisionToldToWallet, Status, Outcome, Approving, Rejecting,
     Checking, dbVars, lockVars, workVars, histVars
<1>7. ASSUME NEW w \in Workers, CheckOrderStatus(w)
      PROVE  DecisionToldToWallet'
  BY <1>7 DEF CheckOrderStatus, Continue, TypeOK, WorkInv, ApprovalInv,
     RejectionInv, DecisionToldToWallet, Status, Outcome, Approving, Rejecting,
     Checking, dbVars, lockVars, workVars, histVars
<1>8. ASSUME NEW w \in Workers, ReadForApprove(w)
      PROVE  DecisionToldToWallet'
  BY <1>8 DEF ReadForApprove, Continue, TypeOK, WorkInv, ApprovalInv,
     RejectionInv, DecisionToldToWallet, Status, Outcome, Approving, Rejecting,
     Checking, dbVars, lockVars, workVars, histVars
<1>9. ASSUME NEW w \in Workers, LockAccount(w)
      PROVE  DecisionToldToWallet'
  BY <1>9 DEF LockAccount, Continue, TypeOK, WorkInv, ApprovalInv,
     RejectionInv, DecisionToldToWallet, Status, Outcome, Approving, Rejecting,
     Checking, dbVars, lockVars, workVars, histVars
<1>10. ASSUME NEW w \in Workers, CreditWallet(w)
       PROVE  DecisionToldToWallet'
  BY <1>10 DEF CreditWallet, TypeOK, WorkInv, ApprovalInv, RejectionInv,
     DecisionToldToWallet, Status, Outcome, Approving, Rejecting, Checking,
     dbVars, lockVars, workVars, histVars
<1>11. ASSUME NEW w \in Workers, ApproveRow(w)
       PROVE  DecisionToldToWallet'
  BY <1>11 DEF ApproveRow, Rollback, Release, Continue, TypeOK, WorkInv,
     ApprovalInv, RejectionInv, DecisionToldToWallet, Status, Outcome, Approving,
     Rejecting, Checking, dbVars, lockVars, workVars, histVars
<1>12. ASSUME NEW w \in Workers, CommitApprove(w)
       PROVE  DecisionToldToWallet'
  BY <1>12 DEF CommitApprove, Release, TypeOK, WorkInv, ApprovalInv,
     RejectionInv, DecisionToldToWallet, Status, Outcome, Approving, Rejecting,
     Checking, dbVars, lockVars, workVars, histVars
<1>13. ASSUME NEW w \in Workers, StampAccount(w)
       PROVE  DecisionToldToWallet'
  BY <1>13 DEF StampAccount, Continue, TypeOK, WorkInv, ApprovalInv,
     RejectionInv, DecisionToldToWallet, Status, Outcome, Approving, Rejecting,
     Checking, dbVars, lockVars, workVars, histVars
<1>14. ASSUME NEW w \in Workers, FailWallet(w)
       PROVE  DecisionToldToWallet'
  BY <1>14 DEF FailWallet, TypeOK, WorkInv, ApprovalInv, RejectionInv,
     DecisionToldToWallet, Status, Outcome, Approving, Rejecting, Checking,
     dbVars, lockVars, workVars, histVars
<1>15. ASSUME NEW w \in Workers, RejectRow(w)
       PROVE  DecisionToldToWallet'
  BY <1>15 DEF RejectRow, TypeOK, WorkInv, ApprovalInv, RejectionInv,
     DecisionToldToWallet, Status, Outcome, Approving, Rejecting, Checking,
     dbVars, lockVars, workVars, histVars
<1>16. ASSUME NEW w \in Workers, NotifyAccount(w)
       PROVE  DecisionToldToWallet'
  BY <1>16 DEF NotifyAccount, TypeOK, WorkInv, ApprovalInv, RejectionInv,
     DecisionToldToWallet, Status, Outcome, Approving, Rejecting, Checking,
     dbVars, lockVars, workVars, histVars
<1>17. ASSUME NEW w \in Workers, AllRejected(w)
       PROVE  DecisionToldToWallet'
  BY <1>17 DEF AllRejected, TypeOK, WorkInv, ApprovalInv, RejectionInv,
     DecisionToldToWallet, Status, Outcome, Approving, Rejecting, Checking,
     dbVars, lockVars, workVars, histVars
<1>18. ASSUME NEW w \in Workers, RefreshRow(w)
       PROVE  DecisionToldToWallet'
  BY <1>18 DEF RefreshRow, TypeOK, WorkInv, ApprovalInv, RejectionInv,
     DecisionToldToWallet, Status, Outcome, Approving, Rejecting, Checking,
     dbVars, lockVars, workVars, histVars
<1>19. ASSUME NEW w \in Workers, CommitReject(w)
       PROVE  DecisionToldToWallet'
  BY <1>19 DEF CommitReject, Release, Continue, TypeOK, WorkInv, ApprovalInv,
     RejectionInv, DecisionToldToWallet, Status, Outcome, Approving, Rejecting,
     Checking, dbVars, lockVars, workVars, histVars
<1>20. ASSUME NEW w \in Workers, WalletError(w)
       PROVE  DecisionToldToWallet'
  <2>1. \A t \in Deposits : told[t] \subseteq told'[t]
    <3>1. CASE pc[w] = "credit"
      BY <1>20, <3>1 DEF WalletError, TypeOK
    <3>2. CASE pc[w] = "reject"
      BY <1>20, <3>2 DEF WalletError, TypeOK
    <3>3. QED
      BY <1>20, <3>1, <3>2 DEF WalletError
  <2>2. /\ Release(w)
        /\ \E rest \in SUBSET Deposits : Continue(w, rest)
        /\ UNCHANGED <<dbVars, sawFirst>>
    BY <1>20 DEF WalletError, TypeOK
  <2>3. QED
    BY <2>1, <2>2 DEF Release, Continue, TypeOK, DecisionToldToWallet, dbVars
<1>21. ASSUME NEW w \in Workers, DbError(w)
       PROVE  DecisionToldToWallet'
  BY <1>21 DEF DbError, Rollback, Release, Continue, TypeOK, WorkInv,
     ApprovalInv, RejectionInv, DecisionToldToWallet, Status, Outcome, Approving,
     Rejecting, Checking, dbVars, lockVars, workVars, histVars
<1>22. ASSUME NEW w \in Workers, Crash(w)
       PROVE  DecisionToldToWallet'
  BY <1>22 DEF Crash, Release, Continue, TypeOK, WorkInv, ApprovalInv,
     RejectionInv, DecisionToldToWallet, Status, Outcome, Approving, Rejecting,
     Checking, dbVars, lockVars, workVars, histVars
<1>23. ASSUME NEW a \in Accounts, UpdateStatus(a)
       PROVE  DecisionToldToWallet'
  BY <1>23 DEF UpdateStatus, TypeOK, WorkInv, ApprovalInv, RejectionInv,
     DecisionToldToWallet, Status, Outcome, Approving, Rejecting, Checking,
     dbVars, lockVars, workVars, histVars
<1>24. CASE UNCHANGED vars
  BY <1>24 DEF vars, TypeOK, WorkInv, ApprovalInv, RejectionInv,
     DecisionToldToWallet, Status, Outcome, Approving, Rejecting, Checking,
     dbVars, lockVars, workVars, histVars
<1>25. QED
  BY <1>1, <1>2, <1>3, <1>4, <1>5, <1>6, <1>7, <1>8, <1>9, <1>10, <1>11,
     <1>12, <1>13, <1>14, <1>15, <1>16, <1>17, <1>18, <1>19, <1>20, <1>21, <1>22,
     <1>23, <1>24
     DEF Next, Start, Progress, Approve, Reject, Failure

(* Rows are written after the wallet was told about them. *)
LEMMA StepSpokeInv == TypeOK /\ WorkInv /\ LockInv /\ SpokeInv /\ [Next]_vars => SpokeInv'
<1> SUFFICES ASSUME TypeOK, WorkInv, LockInv, SpokeInv, [Next]_vars
             PROVE  SpokeInv'
  OBVIOUS
<1> USE DepositAssumption
<1>1. ASSUME NEW w \in Workers, NEW t \in Deposits, MakeDeposit(w, t)
      PROVE  SpokeInv'
  BY <1>1 DEF MakeDeposit, Begin, TypeOK, WorkInv, LockInv, SpokeInv, Status,
     Outcome, Approving, Rejecting, Checking, dbVars, lockVars, workVars,
     histVars
<1>2. ASSUME NEW w \in Workers, NEW t \in Deposits, ProcessSyncData(w, t)
      PROVE  SpokeInv'
  BY <1>2 DEF ProcessSyncData, Begin, CallbackReads, TypeOK, WorkInv, LockInv,
     SpokeInv, Status, Outcome, Approving, Rejecting, Checking, dbVars, lockVars,
     workVars, histVars
<1>3. ASSUME NEW w \in Workers, NEW t \in Deposits, UpdateDepositOrderStatus(w, t)
      PROVE  SpokeInv'
  BY <1>3 DEF UpdateDepositOrderStatus, Begin, TypeOK, WorkInv, LockInv,
     SpokeInv, Status, Outcome, Approving, Rejecting, Checking, dbVars, lockVars,
     workVars, histVars
<1>4. ASSUME NEW w \in Workers, NEW ids \in SUBSET Deposits, BatchApproveDeposit(w, ids)
      PROVE  SpokeInv'
  BY <1>4 DEF BatchApproveDeposit, Begin, Undecided, TypeOK, WorkInv, LockInv,
     SpokeInv, Status, Outcome, Approving, Rejecting, Checking, dbVars, lockVars,
     workVars, histVars
<1>5. ASSUME NEW w \in Workers, NEW ids \in SUBSET Deposits, DisapproveDeposit(w, ids)
      PROVE  SpokeInv'
  BY <1>5 DEF DisapproveDeposit, Begin, Undecided, TypeOK, WorkInv, LockInv,
     SpokeInv, Status, Outcome, Approving, Rejecting, Checking, dbVars, lockVars,
     workVars, histVars
<1>6. ASSUME NEW w \in Workers, MakePGDeposit(w)
      PROVE  SpokeInv'
  BY <1>6 DEF MakePGDeposit, Continue, TypeOK, WorkInv, LockInv, SpokeInv,
     Status, Outcome, Approving, Rejecting, Checking, dbVars, lockVars, workVars,
     histVars
<1>7. ASSUME NEW w \in Workers, CheckOrderStatus(w)
      PROVE  SpokeInv'
  BY <1>7 DEF CheckOrderStatus, Continue, TypeOK, WorkInv, LockInv, SpokeInv,
     Status, Outcome, Approving, Rejecting, Checking, dbVars, lockVars, workVars,
     histVars
<1>8. ASSUME NEW w \in Workers, ReadForApprove(w)
      PROVE  SpokeInv'
  BY <1>8 DEF ReadForApprove, Continue, TypeOK, WorkInv, LockInv, SpokeInv,
     Status, Outcome, Approving, Rejecting, Checking, dbVars, lockVars, workVars,
     histVars
<1>9. ASSUME NEW w \in Workers, LockAccount(w)
      PROVE  SpokeInv'
  BY <1>9 DEF LockAccount, Continue, TypeOK, WorkInv, LockInv, SpokeInv,
     Status, Outcome, Approving, Rejecting, Checking, dbVars, lockVars, workVars,
     histVars
<1>10. ASSUME NEW w \in Workers, CreditWallet(w)
       PROVE  SpokeInv'
  BY <1>10 DEF CreditWallet, TypeOK, WorkInv, LockInv, SpokeInv, Status,
     Outcome, Approving, Rejecting, Checking, dbVars, lockVars, workVars,
     histVars
<1>11. ASSUME NEW w \in Workers, ApproveRow(w)
       PROVE  SpokeInv'
  BY <1>11 DEF ApproveRow, Rollback, Release, Continue, TypeOK, WorkInv,
     LockInv, SpokeInv, Status, Outcome, Approving, Rejecting, Checking, dbVars,
     lockVars, workVars, histVars
<1>12. ASSUME NEW w \in Workers, CommitApprove(w)
       PROVE  SpokeInv'
  BY <1>12 DEF CommitApprove, Release, TypeOK, WorkInv, LockInv, SpokeInv,
     Status, Outcome, Approving, Rejecting, Checking, dbVars, lockVars, workVars,
     histVars
<1>13. ASSUME NEW w \in Workers, StampAccount(w)
       PROVE  SpokeInv'
  BY <1>13 DEF StampAccount, Continue, TypeOK, WorkInv, LockInv, SpokeInv,
     Status, Outcome, Approving, Rejecting, Checking, dbVars, lockVars, workVars,
     histVars
<1>14. ASSUME NEW w \in Workers, FailWallet(w)
       PROVE  SpokeInv'
  BY <1>14 DEF FailWallet, TypeOK, WorkInv, LockInv, SpokeInv, Status,
     Outcome, Approving, Rejecting, Checking, dbVars, lockVars, workVars,
     histVars
<1>15. ASSUME NEW w \in Workers, RejectRow(w)
       PROVE  SpokeInv'
  BY <1>15 DEF RejectRow, TypeOK, WorkInv, LockInv, SpokeInv, Status, Outcome,
     Approving, Rejecting, Checking, dbVars, lockVars, workVars, histVars
<1>16. ASSUME NEW w \in Workers, NotifyAccount(w)
       PROVE  SpokeInv'
  BY <1>16 DEF NotifyAccount, TypeOK, WorkInv, LockInv, SpokeInv, Status,
     Outcome, Approving, Rejecting, Checking, dbVars, lockVars, workVars,
     histVars
<1>17. ASSUME NEW w \in Workers, AllRejected(w)
       PROVE  SpokeInv'
  BY <1>17 DEF AllRejected, TypeOK, WorkInv, LockInv, SpokeInv, Status,
     Outcome, Approving, Rejecting, Checking, dbVars, lockVars, workVars,
     histVars
<1>18. ASSUME NEW w \in Workers, RefreshRow(w)
       PROVE  SpokeInv'
  BY <1>18 DEF RefreshRow, TypeOK, WorkInv, LockInv, SpokeInv, Status,
     Outcome, Approving, Rejecting, Checking, dbVars, lockVars, workVars,
     histVars
<1>19. ASSUME NEW w \in Workers, CommitReject(w)
       PROVE  SpokeInv'
  BY <1>19 DEF CommitReject, Release, Continue, TypeOK, WorkInv, LockInv,
     SpokeInv, Status, Outcome, Approving, Rejecting, Checking, dbVars, lockVars,
     workVars, histVars
<1>20. ASSUME NEW w \in Workers, WalletError(w)
       PROVE  SpokeInv'
  <2>1. \A t \in Deposits : told[t] \subseteq told'[t]
    <3>1. CASE pc[w] = "credit"
      BY <1>20, <3>1 DEF WalletError, TypeOK
    <3>2. CASE pc[w] = "reject"
      BY <1>20, <3>2 DEF WalletError, TypeOK
    <3>3. QED
      BY <1>20, <3>1, <3>2 DEF WalletError
  <2>2. /\ Release(w)
        /\ \E rest \in SUBSET Deposits : Continue(w, rest)
        /\ UNCHANGED <<dbVars, sawFirst>>
    BY <1>20 DEF WalletError, TypeOK
  <2>3. QED
    BY <2>1, <2>2 DEF Release, Continue, TypeOK, WorkInv, LockInv, SpokeInv,
       Approving, Rejecting, dbVars
<1>21. ASSUME NEW w \in Workers, DbError(w)
       PROVE  SpokeInv'
  BY <1>21 DEF DbError, Rollback, Release, Continue, TypeOK, WorkInv, LockInv,
     SpokeInv, Status, Outcome, Approving, Rejecting, Checking, dbVars, lockVars,
     workVars, histVars
<1>22. ASSUME NEW w \in Workers, Crash(w)
       PROVE  SpokeInv'
  BY <1>22 DEF Crash, Release, Continue, TypeOK, WorkInv, LockInv, SpokeInv,
     Status, Outcome, Approving, Rejecting, Checking, dbVars, lockVars, workVars,
     histVars
<1>23. ASSUME NEW a \in Accounts, UpdateStatus(a)
       PROVE  SpokeInv'
  BY <1>23 DEF UpdateStatus, TypeOK, WorkInv, LockInv, SpokeInv, Status,
     Outcome, Approving, Rejecting, Checking, dbVars, lockVars, workVars,
     histVars
<1>24. CASE UNCHANGED vars
  BY <1>24 DEF vars, TypeOK, WorkInv, LockInv, SpokeInv, Status, Outcome,
     Approving, Rejecting, Checking, dbVars, lockVars, workVars, histVars
<1>25. QED
  BY <1>1, <1>2, <1>3, <1>4, <1>5, <1>6, <1>7, <1>8, <1>9, <1>10, <1>11,
     <1>12, <1>13, <1>14, <1>15, <1>16, <1>17, <1>18, <1>19, <1>20, <1>21, <1>22,
     <1>23, <1>24
     DEF Next, Start, Progress, Approve, Reject, Failure

(* The inductive invariant holds initially and is kept by every step. *)
LEMMA InitDepositInv == Init => DepositInv
  BY DepositAssumption
     DEF Init, DepositInv, TypeOK, WorkInv, LockInv, ApprovalInv, RejectionInv,
         SpokeInv, DecisionToldToWallet, Status, Outcome, Approving, Rejecting, Checking

LEMMA DepositInvariant == Spec => []DepositInv
<1>1. DepositInv /\ [Next]_vars => DepositInv'
  BY StepTypeOK, StepWorkInv, StepLockInv, StepApprovalInv, StepRejectionInv,
     StepSpokeInv, StepDecision DEF DepositInv
<1>2. QED
  BY InitDepositInv, <1>1, PTL DEF Spec

(* Deposit keeps its types, for any sets of deposits, accounts and workers. *)
THEOREM DepositTypeOK == Spec => []TypeOK
<1>1. DepositInv => TypeOK
  BY DEF DepositInv
<1>2. QED
  BY DepositInvariant, <1>1, PTL

(* A confirmed deposit has been credited in the wallet, and a closed one
   reported as failed: approveDeposit and rejectDeposit write after the call. *)
THEOREM DepositDecisionTold == Spec => []DecisionToldToWallet
<1>1. DepositInv => DecisionToldToWallet
  BY DEF DepositInv
<1>2. QED
  BY DepositInvariant, <1>1, PTL

(* Row locks never outlive their transaction. *)
THEOREM DepositLocks == Spec => []LocksMatchTransactions
<1>1. DepositInv => LocksMatchTransactions
  BY DEF DepositInv, LockInv, LocksMatchTransactions, Checking, Rejecting
<1>2. QED
  BY DepositInvariant, <1>1, PTL


-----------------------------------------------------------------------------
(* Action properties *)

(* What holds of a deposit at the step that confirms it. *)
ConfirmStep ==
  \A t \in Deposits :
    status[t] # "CONFIRMED" /\ status'[t] = "CONFIRMED" =>
      ~suspended[OwnerOf[t]] /\ Approvable(t)

(* Only CommitApprove confirms. *)
LEMMA StepConfirm == DepositInv /\ [Next]_vars => ConfirmStep
<1> SUFFICES ASSUME DepositInv, [Next]_vars
             PROVE  ConfirmStep
  OBVIOUS
<1> USE DepositAssumption
<1>1. ASSUME NEW w \in Workers, NEW t \in Deposits, MakeDeposit(w, t)
      PROVE  ConfirmStep
  BY <1>1 DEF MakeDeposit, Begin, ConfirmStep, DepositInv, TypeOK,
     ApprovalInv, dbVars, lockVars, workVars, histVars
<1>2. ASSUME NEW w \in Workers, NEW t \in Deposits, ProcessSyncData(w, t)
      PROVE  ConfirmStep
  BY <1>2 DEF ProcessSyncData, Begin, CallbackReads, ConfirmStep, DepositInv,
     TypeOK, ApprovalInv, dbVars, lockVars, workVars, histVars
<1>3. ASSUME NEW w \in Workers, NEW t \in Deposits, UpdateDepositOrderStatus(w, t)
      PROVE  ConfirmStep
  BY <1>3 DEF UpdateDepositOrderStatus, Begin, ConfirmStep, DepositInv,
     TypeOK, ApprovalInv, dbVars, lockVars, workVars, histVars
<1>4. ASSUME NEW w \in Workers, NEW ids \in SUBSET Deposits, BatchApproveDeposit(w, ids)
      PROVE  ConfirmStep
  BY <1>4 DEF BatchApproveDeposit, Begin, Undecided, ConfirmStep, DepositInv,
     TypeOK, ApprovalInv, dbVars, lockVars, workVars, histVars
<1>5. ASSUME NEW w \in Workers, NEW ids \in SUBSET Deposits, DisapproveDeposit(w, ids)
      PROVE  ConfirmStep
  BY <1>5 DEF DisapproveDeposit, Begin, Undecided, ConfirmStep, DepositInv,
     TypeOK, ApprovalInv, dbVars, lockVars, workVars, histVars
<1>6. ASSUME NEW w \in Workers, MakePGDeposit(w)
      PROVE  ConfirmStep
  BY <1>6 DEF MakePGDeposit, Continue, ConfirmStep, DepositInv, TypeOK,
     ApprovalInv, dbVars, lockVars, workVars, histVars
<1>7. ASSUME NEW w \in Workers, CheckOrderStatus(w)
      PROVE  ConfirmStep
  BY <1>7 DEF CheckOrderStatus, Continue, ConfirmStep, DepositInv, TypeOK,
     ApprovalInv, dbVars, lockVars, workVars, histVars
<1>8. ASSUME NEW w \in Workers, ReadForApprove(w)
      PROVE  ConfirmStep
  BY <1>8 DEF ReadForApprove, Continue, ConfirmStep, DepositInv, TypeOK,
     ApprovalInv, dbVars, lockVars, workVars, histVars
<1>9. ASSUME NEW w \in Workers, LockAccount(w)
      PROVE  ConfirmStep
  BY <1>9 DEF LockAccount, Continue, ConfirmStep, DepositInv, TypeOK,
     ApprovalInv, dbVars, lockVars, workVars, histVars
<1>10. ASSUME NEW w \in Workers, CreditWallet(w)
       PROVE  ConfirmStep
  BY <1>10 DEF CreditWallet, ConfirmStep, DepositInv, TypeOK, ApprovalInv,
     dbVars, lockVars, workVars, histVars
<1>11. ASSUME NEW w \in Workers, ApproveRow(w)
       PROVE  ConfirmStep
  BY <1>11 DEF ApproveRow, Rollback, Release, Continue, ConfirmStep,
     DepositInv, TypeOK, ApprovalInv, dbVars, lockVars, workVars, histVars
<1>12. ASSUME NEW w \in Workers, CommitApprove(w)
       PROVE  ConfirmStep
  BY <1>12 DEF CommitApprove, Release, ConfirmStep, DepositInv, TypeOK,
     ApprovalInv, dbVars, lockVars, workVars, histVars
<1>13. ASSUME NEW w \in Workers, StampAccount(w)
       PROVE  ConfirmStep
  BY <1>13 DEF StampAccount, Continue, ConfirmStep, DepositInv, TypeOK,
     ApprovalInv, dbVars, lockVars, workVars, histVars
<1>14. ASSUME NEW w \in Workers, FailWallet(w)
       PROVE  ConfirmStep
  BY <1>14 DEF FailWallet, ConfirmStep, DepositInv, TypeOK, ApprovalInv,
     dbVars, lockVars, workVars, histVars
<1>15. ASSUME NEW w \in Workers, RejectRow(w)
       PROVE  ConfirmStep
  BY <1>15 DEF RejectRow, ConfirmStep, DepositInv, TypeOK, ApprovalInv,
     dbVars, lockVars, workVars, histVars
<1>16. ASSUME NEW w \in Workers, NotifyAccount(w)
       PROVE  ConfirmStep
  BY <1>16 DEF NotifyAccount, ConfirmStep, DepositInv, TypeOK, ApprovalInv,
     dbVars, lockVars, workVars, histVars
<1>17. ASSUME NEW w \in Workers, AllRejected(w)
       PROVE  ConfirmStep
  BY <1>17 DEF AllRejected, ConfirmStep, DepositInv, TypeOK, ApprovalInv,
     dbVars, lockVars, workVars, histVars
<1>18. ASSUME NEW w \in Workers, RefreshRow(w)
       PROVE  ConfirmStep
  BY <1>18 DEF RefreshRow, ConfirmStep, DepositInv, TypeOK, ApprovalInv,
     dbVars, lockVars, workVars, histVars
<1>19. ASSUME NEW w \in Workers, CommitReject(w)
       PROVE  ConfirmStep
  BY <1>19 DEF CommitReject, Release, Continue, ConfirmStep, DepositInv,
     TypeOK, ApprovalInv, dbVars, lockVars, workVars, histVars
<1>20. ASSUME NEW w \in Workers, WalletError(w)
       PROVE  ConfirmStep
  BY <1>20 DEF WalletError, Release, Continue, ConfirmStep, DepositInv,
     TypeOK, ApprovalInv, dbVars, lockVars, workVars, histVars
<1>21. ASSUME NEW w \in Workers, DbError(w)
       PROVE  ConfirmStep
  BY <1>21 DEF DbError, Rollback, Release, Continue, ConfirmStep, DepositInv,
     TypeOK, ApprovalInv, dbVars, lockVars, workVars, histVars
<1>22. ASSUME NEW w \in Workers, Crash(w)
       PROVE  ConfirmStep
  BY <1>22 DEF Crash, Release, Continue, ConfirmStep, DepositInv, TypeOK,
     ApprovalInv, dbVars, lockVars, workVars, histVars
<1>23. ASSUME NEW a \in Accounts, UpdateStatus(a)
       PROVE  ConfirmStep
  BY <1>23 DEF UpdateStatus, ConfirmStep, DepositInv, TypeOK, ApprovalInv,
     dbVars, lockVars, workVars, histVars
<1>24. CASE UNCHANGED vars
  BY <1>24 DEF vars, ConfirmStep, DepositInv, TypeOK, ApprovalInv, dbVars,
     lockVars, workVars, histVars
<1>25. QED
  BY <1>1, <1>2, <1>3, <1>4, <1>5, <1>6, <1>7, <1>8, <1>9, <1>10, <1>11,
     <1>12, <1>13, <1>14, <1>15, <1>16, <1>17, <1>18, <1>19, <1>20, <1>21, <1>22,
     <1>23, <1>24
     DEF Next, Start, Progress, Approve, Reject, Failure

(* The account lock taken with the SUSPEND check is held to the commit. *)
THEOREM DepositNotWhileSuspended == Spec => NoApprovalWhileSuspended
<1>1. DepositInv /\ [Next]_vars =>
        [\A t \in Deposits :
           status[t] # "CONFIRMED" /\ status'[t] = "CONFIRMED" => ~suspended[OwnerOf[t]]]_vars
  BY StepConfirm DEF ConfirmStep
<1>2. QED
  BY DepositInvariant, <1>1, PTL DEF Spec, NoApprovalWhileSuspended

(* The status checked under the row lock is the committed one at commit. *)
THEOREM DepositApprovesOnlyUndecided == Spec => ApprovesOnlyUndecided
<1>1. DepositInv /\ [Next]_vars =>
        [\A t \in Deposits :
           status[t] # "CONFIRMED" /\ status'[t] = "CONFIRMED" =>
             status[t] = "NEW" \/ (status[t] = "CLOSE" /\ t \in Gateway)]_vars
  BY StepConfirm DEF ConfirmStep, Approvable
<1>2. QED
  BY DepositInvariant, <1>1, PTL DEF Spec, ApprovesOnlyUndecided


(* A step leaves settled deposits settled and the wallet's record of them. *)
SettledStep ==
  \A t \in Deposits : Settled(t) => Settled(t)' /\ told'[t] = told[t]

(* Nobody picks up a settled deposit, and nobody holds it. *)
LEMMA StepSettled == DepositInv /\ [Next]_vars => SettledStep
<1> SUFFICES ASSUME DepositInv, [Next]_vars
             PROVE  SettledStep
  OBVIOUS
<1> USE DepositAssumption
<1>1. ASSUME NEW w \in Workers, NEW t \in Deposits, MakeDeposit(w, t)
      PROVE  SettledStep
  BY <1>1 DEF MakeDeposit, Begin, SettledStep, Settled, Idle, Involved,
     DepositInv, TypeOK, WorkInv, SpokeInv, Status, Outcome, Approving,
     Rejecting, Checking, dbVars, lockVars, workVars, histVars
<1>2. ASSUME NEW w \in Workers, NEW t \in Deposits, ProcessSyncData(w, t)
      PROVE  SettledStep
  BY <1>2 DEF ProcessSyncData, Begin, CallbackReads, SettledStep, Settled,
     Idle, Involved, DepositInv, TypeOK, WorkInv, SpokeInv, Status, Outcome,
     Approving, Rejecting, Checking, dbVars, lockVars, workVars, histVars
<1>3. ASSUME NEW w \in Workers, NEW t \in Deposits, UpdateDepositOrderStatus(w, t)
      PROVE  SettledStep
  BY <1>3 DEF UpdateDepositOrderStatus, Begin, SettledStep, Settled, Idle,
     Involved, DepositInv, TypeOK, WorkInv, SpokeInv, Status, Outcome, Approving,
     Rejecting, Checking, dbVars, lockVars, workVars, histVars
<1>4. ASSUME NEW w \in Workers, NEW ids \in SUBSET Deposits, BatchApproveDeposit(w, ids)
      PROVE  SettledStep
  BY <1>4 DEF BatchApproveDeposit, Begin, Undecided, SettledStep, Settled,
     Idle, Involved, DepositInv, TypeOK, WorkInv, SpokeInv, Status, Outcome,
     Approving, Rejecting, Checking, dbVars, lockVars, workVars, histVars
<1>5. ASSUME NEW w \in Workers, NEW ids \in SUBSET Deposits, DisapproveDeposit(w, ids)
      PROVE  SettledStep
  BY <1>5 DEF DisapproveDeposit, Begin, Undecided, SettledStep, Settled, Idle,
     Involved, DepositInv, TypeOK, WorkInv, SpokeInv, Status, Outcome, Approving,
     Rejecting, Checking, dbVars, lockVars, workVars, histVars
<1>6. ASSUME NEW w \in Workers, MakePGDeposit(w)
      PROVE  SettledStep
  BY <1>6 DEF MakePGDeposit, Continue, SettledStep, Settled, Idle, Involved,
     DepositInv, TypeOK, WorkInv, SpokeInv, Status, Outcome, Approving,
     Rejecting, Checking, dbVars, lockVars, workVars, histVars
<1>7. ASSUME NEW w \in Workers, CheckOrderStatus(w)
      PROVE  SettledStep
  BY <1>7 DEF CheckOrderStatus, Continue, SettledStep, Settled, Idle,
     Involved, DepositInv, TypeOK, WorkInv, SpokeInv, Status, Outcome, Approving,
     Rejecting, Checking, dbVars, lockVars, workVars, histVars
<1>8. ASSUME NEW w \in Workers, ReadForApprove(w)
      PROVE  SettledStep
  BY <1>8 DEF ReadForApprove, Continue, SettledStep, Settled, Idle, Involved,
     DepositInv, TypeOK, WorkInv, SpokeInv, Status, Outcome, Approving,
     Rejecting, Checking, dbVars, lockVars, workVars, histVars
<1>9. ASSUME NEW w \in Workers, LockAccount(w)
      PROVE  SettledStep
  BY <1>9 DEF LockAccount, Continue, SettledStep, Settled, Idle, Involved,
     DepositInv, TypeOK, WorkInv, SpokeInv, Status, Outcome, Approving,
     Rejecting, Checking, dbVars, lockVars, workVars, histVars
<1>10. ASSUME NEW w \in Workers, CreditWallet(w)
       PROVE  SettledStep
  BY <1>10 DEF CreditWallet, SettledStep, Settled, Idle, Involved, DepositInv,
     TypeOK, WorkInv, SpokeInv, Status, Outcome, Approving, Rejecting, Checking,
     dbVars, lockVars, workVars, histVars
<1>11. ASSUME NEW w \in Workers, ApproveRow(w)
       PROVE  SettledStep
  BY <1>11 DEF ApproveRow, Rollback, Release, Continue, SettledStep, Settled,
     Idle, Involved, DepositInv, TypeOK, WorkInv, SpokeInv, Status, Outcome,
     Approving, Rejecting, Checking, dbVars, lockVars, workVars, histVars
<1>12. ASSUME NEW w \in Workers, CommitApprove(w)
       PROVE  SettledStep
  BY <1>12 DEF CommitApprove, Release, SettledStep, Settled, Idle, Involved,
     DepositInv, TypeOK, WorkInv, SpokeInv, Status, Outcome, Approving,
     Rejecting, Checking, dbVars, lockVars, workVars, histVars
<1>13. ASSUME NEW w \in Workers, StampAccount(w)
       PROVE  SettledStep
  BY <1>13 DEF StampAccount, Continue, SettledStep, Settled, Idle, Involved,
     DepositInv, TypeOK, WorkInv, SpokeInv, Status, Outcome, Approving,
     Rejecting, Checking, dbVars, lockVars, workVars, histVars
<1>14. ASSUME NEW w \in Workers, FailWallet(w)
       PROVE  SettledStep
  BY <1>14 DEF FailWallet, SettledStep, Settled, Idle, Involved, DepositInv,
     TypeOK, WorkInv, SpokeInv, Status, Outcome, Approving, Rejecting, Checking,
     dbVars, lockVars, workVars, histVars
<1>15. ASSUME NEW w \in Workers, RejectRow(w)
       PROVE  SettledStep
  BY <1>15 DEF RejectRow, SettledStep, Settled, Idle, Involved, DepositInv,
     TypeOK, WorkInv, SpokeInv, Status, Outcome, Approving, Rejecting, Checking,
     dbVars, lockVars, workVars, histVars
<1>16. ASSUME NEW w \in Workers, NotifyAccount(w)
       PROVE  SettledStep
  BY <1>16 DEF NotifyAccount, SettledStep, Settled, Idle, Involved,
     DepositInv, TypeOK, WorkInv, SpokeInv, Status, Outcome, Approving,
     Rejecting, Checking, dbVars, lockVars, workVars, histVars
<1>17. ASSUME NEW w \in Workers, AllRejected(w)
       PROVE  SettledStep
  BY <1>17 DEF AllRejected, SettledStep, Settled, Idle, Involved, DepositInv,
     TypeOK, WorkInv, SpokeInv, Status, Outcome, Approving, Rejecting, Checking,
     dbVars, lockVars, workVars, histVars
<1>18. ASSUME NEW w \in Workers, RefreshRow(w)
       PROVE  SettledStep
  BY <1>18 DEF RefreshRow, SettledStep, Settled, Idle, Involved, DepositInv,
     TypeOK, WorkInv, SpokeInv, Status, Outcome, Approving, Rejecting, Checking,
     dbVars, lockVars, workVars, histVars
<1>19. ASSUME NEW w \in Workers, CommitReject(w)
       PROVE  SettledStep
  BY <1>19 DEF CommitReject, Release, Continue, SettledStep, Settled, Idle,
     Involved, DepositInv, TypeOK, WorkInv, SpokeInv, Status, Outcome, Approving,
     Rejecting, Checking, dbVars, lockVars, workVars, histVars
<1>20. ASSUME NEW w \in Workers, WalletError(w)
       PROVE  SettledStep
  BY <1>20 DEF WalletError, Release, Continue, SettledStep, Settled, Idle,
     Involved, DepositInv, TypeOK, WorkInv, SpokeInv, Status, Outcome, Approving,
     Rejecting, Checking, dbVars, lockVars, workVars, histVars
<1>21. ASSUME NEW w \in Workers, DbError(w)
       PROVE  SettledStep
  BY <1>21 DEF DbError, Rollback, Release, Continue, SettledStep, Settled,
     Idle, Involved, DepositInv, TypeOK, WorkInv, SpokeInv, Status, Outcome,
     Approving, Rejecting, Checking, dbVars, lockVars, workVars, histVars
<1>22. ASSUME NEW w \in Workers, Crash(w)
       PROVE  SettledStep
  BY <1>22 DEF Crash, Release, Continue, SettledStep, Settled, Idle, Involved,
     DepositInv, TypeOK, WorkInv, SpokeInv, Status, Outcome, Approving,
     Rejecting, Checking, dbVars, lockVars, workVars, histVars
<1>23. ASSUME NEW a \in Accounts, UpdateStatus(a)
       PROVE  SettledStep
  BY <1>23 DEF UpdateStatus, SettledStep, Settled, Idle, Involved, DepositInv,
     TypeOK, WorkInv, SpokeInv, Status, Outcome, Approving, Rejecting, Checking,
     dbVars, lockVars, workVars, histVars
<1>24. CASE UNCHANGED vars
  BY <1>24 DEF vars, SettledStep, Settled, Idle, Involved, DepositInv, TypeOK,
     WorkInv, SpokeInv, Status, Outcome, Approving, Rejecting, Checking, dbVars,
     lockVars, workVars, histVars
<1>25. QED
  BY <1>1, <1>2, <1>3, <1>4, <1>5, <1>6, <1>7, <1>8, <1>9, <1>10, <1>11,
     <1>12, <1>13, <1>14, <1>15, <1>16, <1>17, <1>18, <1>19, <1>20, <1>21, <1>22,
     <1>23, <1>24
     DEF Next, Start, Progress, Approve, Reject, Failure

(* Once a deposit is confirmed and no request holds it, it is final. *)
THEOREM DepositSettledIsFinal == Spec => SettledIsFinal
<1>1. DepositInv /\ [Next]_vars =>
        [\A t \in Deposits : Settled(t) => Settled(t)' /\ told'[t] = told[t]]_vars
  BY StepSettled DEF SettledStep
<1>2. QED
  BY DepositInvariant, <1>1, PTL DEF Spec, SettledIsFinal


-----------------------------------------------------------------------------
(* Refinement *)

LedgerStep == [Ledger!Next]_<<status, told>>

(* Every step is a ledger step or leaves the ledger unchanged. *)
LEMMA StepLedger == DepositInv /\ [Next]_vars => LedgerStep
<1> SUFFICES ASSUME DepositInv, [Next]_vars
             PROVE  LedgerStep
  OBVIOUS
<1> USE DepositAssumption
<1>1. ASSUME NEW w \in Workers, NEW t \in Deposits, MakeDeposit(w, t)
      PROVE  LedgerStep
  <2>1. Ledger!Create(t)
    BY <1>1 DEF MakeDeposit, Begin, Ledger!Create
  <2>2. QED
    BY <2>1 DEF LedgerStep, Ledger!Next
<1>2. ASSUME NEW w \in Workers, NEW t \in Deposits, ProcessSyncData(w, t)
      PROVE  LedgerStep
  BY <1>2 DEF ProcessSyncData, Begin, CallbackReads, LedgerStep, DepositInv,
     TypeOK, dbVars, lockVars, workVars, histVars
<1>3. ASSUME NEW w \in Workers, NEW t \in Deposits, UpdateDepositOrderStatus(w, t)
      PROVE  LedgerStep
  BY <1>3 DEF UpdateDepositOrderStatus, Begin, LedgerStep, DepositInv, TypeOK,
     dbVars, lockVars, workVars, histVars
<1>4. ASSUME NEW w \in Workers, NEW ids \in SUBSET Deposits, BatchApproveDeposit(w, ids)
      PROVE  LedgerStep
  BY <1>4 DEF BatchApproveDeposit, Begin, Undecided, LedgerStep, DepositInv,
     TypeOK, dbVars, lockVars, workVars, histVars
<1>5. ASSUME NEW w \in Workers, NEW ids \in SUBSET Deposits, DisapproveDeposit(w, ids)
      PROVE  LedgerStep
  BY <1>5 DEF DisapproveDeposit, Begin, Undecided, LedgerStep, DepositInv,
     TypeOK, dbVars, lockVars, workVars, histVars
<1>6. ASSUME NEW w \in Workers, MakePGDeposit(w)
      PROVE  LedgerStep
  BY <1>6 DEF MakePGDeposit, Continue, LedgerStep, DepositInv, TypeOK, dbVars,
     lockVars, workVars, histVars
<1>7. ASSUME NEW w \in Workers, CheckOrderStatus(w)
      PROVE  LedgerStep
  BY <1>7 DEF CheckOrderStatus, Continue, LedgerStep, DepositInv, TypeOK,
     dbVars, lockVars, workVars, histVars
<1>8. ASSUME NEW w \in Workers, ReadForApprove(w)
      PROVE  LedgerStep
  BY <1>8 DEF ReadForApprove, Continue, LedgerStep, DepositInv, TypeOK,
     dbVars, lockVars, workVars, histVars
<1>9. ASSUME NEW w \in Workers, LockAccount(w)
      PROVE  LedgerStep
  BY <1>9 DEF LockAccount, Continue, LedgerStep, DepositInv, TypeOK, dbVars,
     lockVars, workVars, histVars
<1>10. ASSUME NEW w \in Workers, CreditWallet(w)
       PROVE  LedgerStep
  <2>1. cur[w] \in Deposits /\ status[cur[w]] # "none"
    BY <1>10, DepositAssumption DEF CreditWallet, DepositInv, WorkInv, Approving
  <2>2. Ledger!Tell(cur[w], "COMPLETED")
    BY <1>10, <2>1 DEF CreditWallet, Ledger!Tell, dbVars
  <2>3. QED
    BY <2>1, <2>2 DEF LedgerStep, Ledger!Next
<1>11. ASSUME NEW w \in Workers, ApproveRow(w)
       PROVE  LedgerStep
  BY <1>11 DEF ApproveRow, Rollback, Release, Continue, LedgerStep,
     DepositInv, TypeOK, dbVars, lockVars, workVars, histVars
<1>12. ASSUME NEW w \in Workers, CommitApprove(w)
       PROVE  LedgerStep
  <2>1. /\ cur[w] \in Deposits
        /\ dirty[w] = {cur[w]}
        /\ Approvable(cur[w])
        /\ "COMPLETED" \in told[cur[w]]
    BY <1>12 DEF CommitApprove, DepositInv, WorkInv, ApprovalInv, Approving
  <2>2. Ledger!Confirm(cur[w])
    BY <1>12, <2>1 DEF CommitApprove, Approvable, Ledger!Confirm, DepositInv, TypeOK
  <2>3. QED
    BY <2>1, <2>2 DEF LedgerStep, Ledger!Next
<1>13. ASSUME NEW w \in Workers, StampAccount(w)
       PROVE  LedgerStep
  BY <1>13 DEF StampAccount, Continue, LedgerStep, DepositInv, TypeOK, dbVars,
     lockVars, workVars, histVars
<1>14. ASSUME NEW w \in Workers, FailWallet(w)
       PROVE  LedgerStep
  <2>1. PICK t \in todo[w] : told' = [told EXCEPT ![t] = @ \cup {"FAILED"}]
    BY <1>14 DEF FailWallet
  <2>2. t \in Deposits /\ status[t] # "none"
    BY DEF DepositInv, TypeOK, WorkInv
  <2>3. Ledger!Tell(t, "FAILED")
    BY <1>14, <2>1, <2>2 DEF FailWallet, Ledger!Tell, dbVars
  <2>4. QED
    BY <2>2, <2>3 DEF LedgerStep, Ledger!Next
<1>15. ASSUME NEW w \in Workers, RejectRow(w)
       PROVE  LedgerStep
  BY <1>15 DEF RejectRow, LedgerStep, DepositInv, TypeOK, dbVars, lockVars,
     workVars, histVars
<1>16. ASSUME NEW w \in Workers, NotifyAccount(w)
       PROVE  LedgerStep
  BY <1>16 DEF NotifyAccount, LedgerStep, DepositInv, TypeOK, dbVars,
     lockVars, workVars, histVars
<1>17. ASSUME NEW w \in Workers, AllRejected(w)
       PROVE  LedgerStep
  BY <1>17 DEF AllRejected, LedgerStep, DepositInv, TypeOK, dbVars, lockVars,
     workVars, histVars
<1>18. ASSUME NEW w \in Workers, RefreshRow(w)
       PROVE  LedgerStep
  BY <1>18 DEF RefreshRow, LedgerStep, DepositInv, TypeOK, dbVars, lockVars,
     workVars, histVars
<1>19. ASSUME NEW w \in Workers, CommitReject(w)
       PROVE  LedgerStep
  <2>1. dirty[w] \in SUBSET Deposits
    BY DEF DepositInv, TypeOK
  <2>2. Ledger!Close(dirty[w])
    BY <1>19, <2>1 DEF CommitReject, Ledger!Close, DepositInv, WorkInv, RejectionInv, Rejecting
  <2>3. QED
    BY <2>1, <2>2 DEF LedgerStep, Ledger!Next
<1>20. ASSUME NEW w \in Workers, WalletError(w)
       PROVE  LedgerStep
  <2>1. PICK t \in Deposits, o \in {{}, {"COMPLETED"}, {"FAILED"}} :
          told' = [told EXCEPT ![t] = @ \cup o] /\ status[t] # "none"
    <3>1. CASE pc[w] = "credit"
      BY <1>20, <3>1 DEF WalletError, DepositInv, TypeOK, WorkInv, Approving
    <3>2. CASE pc[w] = "reject"
      BY <1>20, <3>2 DEF WalletError, DepositInv, TypeOK, WorkInv
    <3>3. QED
      BY <1>20, <3>1, <3>2 DEF WalletError
  <2>2. status' = status
    BY <1>20 DEF WalletError, dbVars
  <2>3. CASE o = {}
    BY <2>1, <2>2, <2>3 DEF LedgerStep, DepositInv, TypeOK
  <2>4. CASE o # {}
    <3>1. \E x \in {"COMPLETED", "FAILED"} : Ledger!Tell(t, x)
      BY <2>1, <2>2, <2>4 DEF Ledger!Tell
    <3>2. QED
      BY <3>1 DEF LedgerStep, Ledger!Next
  <2>5. QED
    BY <2>3, <2>4
<1>21. ASSUME NEW w \in Workers, DbError(w)
       PROVE  LedgerStep
  BY <1>21 DEF DbError, Rollback, Release, Continue, LedgerStep, DepositInv,
     TypeOK, dbVars, lockVars, workVars, histVars
<1>22. ASSUME NEW w \in Workers, Crash(w)
       PROVE  LedgerStep
  BY <1>22 DEF Crash, Release, Continue, LedgerStep, DepositInv, TypeOK,
     dbVars, lockVars, workVars, histVars
<1>23. ASSUME NEW a \in Accounts, UpdateStatus(a)
       PROVE  LedgerStep
  BY <1>23 DEF UpdateStatus, LedgerStep, DepositInv, TypeOK, dbVars, lockVars,
     workVars, histVars
<1>24. CASE UNCHANGED vars
  BY <1>24 DEF vars, LedgerStep, DepositInv, TypeOK, dbVars, lockVars,
     workVars, histVars
<1>25. QED
  BY <1>1, <1>2, <1>3, <1>4, <1>5, <1>6, <1>7, <1>8, <1>9, <1>10, <1>11,
     <1>12, <1>13, <1>14, <1>15, <1>16, <1>17, <1>18, <1>19, <1>20, <1>21, <1>22,
     <1>23, <1>24
     DEF Next, Start, Progress, Approve, Reject, Failure

(* Every behaviour of Deposit is one of the abstract ledger. *)
THEOREM DepositImplementsLedger == Spec => ImplementsLedger
<1>1. Init => Ledger!Init
  BY DEF Init, Ledger!Init
<1>2. DepositInv /\ [Next]_vars => [Ledger!Next]_<<status, told>>
  BY StepLedger DEF LedgerStep
<1>3. QED
  BY DepositInvariant, <1>1, <1>2, PTL DEF Spec, ImplementsLedger, Ledger!Spec

-----------------------------------------------------------------------------
(***************************************************************************)
(* The row and the wallet agree, and an account has a first deposit        *)
(* whenever it has a last one.                                             *)
(***************************************************************************)
(* The deposit behind the transaction of w, none or one. *)
Current(w) == {cur[w]} \ {NoOne}

(* Which deposits a transaction has told the wallet about, by its step:    *)
(* none before an approval has credited, then the one that is approved;    *)
(* in a rejection the rows written so far and the one being written.       *)
Shape(w) ==
  /\ pc[w] \in {"idle", "reject", "refresh"} \cup Checking => cur[w] = NoOne
  /\ pc[w] \in {"idle", "lockAccount", "credit", "stamp"} \cup Checking => spoke[w] = {} /\ dirty[w] = {}
  /\ pc[w] = "approveRow" => spoke[w] = {cur[w]} /\ dirty[w] = {}
  /\ pc[w] = "commitApprove" => spoke[w] = {cur[w]}
  /\ pc[w] = "rejectRow" => spoke[w] = dirty[w] \cup {cur[w]}
  /\ pc[w] \in {"reject", "notify", "refresh"} => spoke[w] = dirty[w]
  /\ pc[w] = "notify" => cur[w] \in spoke[w]
  /\ pc[w] = "refresh" => todo[w] = {}
  /\ todo[w] \cap (spoke[w] \cup Current(w)) = {}

(* Without an incident one request at most is on a deposit. *)
UniqueInv ==
  \A t \in Deposits \ incident : \A w, x \in Workers :
    t \in Involved(w) /\ t \in Involved(x) => w = x

(* What a request has still to decide was undecided when it was read, and  *)
(* without an incident it still is.                                        *)
Pending(w) ==
  /\ \A t \in todo[w] \ incident : status[t] \in {"NEW", "CLOSE"}
  /\ \A t \in Current(w) \ incident : pc[w] # "stamp" => status[t] \in {"NEW", "CLOSE"}

(* What the row says is what the wallet has been told, and nothing else. *)
Agrees(t) ==
  /\ status[t] \in {"none", "NEW"} => told[t] = {}
  /\ status[t] = "CLOSE" => told[t] = {"FAILED"}
  /\ status[t] = "CONFIRMED" /\ t \notin Gateway => told[t] = {"COMPLETED"}

(* The row agrees with the wallet but for the deposits that an open        *)
(* transaction has told the wallet about; for those the wallet is ahead.   *)
AgreeInv ==
  \A t \in Deposits \ incident : (\A w \in Workers : t \notin spoke[w]) => Agrees(t)

Ahead(w) ==
  \A t \in spoke[w] \ incident :
    /\ pc[w] \in Approving /\ t \notin Gateway /\ status[t] = "NEW" => told[t] = {"COMPLETED"}
    /\ pc[w] \in Rejecting => told[t] = {"FAILED"}

(* An approval that saw a first deposit goes on seeing one. *)
Stamps(w) ==
  pc[w] \in {"credit", "approveRow", "commitApprove", "stamp"} /\ ~sawFirst[w] =>
    firstDeposit[OwnerOf[cur[w]]] # NoOne

(* Stamps stays apart: it is needed for the first deposit only. *)
WalletInv ==
  /\ \A w \in Workers : Shape(w) /\ Pending(w) /\ Ahead(w)
  /\ UniqueInv /\ AgreeInv

(* What one request does in a step. *)
Step(w) == Start(w) \/ Progress(w) \/ Failure(w)

-----------------------------------------------------------------------------
(* A step of one request leaves the other requests where they are. *)
LEMMA Frame ==
  ASSUME TypeOK, NEW w \in Workers, Step(w), NEW x \in Workers, x # w
  PROVE  /\ pc'[x] = pc[x] /\ todo'[x] = todo[x] /\ cur'[x] = cur[x]
         /\ dirty'[x] = dirty[x] /\ spoke'[x] = spoke[x] /\ sawFirst'[x] = sawFirst[x]
<1>1. CASE \E d \in Deposits : MakeDeposit(w, d)
  BY <1>1 DEF MakeDeposit, Begin, TypeOK, dbVars, lockVars, workVars, histVars
<1>2. CASE \E d \in Deposits : ProcessSyncData(w, d)
  BY <1>2 DEF ProcessSyncData, Begin, CallbackReads, TypeOK, dbVars, lockVars, workVars,
     histVars
<1>3. CASE \E d \in Deposits : UpdateDepositOrderStatus(w, d)
  BY <1>3 DEF UpdateDepositOrderStatus, Begin, TypeOK, dbVars, lockVars, workVars,
     histVars
<1>4. CASE \E ids \in SUBSET Deposits : BatchApproveDeposit(w, ids)
  BY <1>4 DEF BatchApproveDeposit, Begin, Undecided, TypeOK, dbVars, lockVars, workVars,
     histVars
<1>5. CASE \E ids \in SUBSET Deposits : DisapproveDeposit(w, ids)
  BY <1>5 DEF DisapproveDeposit, Begin, Undecided, TypeOK, dbVars, lockVars, workVars,
     histVars
<1>6. CASE MakePGDeposit(w)
  BY <1>6 DEF MakePGDeposit, Continue, TypeOK, dbVars, lockVars, workVars, histVars
<1>7. CASE CheckOrderStatus(w)
  BY <1>7 DEF CheckOrderStatus, Continue, TypeOK, dbVars, lockVars, workVars, histVars
<1>8. CASE ReadForApprove(w)
  BY <1>8 DEF ReadForApprove, Continue, TypeOK, dbVars, lockVars, workVars, histVars
<1>9. CASE LockAccount(w)
  BY <1>9 DEF LockAccount, Continue, TypeOK, dbVars, lockVars, workVars, histVars
<1>10. CASE CreditWallet(w)
  BY <1>10 DEF CreditWallet, TypeOK, dbVars, lockVars, workVars, histVars
<1>11. CASE ApproveRow(w)
  BY <1>11 DEF ApproveRow, Rollback, Release, Continue, TypeOK, dbVars, lockVars,
     workVars, histVars
<1>12. CASE CommitApprove(w)
  BY <1>12 DEF CommitApprove, Release, TypeOK, dbVars, lockVars, workVars, histVars
<1>13. CASE StampAccount(w)
  BY <1>13 DEF StampAccount, Continue, TypeOK, dbVars, lockVars, workVars, histVars
<1>14. CASE FailWallet(w)
  BY <1>14 DEF FailWallet, TypeOK, dbVars, lockVars, workVars, histVars
<1>15. CASE RejectRow(w)
  BY <1>15 DEF RejectRow, TypeOK, dbVars, lockVars, workVars, histVars
<1>16. CASE NotifyAccount(w)
  BY <1>16 DEF NotifyAccount, TypeOK, dbVars, lockVars, workVars, histVars
<1>17. CASE AllRejected(w)
  BY <1>17 DEF AllRejected, TypeOK, dbVars, lockVars, workVars, histVars
<1>18. CASE RefreshRow(w)
  BY <1>18 DEF RefreshRow, TypeOK, dbVars, lockVars, workVars, histVars
<1>19. CASE CommitReject(w)
  BY <1>19 DEF CommitReject, Release, Continue, TypeOK, dbVars, lockVars, workVars,
     histVars
<1>20. CASE WalletError(w)
  BY <1>20 DEF WalletError, Release, Continue, TypeOK, dbVars, lockVars, workVars,
     histVars
<1>21. CASE DbError(w)
  BY <1>21 DEF DbError, Rollback, Release, Continue, TypeOK, dbVars, lockVars, workVars,
     histVars
<1>22. CASE Crash(w)
  BY <1>22 DEF Crash, Release, Continue, TypeOK, dbVars, lockVars, workVars, histVars
<1>. QED
  BY <1>1, <1>2, <1>3, <1>4, <1>5, <1>6, <1>7, <1>8, <1>9, <1>10, <1>11, <1>12, <1>13,
     <1>14, <1>15, <1>16, <1>17, <1>18, <1>19, <1>20, <1>21, <1>22 DEF Step, Start,
     Progress, Approve, Reject, Failure

(* Every step keeps the shape of its request's transaction. *)
LEMMA StepShape ==
  ASSUME TypeOK, WorkInv, ApprovalInv, NEW w \in Workers, Shape(w), Step(w)
  PROVE  Shape(w)'
<1>. USE DepositAssumption
<1>1. CASE \E d \in Deposits : MakeDeposit(w, d)
  BY <1>1 DEF MakeDeposit, Begin, TypeOK, Shape, Current, Checking, Approving, Rejecting,
     WorkInv, dbVars, lockVars, workVars, histVars
<1>2. CASE \E d \in Deposits : ProcessSyncData(w, d)
  BY <1>2 DEF ProcessSyncData, Begin, CallbackReads, TypeOK, Shape, Current, Checking,
     Approving, Rejecting, WorkInv, dbVars, lockVars, workVars, histVars
<1>3. CASE \E d \in Deposits : UpdateDepositOrderStatus(w, d)
  BY <1>3 DEF UpdateDepositOrderStatus, Begin, TypeOK, Shape, Current, Checking,
     Approving, Rejecting, WorkInv, dbVars, lockVars, workVars, histVars
<1>4. CASE \E ids \in SUBSET Deposits : BatchApproveDeposit(w, ids)
  BY <1>4 DEF BatchApproveDeposit, Begin, Undecided, TypeOK, Shape, Current, Checking,
     Approving, Rejecting, WorkInv, dbVars, lockVars, workVars, histVars
<1>5. CASE \E ids \in SUBSET Deposits : DisapproveDeposit(w, ids)
  <2>1. cur[w] = NoOne /\ spoke[w] = {} /\ dirty[w] = {} /\ UNCHANGED <<cur, spoke, dirty>> /\ pc'[w] = "reject"
    BY <1>5 DEF DisapproveDeposit, Begin, Shape, TypeOK
  <2>. QED
    BY <2>1 DEF Shape, Current, Checking
<1>6. CASE MakePGDeposit(w)
  <2>1. cur[w] = NoOne /\ spoke[w] = {} /\ dirty[w] = {} /\ UNCHANGED <<spoke, dirty>>
    BY <1>6 DEF MakePGDeposit, Shape, Checking, histVars, Continue
  <2>2. cur'[w] = NoOne /\ pc'[w] \in {"idle", "reject"}
    BY <1>6, <2>1 DEF MakePGDeposit, Continue, TypeOK
  <2>. QED
    BY <2>1, <2>2 DEF Shape, Current, Checking
<1>7. CASE CheckOrderStatus(w)
  <2>1. cur[w] = NoOne /\ spoke[w] = {} /\ dirty[w] = {} /\ UNCHANGED <<spoke, dirty>>
    BY <1>7 DEF CheckOrderStatus, Shape, Checking, histVars
  <2>2. cur'[w] = NoOne /\ pc'[w] \in {"idle", "reject", "recheckPG", "recheckBO"}
    BY <1>7, <2>1 DEF CheckOrderStatus, Continue, TypeOK
  <2>. QED
    BY <2>1, <2>2 DEF Shape, Current, Checking
<1>8. CASE ReadForApprove(w)
  BY <1>8 DEF ReadForApprove, Continue, TypeOK, Shape, Current, Checking, Approving,
     Rejecting, WorkInv, dbVars, lockVars, workVars, histVars
<1>9. CASE LockAccount(w)
  BY <1>9 DEF LockAccount, Continue, TypeOK, Shape, Current, Checking, Approving,
     Rejecting, WorkInv, dbVars, lockVars, workVars, histVars
<1>10. CASE CreditWallet(w)
  BY <1>10 DEF CreditWallet, TypeOK, Shape, Current, Checking, Approving, Rejecting,
     WorkInv, dbVars, lockVars, workVars, histVars
<1>11. CASE ApproveRow(w)
  BY <1>11 DEF ApproveRow, Rollback, Release, Continue, TypeOK, Shape, Current, Checking,
     Approving, Rejecting, WorkInv, dbVars, lockVars, workVars, histVars
<1>12. CASE CommitApprove(w)
  BY <1>12 DEF CommitApprove, Release, TypeOK, Shape, Current, Checking, Approving,
     Rejecting, WorkInv, dbVars, lockVars, workVars, histVars
<1>13. CASE StampAccount(w)
  BY <1>13 DEF StampAccount, Continue, TypeOK, Shape, Current, Checking, Approving,
     Rejecting, WorkInv, dbVars, lockVars, workVars, histVars
<1>14. CASE FailWallet(w)
  BY <1>14 DEF FailWallet, TypeOK, Shape, Current, Checking, Approving, Rejecting,
     WorkInv, dbVars, lockVars, workVars, histVars
<1>15. CASE RejectRow(w)
  BY <1>15 DEF RejectRow, TypeOK, Shape, Current, Checking, Approving, Rejecting, WorkInv,
     dbVars, lockVars, workVars, histVars
<1>16. CASE NotifyAccount(w)
  BY <1>16 DEF NotifyAccount, TypeOK, Shape, Current, Checking, Approving, Rejecting,
     WorkInv, dbVars, lockVars, workVars, histVars
<1>17. CASE AllRejected(w)
  BY <1>17 DEF AllRejected, TypeOK, Shape, Current, Checking, Approving, Rejecting,
     WorkInv, dbVars, lockVars, workVars, histVars
<1>18. CASE RefreshRow(w)
  BY <1>18 DEF RefreshRow, TypeOK, Shape, Current, Checking, Approving, Rejecting,
     WorkInv, dbVars, lockVars, workVars, histVars
<1>19. CASE CommitReject(w)
  BY <1>19 DEF CommitReject, Release, Continue, TypeOK, Shape, Current, Checking,
     Approving, Rejecting, WorkInv, dbVars, lockVars, workVars, histVars
<1>20. CASE WalletError(w)
  BY <1>20 DEF WalletError, Release, Continue, TypeOK, Shape, Current, Checking,
     Approving, Rejecting, WorkInv, dbVars, lockVars, workVars, histVars
<1>21. CASE DbError(w)
  BY <1>21 DEF DbError, Rollback, Release, Continue, TypeOK, Shape, Current, Checking,
     Approving, Rejecting, WorkInv, dbVars, lockVars, workVars, histVars
<1>22. CASE Crash(w)
  BY <1>22 DEF Crash, Release, Continue, TypeOK, Shape, Current, Checking, Approving,
     Rejecting, WorkInv, dbVars, lockVars, workVars, histVars
<1>. QED
  BY <1>1, <1>2, <1>3, <1>4, <1>5, <1>6, <1>7, <1>8, <1>9, <1>10, <1>11, <1>12, <1>13,
     <1>14, <1>15, <1>16, <1>17, <1>18, <1>19, <1>20, <1>21, <1>22 DEF Step, Start,
     Progress, Approve, Reject, Failure

(* Only an approval's own transaction stamps the account. *)
LEMMA OnlyStampStamps ==
  ASSUME NEW w \in Workers, Step(w), ~StampAccount(w)
  PROVE  firstDeposit' = firstDeposit /\ lastDeposit' = lastDeposit
<1>1. CASE \E d \in Deposits : MakeDeposit(w, d)
  BY <1>1 DEF MakeDeposit, Begin, dbVars, lockVars, workVars, histVars
<1>2. CASE \E d \in Deposits : ProcessSyncData(w, d)
  BY <1>2 DEF ProcessSyncData, Begin, CallbackReads, dbVars, lockVars, workVars, histVars
<1>3. CASE \E d \in Deposits : UpdateDepositOrderStatus(w, d)
  BY <1>3 DEF UpdateDepositOrderStatus, Begin, dbVars, lockVars, workVars, histVars
<1>4. CASE \E ids \in SUBSET Deposits : BatchApproveDeposit(w, ids)
  BY <1>4 DEF BatchApproveDeposit, Begin, Undecided, dbVars, lockVars, workVars, histVars
<1>5. CASE \E ids \in SUBSET Deposits : DisapproveDeposit(w, ids)
  BY <1>5 DEF DisapproveDeposit, Begin, Undecided, dbVars, lockVars, workVars, histVars
<1>6. CASE MakePGDeposit(w)
  BY <1>6 DEF MakePGDeposit, Continue, dbVars, lockVars, workVars, histVars
<1>7. CASE CheckOrderStatus(w)
  BY <1>7 DEF CheckOrderStatus, Continue, dbVars, lockVars, workVars, histVars
<1>8. CASE ReadForApprove(w)
  BY <1>8 DEF ReadForApprove, Continue, dbVars, lockVars, workVars, histVars
<1>9. CASE LockAccount(w)
  BY <1>9 DEF LockAccount, Continue, dbVars, lockVars, workVars, histVars
<1>10. CASE CreditWallet(w)
  BY <1>10 DEF CreditWallet, dbVars, lockVars, workVars, histVars
<1>11. CASE ApproveRow(w)
  BY <1>11 DEF ApproveRow, Rollback, Release, Continue, dbVars, lockVars, workVars,
     histVars
<1>12. CASE CommitApprove(w)
  BY <1>12 DEF CommitApprove, Release, dbVars, lockVars, workVars, histVars
<1>13. CASE StampAccount(w)
  BY <1>13 DEF StampAccount, Continue, dbVars, lockVars, workVars, histVars
<1>14. CASE FailWallet(w)
  BY <1>14 DEF FailWallet, dbVars, lockVars, workVars, histVars
<1>15. CASE RejectRow(w)
  BY <1>15 DEF RejectRow, dbVars, lockVars, workVars, histVars
<1>16. CASE NotifyAccount(w)
  BY <1>16 DEF NotifyAccount, dbVars, lockVars, workVars, histVars
<1>17. CASE AllRejected(w)
  BY <1>17 DEF AllRejected, dbVars, lockVars, workVars, histVars
<1>18. CASE RefreshRow(w)
  BY <1>18 DEF RefreshRow, dbVars, lockVars, workVars, histVars
<1>19. CASE CommitReject(w)
  BY <1>19 DEF CommitReject, Release, Continue, dbVars, lockVars, workVars, histVars
<1>20. CASE WalletError(w)
  BY <1>20 DEF WalletError, Release, Continue, dbVars, lockVars, workVars, histVars
<1>21. CASE DbError(w)
  BY <1>21 DEF DbError, Rollback, Release, Continue, dbVars, lockVars, workVars, histVars
<1>22. CASE Crash(w)
  BY <1>22 DEF Crash, Release, Continue, dbVars, lockVars, workVars, histVars
<1>. QED
  BY <1>1, <1>2, <1>3, <1>4, <1>5, <1>6, <1>7, <1>8, <1>9, <1>10, <1>11, <1>12, <1>13,
     <1>14, <1>15, <1>16, <1>17, <1>18, <1>19, <1>20, <1>21, <1>22 DEF Step, Start,
     Progress, Approve, Reject, Failure

(* Who saw a first deposit under the lock goes on seeing one. *)
LEMMA StepStamps ==
  ASSUME TypeOK, WorkInv, NEW w \in Workers, Stamps(w), Step(w)
  PROVE  Stamps(w)'
<1>. USE DepositAssumption
<1>1. CASE \E d \in Deposits : MakeDeposit(w, d)
  BY <1>1 DEF MakeDeposit, Begin, TypeOK, Stamps, Checking, Approving, Rejecting, WorkInv,
     dbVars, lockVars, workVars, histVars
<1>2. CASE \E d \in Deposits : ProcessSyncData(w, d)
  BY <1>2 DEF ProcessSyncData, Begin, CallbackReads, TypeOK, Stamps, Checking, Approving,
     Rejecting, WorkInv, dbVars, lockVars, workVars, histVars
<1>3. CASE \E d \in Deposits : UpdateDepositOrderStatus(w, d)
  BY <1>3 DEF UpdateDepositOrderStatus, Begin, TypeOK, Stamps, Checking, Approving,
     Rejecting, WorkInv, dbVars, lockVars, workVars, histVars
<1>4. CASE \E ids \in SUBSET Deposits : BatchApproveDeposit(w, ids)
  BY <1>4 DEF BatchApproveDeposit, Begin, Undecided, TypeOK, Stamps, Checking, Approving,
     Rejecting, WorkInv, dbVars, lockVars, workVars, histVars
<1>5. CASE \E ids \in SUBSET Deposits : DisapproveDeposit(w, ids)
  BY <1>5 DEF DisapproveDeposit, Begin, Undecided, TypeOK, Stamps, Checking, Approving,
     Rejecting, WorkInv, dbVars, lockVars, workVars, histVars
<1>6. CASE MakePGDeposit(w)
  BY <1>6 DEF MakePGDeposit, Continue, TypeOK, Stamps, Checking, Approving, Rejecting,
     WorkInv, dbVars, lockVars, workVars, histVars
<1>7. CASE CheckOrderStatus(w)
  BY <1>7 DEF CheckOrderStatus, Continue, TypeOK, Stamps, Checking, Approving, Rejecting,
     WorkInv, dbVars, lockVars, workVars, histVars
<1>8. CASE ReadForApprove(w)
  BY <1>8 DEF ReadForApprove, Continue, TypeOK, Stamps, Checking, Approving, Rejecting,
     WorkInv, dbVars, lockVars, workVars, histVars
<1>9. CASE LockAccount(w)
  <2>1. CASE suspended[OwnerOf[cur[w]]]
    BY <1>9, <2>1 DEF LockAccount, Continue, TypeOK, Stamps
  <2>2. CASE ~suspended[OwnerOf[cur[w]]]
    <3>1. sawFirst'[w] = (firstDeposit[OwnerOf[cur[w]]] = NoOne) /\ UNCHANGED <<cur, firstDeposit>>
      BY <1>9, <2>2 DEF LockAccount, TypeOK, dbVars
    <3>. QED
      BY <3>1 DEF Stamps
  <2>. QED
    BY <2>1, <2>2
<1>10. CASE CreditWallet(w)
  BY <1>10 DEF CreditWallet, TypeOK, Stamps, Checking, Approving, Rejecting, WorkInv,
     dbVars, lockVars, workVars, histVars
<1>11. CASE ApproveRow(w)
  BY <1>11 DEF ApproveRow, Rollback, Release, Continue, TypeOK, Stamps, Checking,
     Approving, Rejecting, WorkInv, dbVars, lockVars, workVars, histVars
<1>12. CASE CommitApprove(w)
  BY <1>12 DEF CommitApprove, Release, TypeOK, Stamps, Checking, Approving, Rejecting,
     WorkInv, dbVars, lockVars, workVars, histVars
<1>13. CASE StampAccount(w)
  BY <1>13 DEF StampAccount, Continue, TypeOK, Stamps, Checking, Approving, Rejecting,
     WorkInv, dbVars, lockVars, workVars, histVars
<1>14. CASE FailWallet(w)
  BY <1>14 DEF FailWallet, TypeOK, Stamps, Checking, Approving, Rejecting, WorkInv,
     dbVars, lockVars, workVars, histVars
<1>15. CASE RejectRow(w)
  BY <1>15 DEF RejectRow, TypeOK, Stamps, Checking, Approving, Rejecting, WorkInv, dbVars,
     lockVars, workVars, histVars
<1>16. CASE NotifyAccount(w)
  BY <1>16 DEF NotifyAccount, TypeOK, Stamps, Checking, Approving, Rejecting, WorkInv,
     dbVars, lockVars, workVars, histVars
<1>17. CASE AllRejected(w)
  BY <1>17 DEF AllRejected, TypeOK, Stamps, Checking, Approving, Rejecting, WorkInv,
     dbVars, lockVars, workVars, histVars
<1>18. CASE RefreshRow(w)
  BY <1>18 DEF RefreshRow, TypeOK, Stamps, Checking, Approving, Rejecting, WorkInv,
     dbVars, lockVars, workVars, histVars
<1>19. CASE CommitReject(w)
  BY <1>19 DEF CommitReject, Release, Continue, TypeOK, Stamps, Checking, Approving,
     Rejecting, WorkInv, dbVars, lockVars, workVars, histVars
<1>20. CASE WalletError(w)
  BY <1>20 DEF WalletError, Release, Continue, TypeOK, Stamps, Checking, Approving,
     Rejecting, WorkInv, dbVars, lockVars, workVars, histVars
<1>21. CASE DbError(w)
  BY <1>21 DEF DbError, Rollback, Release, Continue, TypeOK, Stamps, Checking, Approving,
     Rejecting, WorkInv, dbVars, lockVars, workVars, histVars
<1>22. CASE Crash(w)
  BY <1>22 DEF Crash, Release, Continue, TypeOK, Stamps, Checking, Approving, Rejecting,
     WorkInv, dbVars, lockVars, workVars, histVars
<1>. QED
  BY <1>1, <1>2, <1>3, <1>4, <1>5, <1>6, <1>7, <1>8, <1>9, <1>10, <1>11, <1>12, <1>13,
     <1>14, <1>15, <1>16, <1>17, <1>18, <1>19, <1>20, <1>21, <1>22 DEF Step, Start,
     Progress, Approve, Reject, Failure

-----------------------------------------------------------------------------
(* A request is on rows that are there. *)
LEMMA InvolvedIsThere ==
  ASSUME WorkInv, NEW w \in Workers, Shape(w), NEW t \in Involved(w), TypeOK
  PROVE  status[t] # "none" /\ t \in Deposits
<1>1. spoke[w] \subseteq dirty[w] \cup Current(w)
  BY DepositAssumption DEF Shape, Current, TypeOK, WorkInv, Checking, Approving, Rejecting
<1>. QED
  BY <1>1 DEF Involved, Current, WorkInv, TypeOK

(* The rows that a transaction has written are among those. *)
LEMMA DirtyInvolved ==
  ASSUME SpokeInv, NEW w \in Workers
  PROVE  dirty[w] \subseteq spoke[w] /\ spoke[w] \subseteq Involved(w)
BY DEF SpokeInv, Involved

(* A request leaves no incident behind, and what it takes on is taken on   *)
(* without an incident only when no other request is on it.                *)
LEMMA StepInvolved ==
  ASSUME TypeOK, WorkInv, NEW w \in Workers, Shape(w), Step(w)
  PROVE  /\ incident \subseteq incident'
         /\ \A t \in Involved(w)' \ incident' :
              t \in Involved(w) \/ \A x \in Workers \ {w} : t \notin Involved(x)
<1>. DEFINE Goal == /\ incident \subseteq incident'
                    /\ \A t \in Involved(w)' \ incident' :
                         t \in Involved(w) \/ \A x \in Workers \ {w} : t \notin Involved(x)
<1>. SUFFICES Goal
  OBVIOUS
<1>b. ASSUME NEW ids, NEW work, NEW pt, Begin(w, ids, work, pt)
      PROVE  Goal
  <2>1. pc[w] = "idle" /\ cur'[w] = NoOne /\ spoke'[w] = {} /\ todo'[w] = work
    BY <1>b DEF Begin, Shape, TypeOK
  <2>2. Involved(w)' = work
    BY <2>1 DEF Involved
  <2>. QED
    BY <1>b, <2>2 DEF Begin
<1>i. ASSUME incident \subseteq incident', Involved(w)' \subseteq Involved(w)
      PROVE  Goal
  BY <1>i
<1>1. CASE \E d \in Deposits : MakeDeposit(w, d)
  BY <1>1, <1>b DEF MakeDeposit
<1>2. CASE \E d \in Deposits : ProcessSyncData(w, d)
  BY <1>2, <1>b DEF ProcessSyncData
<1>3. CASE \E d \in Deposits : UpdateDepositOrderStatus(w, d)
  BY <1>3, <1>b DEF UpdateDepositOrderStatus
<1>4. CASE \E ids \in SUBSET Deposits : BatchApproveDeposit(w, ids)
  BY <1>4, <1>b DEF BatchApproveDeposit
<1>5. CASE \E ids \in SUBSET Deposits : DisapproveDeposit(w, ids)
  BY <1>5, <1>b DEF DisapproveDeposit
<1>6. CASE MakePGDeposit(w)
  BY <1>6, <1>i, DepositAssumption DEF MakePGDeposit, Continue, Involved, TypeOK, dbVars,
     lockVars, workVars, histVars
<1>7. CASE CheckOrderStatus(w)
  BY <1>7, <1>i, DepositAssumption DEF CheckOrderStatus, Continue, Involved, TypeOK,
     dbVars, lockVars, workVars, histVars
<1>8. CASE ReadForApprove(w)
  BY <1>8, <1>i, DepositAssumption DEF ReadForApprove, Continue, Involved, TypeOK, dbVars,
     lockVars, workVars, histVars
<1>9. CASE LockAccount(w)
  BY <1>9, <1>i, DepositAssumption DEF LockAccount, Continue, Involved, TypeOK, dbVars,
     lockVars, workVars, histVars
<1>10. CASE CreditWallet(w)
  BY <1>10, <1>i, DepositAssumption DEF CreditWallet, Involved, TypeOK, WorkInv,
     Approving, dbVars, lockVars, workVars, histVars
<1>11. CASE ApproveRow(w)
  BY <1>11, <1>i, DepositAssumption DEF ApproveRow, Rollback, Release, Continue, Involved,
     TypeOK, dbVars, lockVars, workVars, histVars
<1>12. CASE CommitApprove(w)
  BY <1>12, <1>i, DepositAssumption DEF CommitApprove, Release, Involved, TypeOK, dbVars,
     lockVars, workVars, histVars
<1>13. CASE StampAccount(w)
  BY <1>13, <1>i, DepositAssumption DEF StampAccount, Continue, Involved, TypeOK, dbVars,
     lockVars, workVars, histVars
<1>14. CASE FailWallet(w)
  BY <1>14, <1>i, DepositAssumption DEF FailWallet, Involved, TypeOK, dbVars, lockVars,
     workVars, histVars
<1>15. CASE RejectRow(w)
  BY <1>15, <1>i, DepositAssumption DEF RejectRow, Involved, TypeOK, dbVars, lockVars,
     workVars, histVars
<1>16. CASE NotifyAccount(w)
  BY <1>16, <1>i, DepositAssumption DEF NotifyAccount, Involved, TypeOK, dbVars, lockVars,
     workVars, histVars
<1>17. CASE AllRejected(w)
  BY <1>17, <1>i, DepositAssumption DEF AllRejected, Involved, TypeOK, dbVars, lockVars,
     workVars, histVars
<1>18. CASE RefreshRow(w)
  BY <1>18, <1>i, DepositAssumption DEF RefreshRow, Involved, TypeOK, dbVars, lockVars,
     workVars, histVars
<1>19. CASE CommitReject(w)
  BY <1>19, <1>i, DepositAssumption DEF CommitReject, Release, Continue, Involved, TypeOK,
     dbVars, lockVars, workVars, histVars
<1>20. CASE WalletError(w)
  BY <1>20, <1>i, DepositAssumption DEF WalletError, Release, Continue, Involved, TypeOK,
     dbVars, lockVars, workVars, histVars
<1>21. CASE DbError(w)
  BY <1>21, <1>i, DepositAssumption DEF DbError, Rollback, Release, Continue, Involved,
     TypeOK, dbVars, lockVars, workVars, histVars
<1>22. CASE Crash(w)
  BY <1>22, <1>i, DepositAssumption DEF Crash, Release, Continue, Involved, TypeOK,
     dbVars, lockVars, workVars, histVars
<1>. QED
  BY <1>1, <1>2, <1>3, <1>4, <1>5, <1>6, <1>7, <1>8, <1>9, <1>10, <1>11, <1>12, <1>13,
     <1>14, <1>15, <1>16, <1>17, <1>18, <1>19, <1>20, <1>21, <1>22 DEF Step, Start,
     Progress, Approve, Reject, Failure

(* What one step does to the rows: a new one, or the rows of a commit. *)
LEMMA StepStatus ==
  ASSUME TypeOK, NEW w \in Workers, Step(w), NEW t \in Deposits, status'[t] # status[t]
  PROVE  \/ status[t] = "none" /\ status'[t] = "NEW"
         \/ pc[w] = "commitApprove" /\ t \in dirty[w] /\ status'[t] = "CONFIRMED"
         \/ pc[w] = "refresh" /\ t \in dirty[w] /\ status'[t] = "CLOSE"
<1>1. CASE \E d \in Deposits : MakeDeposit(w, d)
  BY <1>1 DEF MakeDeposit, Begin, TypeOK, dbVars, lockVars, workVars, histVars
<1>2. CASE \E d \in Deposits : ProcessSyncData(w, d)
  BY <1>2 DEF ProcessSyncData, Begin, CallbackReads, TypeOK, dbVars, lockVars, workVars,
     histVars
<1>3. CASE \E d \in Deposits : UpdateDepositOrderStatus(w, d)
  BY <1>3 DEF UpdateDepositOrderStatus, Begin, TypeOK, dbVars, lockVars, workVars,
     histVars
<1>4. CASE \E ids \in SUBSET Deposits : BatchApproveDeposit(w, ids)
  BY <1>4 DEF BatchApproveDeposit, Begin, Undecided, TypeOK, dbVars, lockVars, workVars,
     histVars
<1>5. CASE \E ids \in SUBSET Deposits : DisapproveDeposit(w, ids)
  BY <1>5 DEF DisapproveDeposit, Begin, Undecided, TypeOK, dbVars, lockVars, workVars,
     histVars
<1>6. CASE MakePGDeposit(w)
  BY <1>6 DEF MakePGDeposit, Continue, TypeOK, dbVars, lockVars, workVars, histVars
<1>7. CASE CheckOrderStatus(w)
  BY <1>7 DEF CheckOrderStatus, Continue, TypeOK, dbVars, lockVars, workVars, histVars
<1>8. CASE ReadForApprove(w)
  BY <1>8 DEF ReadForApprove, Continue, TypeOK, dbVars, lockVars, workVars, histVars
<1>9. CASE LockAccount(w)
  BY <1>9 DEF LockAccount, Continue, TypeOK, dbVars, lockVars, workVars, histVars
<1>10. CASE CreditWallet(w)
  BY <1>10 DEF CreditWallet, TypeOK, dbVars, lockVars, workVars, histVars
<1>11. CASE ApproveRow(w)
  BY <1>11 DEF ApproveRow, Rollback, Release, Continue, TypeOK, dbVars, lockVars,
     workVars, histVars
<1>12. CASE CommitApprove(w)
  BY <1>12 DEF CommitApprove, Release, TypeOK, dbVars, lockVars, workVars, histVars
<1>13. CASE StampAccount(w)
  BY <1>13 DEF StampAccount, Continue, TypeOK, dbVars, lockVars, workVars, histVars
<1>14. CASE FailWallet(w)
  BY <1>14 DEF FailWallet, TypeOK, dbVars, lockVars, workVars, histVars
<1>15. CASE RejectRow(w)
  BY <1>15 DEF RejectRow, TypeOK, dbVars, lockVars, workVars, histVars
<1>16. CASE NotifyAccount(w)
  BY <1>16 DEF NotifyAccount, TypeOK, dbVars, lockVars, workVars, histVars
<1>17. CASE AllRejected(w)
  BY <1>17 DEF AllRejected, TypeOK, dbVars, lockVars, workVars, histVars
<1>18. CASE RefreshRow(w)
  BY <1>18 DEF RefreshRow, TypeOK, dbVars, lockVars, workVars, histVars
<1>19. CASE CommitReject(w)
  BY <1>19 DEF CommitReject, Release, Continue, TypeOK, dbVars, lockVars, workVars,
     histVars
<1>20. CASE WalletError(w)
  BY <1>20 DEF WalletError, Release, Continue, TypeOK, dbVars, lockVars, workVars,
     histVars
<1>21. CASE DbError(w)
  BY <1>21 DEF DbError, Rollback, Release, Continue, TypeOK, dbVars, lockVars, workVars,
     histVars
<1>22. CASE Crash(w)
  BY <1>22 DEF Crash, Release, Continue, TypeOK, dbVars, lockVars, workVars, histVars
<1>. QED
  BY <1>1, <1>2, <1>3, <1>4, <1>5, <1>6, <1>7, <1>8, <1>9, <1>10, <1>11, <1>12, <1>13,
     <1>14, <1>15, <1>16, <1>17, <1>18, <1>19, <1>20, <1>21, <1>22 DEF Step, Start,
     Progress, Approve, Reject, Failure

(* What one step tells the wallet. *)
LEMMA StepTold ==
  ASSUME TypeOK, WorkInv, NEW w \in Workers, Step(w), NEW t \in Deposits, told'[t] # told[t]
  PROVE  \/ CreditWallet(w) /\ t = cur[w]
         \/ FailWallet(w) /\ t \in todo[w]
         \/ t \in incident'
<1>1. CASE \E d \in Deposits : MakeDeposit(w, d)
  BY <1>1 DEF MakeDeposit, Begin, TypeOK, dbVars, lockVars, workVars, histVars
<1>2. CASE \E d \in Deposits : ProcessSyncData(w, d)
  BY <1>2 DEF ProcessSyncData, Begin, CallbackReads, TypeOK, dbVars, lockVars, workVars,
     histVars
<1>3. CASE \E d \in Deposits : UpdateDepositOrderStatus(w, d)
  BY <1>3 DEF UpdateDepositOrderStatus, Begin, TypeOK, dbVars, lockVars, workVars,
     histVars
<1>4. CASE \E ids \in SUBSET Deposits : BatchApproveDeposit(w, ids)
  BY <1>4 DEF BatchApproveDeposit, Begin, Undecided, TypeOK, dbVars, lockVars, workVars,
     histVars
<1>5. CASE \E ids \in SUBSET Deposits : DisapproveDeposit(w, ids)
  BY <1>5 DEF DisapproveDeposit, Begin, Undecided, TypeOK, dbVars, lockVars, workVars,
     histVars
<1>6. CASE MakePGDeposit(w)
  BY <1>6 DEF MakePGDeposit, Continue, TypeOK, dbVars, lockVars, workVars, histVars
<1>7. CASE CheckOrderStatus(w)
  BY <1>7 DEF CheckOrderStatus, Continue, TypeOK, dbVars, lockVars, workVars, histVars
<1>8. CASE ReadForApprove(w)
  BY <1>8 DEF ReadForApprove, Continue, TypeOK, dbVars, lockVars, workVars, histVars
<1>9. CASE LockAccount(w)
  BY <1>9 DEF LockAccount, Continue, TypeOK, dbVars, lockVars, workVars, histVars
<1>10. CASE CreditWallet(w)
  BY <1>10 DEF CreditWallet, TypeOK, dbVars, lockVars, workVars, histVars
<1>11. CASE ApproveRow(w)
  BY <1>11 DEF ApproveRow, Rollback, Release, Continue, TypeOK, dbVars, lockVars,
     workVars, histVars
<1>12. CASE CommitApprove(w)
  BY <1>12 DEF CommitApprove, Release, TypeOK, dbVars, lockVars, workVars, histVars
<1>13. CASE StampAccount(w)
  BY <1>13 DEF StampAccount, Continue, TypeOK, dbVars, lockVars, workVars, histVars
<1>14. CASE FailWallet(w)
  BY <1>14 DEF FailWallet, TypeOK, dbVars, lockVars, workVars, histVars
<1>15. CASE RejectRow(w)
  BY <1>15 DEF RejectRow, TypeOK, dbVars, lockVars, workVars, histVars
<1>16. CASE NotifyAccount(w)
  BY <1>16 DEF NotifyAccount, TypeOK, dbVars, lockVars, workVars, histVars
<1>17. CASE AllRejected(w)
  BY <1>17 DEF AllRejected, TypeOK, dbVars, lockVars, workVars, histVars
<1>18. CASE RefreshRow(w)
  BY <1>18 DEF RefreshRow, TypeOK, dbVars, lockVars, workVars, histVars
<1>19. CASE CommitReject(w)
  BY <1>19 DEF CommitReject, Release, Continue, TypeOK, dbVars, lockVars, workVars,
     histVars
<1>20. CASE WalletError(w)
  BY <1>20 DEF WalletError, Release, Continue, TypeOK, dbVars, lockVars, workVars,
     histVars
<1>21. CASE DbError(w)
  BY <1>21 DEF DbError, Rollback, Release, Continue, TypeOK, dbVars, lockVars, workVars,
     histVars
<1>22. CASE Crash(w)
  BY <1>22 DEF Crash, Release, Continue, TypeOK, dbVars, lockVars, workVars, histVars
<1>. QED
  BY <1>1, <1>2, <1>3, <1>4, <1>5, <1>6, <1>7, <1>8, <1>9, <1>10, <1>11, <1>12, <1>13,
     <1>14, <1>15, <1>16, <1>17, <1>18, <1>19, <1>20, <1>21, <1>22 DEF Step, Start,
     Progress, Approve, Reject, Failure

(* Without an incident one request at most stays on a deposit. *)
LEMMA StepUnique ==
  ASSUME TypeOK, WorkInv, NEW w \in Workers, Shape(w), UniqueInv, Step(w)
  PROVE  UniqueInv'
<1>1. \A x \in Workers \ {w} : Involved(x)' = Involved(x)
  BY Frame DEF Involved
<1>2. /\ incident \subseteq incident'
      /\ \A t \in Involved(w)' \ incident' :
           t \in Involved(w) \/ \A x \in Workers \ {w} : t \notin Involved(x)
  BY StepInvolved
<1>. SUFFICES ASSUME NEW t \in Deposits \ incident', NEW x \in Workers, NEW y \in Workers,
                     t \in Involved(x)', t \in Involved(y)', x # y
              PROVE  FALSE
  BY DEF UniqueInv
<1>3. CASE x # w /\ y # w
  BY <1>1, <1>2, <1>3 DEF UniqueInv
<1>4. CASE x = w
  BY <1>1, <1>2, <1>4 DEF UniqueInv
<1>5. CASE y = w
  BY <1>1, <1>2, <1>5 DEF UniqueInv
<1>. QED
  BY <1>3, <1>4, <1>5

(* Another request keeps its own undecided rows: no commit of w is on them. *)
LEMMA OtherPending ==
  ASSUME TypeOK, WorkInv, SpokeInv, NEW w \in Workers, Shape(w), UniqueInv, Step(w),
         NEW x \in Workers, x # w, Shape(x), Pending(x)
  PROVE  Pending(x)'
<1>1. /\ pc'[x] = pc[x] /\ todo'[x] = todo[x] /\ cur'[x] = cur[x]
      /\ incident \subseteq incident' /\ Current(x)' = Current(x)
  BY Frame, StepInvolved DEF Current
<1>2. ASSUME NEW t \in (todo[x] \cup Current(x)) \ incident
      PROVE  status'[t] = status[t] \/ status'[t] \in {"NEW", "CLOSE"}
  <2>1. t \in Involved(x) /\ t \in Deposits
    BY <1>2 DEF Involved, Current, TypeOK
  <2>2. t \notin Involved(w)
    BY <1>2, <2>1 DEF UniqueInv
  <2>3. pc[w] = "commitApprove" => t \notin dirty[w]
    BY <2>2, DirtyInvolved
  <2>. QED
    BY <2>1, <2>3, StepStatus
<1>. QED
  BY <1>1, <1>2 DEF Pending

(* The request's own rows stay undecided until it commits. *)
LEMMA OwnPending ==
  ASSUME TypeOK, WorkInv, ApprovalInv, NEW w \in Workers, Shape(w), Pending(w), Step(w)
  PROVE  Pending(w)'
<1>. USE DepositAssumption
<1>a. incident \subseteq incident'
  BY StepInvolved
<1>1. CASE \E d \in Deposits : MakeDeposit(w, d)
  BY <1>1, <1>a DEF MakeDeposit, Begin, TypeOK, Pending, Shape, Current, Checking,
     Approving, Rejecting, WorkInv, dbVars, lockVars, workVars, histVars
<1>2. CASE \E d \in Deposits : ProcessSyncData(w, d)
  BY <1>2, <1>a DEF ProcessSyncData, Begin, CallbackReads, TypeOK, Pending, Shape,
     Current, Checking, Approving, Rejecting, WorkInv, dbVars, lockVars, workVars,
     histVars
<1>3. CASE \E d \in Deposits : UpdateDepositOrderStatus(w, d)
  BY <1>3, <1>a DEF UpdateDepositOrderStatus, Begin, TypeOK, Pending, Shape, Current,
     Checking, Approving, Rejecting, WorkInv, dbVars, lockVars, workVars, histVars
<1>4. CASE \E ids \in SUBSET Deposits : BatchApproveDeposit(w, ids)
  BY <1>4, <1>a DEF BatchApproveDeposit, Begin, Undecided, TypeOK, Pending, Shape,
     Current, Checking, Approving, Rejecting, WorkInv, dbVars, lockVars, workVars,
     histVars
<1>5. CASE \E ids \in SUBSET Deposits : DisapproveDeposit(w, ids)
  BY <1>5, <1>a DEF DisapproveDeposit, Begin, Undecided, TypeOK, Pending, Shape, Current,
     Checking, Approving, Rejecting, WorkInv, dbVars, lockVars, workVars, histVars
<1>6. CASE MakePGDeposit(w)
  BY <1>6, <1>a DEF MakePGDeposit, Continue, TypeOK, Pending, Shape, Current, Checking,
     Approving, Rejecting, WorkInv, dbVars, lockVars, workVars, histVars
<1>7. CASE CheckOrderStatus(w)
  BY <1>7, <1>a DEF CheckOrderStatus, Continue, TypeOK, Pending, Shape, Current, Checking,
     Approving, Rejecting, WorkInv, dbVars, lockVars, workVars, histVars
<1>8. CASE ReadForApprove(w)
  BY <1>8, <1>a DEF ReadForApprove, Continue, TypeOK, Pending, Shape, Current, Checking,
     Approving, Rejecting, WorkInv, dbVars, lockVars, workVars, histVars
<1>9. CASE LockAccount(w)
  BY <1>9, <1>a DEF LockAccount, Continue, TypeOK, Pending, Shape, Current, Checking,
     Approving, Rejecting, WorkInv, dbVars, lockVars, workVars, histVars
<1>10. CASE CreditWallet(w)
  BY <1>10, <1>a DEF CreditWallet, TypeOK, Pending, Shape, Current, Checking, Approving,
     Rejecting, WorkInv, dbVars, lockVars, workVars, histVars
<1>11. CASE ApproveRow(w)
  BY <1>11, <1>a DEF ApproveRow, Rollback, Release, Continue, TypeOK, Pending, Shape,
     Current, Checking, Approving, Rejecting, WorkInv, dbVars, lockVars, workVars,
     histVars
<1>12. CASE CommitApprove(w)
  BY <1>12, <1>a DEF CommitApprove, Release, TypeOK, Pending, Shape, Current, Checking,
     Approving, Rejecting, WorkInv, ApprovalInv, dbVars, lockVars, workVars, histVars
<1>13. CASE StampAccount(w)
  BY <1>13, <1>a DEF StampAccount, Continue, TypeOK, Pending, Shape, Current, Checking,
     Approving, Rejecting, WorkInv, dbVars, lockVars, workVars, histVars
<1>14. CASE FailWallet(w)
  BY <1>14, <1>a DEF FailWallet, TypeOK, Pending, Shape, Current, Checking, Approving,
     Rejecting, WorkInv, dbVars, lockVars, workVars, histVars
<1>15. CASE RejectRow(w)
  BY <1>15, <1>a DEF RejectRow, TypeOK, Pending, Shape, Current, Checking, Approving,
     Rejecting, WorkInv, dbVars, lockVars, workVars, histVars
<1>16. CASE NotifyAccount(w)
  BY <1>16, <1>a DEF NotifyAccount, TypeOK, Pending, Shape, Current, Checking, Approving,
     Rejecting, WorkInv, dbVars, lockVars, workVars, histVars
<1>17. CASE AllRejected(w)
  BY <1>17, <1>a DEF AllRejected, TypeOK, Pending, Shape, Current, Checking, Approving,
     Rejecting, WorkInv, dbVars, lockVars, workVars, histVars
<1>18. CASE RefreshRow(w)
  BY <1>18, <1>a DEF RefreshRow, TypeOK, Pending, Shape, Current, Checking, Approving,
     Rejecting, WorkInv, dbVars, lockVars, workVars, histVars
<1>19. CASE CommitReject(w)
  BY <1>19, <1>a DEF CommitReject, Release, Continue, TypeOK, Pending, Shape, Current,
     Checking, Approving, Rejecting, WorkInv, dbVars, lockVars, workVars, histVars
<1>20. CASE WalletError(w)
  BY <1>20, <1>a DEF WalletError, Release, Continue, TypeOK, Pending, Shape, Current,
     Checking, Approving, Rejecting, WorkInv, dbVars, lockVars, workVars, histVars
<1>21. CASE DbError(w)
  BY <1>21, <1>a DEF DbError, Rollback, Release, Continue, TypeOK, Pending, Shape,
     Current, Checking, Approving, Rejecting, WorkInv, dbVars, lockVars, workVars,
     histVars
<1>22. CASE Crash(w)
  BY <1>22, <1>a DEF Crash, Release, Continue, TypeOK, Pending, Shape, Current, Checking,
     Approving, Rejecting, WorkInv, dbVars, lockVars, workVars, histVars
<1>. QED
  BY <1>1, <1>2, <1>3, <1>4, <1>5, <1>6, <1>7, <1>8, <1>9, <1>10, <1>11, <1>12, <1>13,
     <1>14, <1>15, <1>16, <1>17, <1>18, <1>19, <1>20, <1>21, <1>22 DEF Step, Start,
     Progress, Approve, Reject, Failure

-----------------------------------------------------------------------------
(* Another request stays ahead of its rows: w tells nothing about them.    *)
LEMMA OtherAhead ==
  ASSUME TypeOK, WorkInv, SpokeInv, NEW w \in Workers, Shape(w), UniqueInv, Step(w),
         NEW x \in Workers, x # w, Shape(x), Ahead(x)
  PROVE  Ahead(x)'
<1>1. pc'[x] = pc[x] /\ spoke'[x] = spoke[x] /\ incident \subseteq incident'
  BY Frame, StepInvolved
<1>2. ASSUME NEW t \in spoke[x] \ incident'
      PROVE  status'[t] = status[t] /\ told'[t] = told[t]
  <2>1. t \in Involved(x) /\ t \in Deposits /\ status[t] # "none"
    BY <1>2, InvolvedIsThere DEF Involved, TypeOK
  <2>2. t \notin Involved(w)
    BY <1>1, <1>2, <2>1 DEF UniqueInv
  <2>3. t \notin dirty[w] /\ t \notin todo[w]
    BY <2>2, DirtyInvolved DEF Involved
  <2>4. CreditWallet(w) => t # cur[w]
    BY <2>1, <2>2, DepositAssumption DEF Involved
  <2>. QED
    BY <1>2, <2>1, <2>3, <2>4, StepStatus, StepTold
<1>. QED
  BY <1>1, <1>2 DEF Ahead

(* What a transaction drops without an incident it has committed. *)
LEMMA StepDrops ==
  ASSUME TypeOK, WorkInv, NEW w \in Workers, Shape(w), Step(w),
         NEW t \in spoke[w] \ incident', t \notin spoke'[w]
  PROVE  CommitApprove(w) \/ CommitReject(w)
<1>1. CASE \E d \in Deposits : MakeDeposit(w, d)
  BY <1>1 DEF MakeDeposit, Begin, TypeOK, Shape, Checking, Approving, Rejecting, WorkInv,
     dbVars, lockVars, workVars, histVars
<1>2. CASE \E d \in Deposits : ProcessSyncData(w, d)
  BY <1>2 DEF ProcessSyncData, Begin, CallbackReads, TypeOK, Shape, Checking, Approving,
     Rejecting, WorkInv, dbVars, lockVars, workVars, histVars
<1>3. CASE \E d \in Deposits : UpdateDepositOrderStatus(w, d)
  BY <1>3 DEF UpdateDepositOrderStatus, Begin, TypeOK, Shape, Checking, Approving,
     Rejecting, WorkInv, dbVars, lockVars, workVars, histVars
<1>4. CASE \E ids \in SUBSET Deposits : BatchApproveDeposit(w, ids)
  BY <1>4 DEF BatchApproveDeposit, Begin, Undecided, TypeOK, Shape, Checking, Approving,
     Rejecting, WorkInv, dbVars, lockVars, workVars, histVars
<1>5. CASE \E ids \in SUBSET Deposits : DisapproveDeposit(w, ids)
  BY <1>5 DEF DisapproveDeposit, Begin, Undecided, TypeOK, Shape, Checking, Approving,
     Rejecting, WorkInv, dbVars, lockVars, workVars, histVars
<1>6. CASE MakePGDeposit(w)
  BY <1>6 DEF MakePGDeposit, Continue, TypeOK, Shape, Checking, Approving, Rejecting,
     WorkInv, dbVars, lockVars, workVars, histVars
<1>7. CASE CheckOrderStatus(w)
  BY <1>7 DEF CheckOrderStatus, Continue, TypeOK, Shape, Checking, Approving, Rejecting,
     WorkInv, dbVars, lockVars, workVars, histVars
<1>8. CASE ReadForApprove(w)
  BY <1>8 DEF ReadForApprove, Continue, TypeOK, Shape, Checking, Approving, Rejecting,
     WorkInv, dbVars, lockVars, workVars, histVars
<1>9. CASE LockAccount(w)
  BY <1>9 DEF LockAccount, Continue, TypeOK, Shape, Checking, Approving, Rejecting,
     WorkInv, dbVars, lockVars, workVars, histVars
<1>10. CASE CreditWallet(w)
  BY <1>10 DEF CreditWallet, TypeOK, Shape, Checking, Approving, Rejecting, WorkInv,
     dbVars, lockVars, workVars, histVars
<1>11. CASE ApproveRow(w)
  BY <1>11 DEF ApproveRow, Rollback, Release, Continue, TypeOK, Shape, Checking,
     Approving, Rejecting, WorkInv, dbVars, lockVars, workVars, histVars
<1>12. CASE CommitApprove(w)
  BY <1>12 DEF CommitApprove, Release, TypeOK, Shape, Checking, Approving, Rejecting,
     WorkInv, dbVars, lockVars, workVars, histVars
<1>13. CASE StampAccount(w)
  BY <1>13 DEF StampAccount, Continue, TypeOK, Shape, Checking, Approving, Rejecting,
     WorkInv, dbVars, lockVars, workVars, histVars
<1>14. CASE FailWallet(w)
  BY <1>14 DEF FailWallet, TypeOK, Shape, Checking, Approving, Rejecting, WorkInv, dbVars,
     lockVars, workVars, histVars
<1>15. CASE RejectRow(w)
  BY <1>15 DEF RejectRow, TypeOK, Shape, Checking, Approving, Rejecting, WorkInv, dbVars,
     lockVars, workVars, histVars
<1>16. CASE NotifyAccount(w)
  BY <1>16 DEF NotifyAccount, TypeOK, Shape, Checking, Approving, Rejecting, WorkInv,
     dbVars, lockVars, workVars, histVars
<1>17. CASE AllRejected(w)
  BY <1>17 DEF AllRejected, TypeOK, Shape, Checking, Approving, Rejecting, WorkInv,
     dbVars, lockVars, workVars, histVars
<1>18. CASE RefreshRow(w)
  BY <1>18 DEF RefreshRow, TypeOK, Shape, Checking, Approving, Rejecting, WorkInv, dbVars,
     lockVars, workVars, histVars
<1>19. CASE CommitReject(w)
  BY <1>19 DEF CommitReject, Release, Continue, TypeOK, Shape, Checking, Approving,
     Rejecting, WorkInv, dbVars, lockVars, workVars, histVars
<1>20. CASE WalletError(w)
  BY <1>20 DEF WalletError, Release, Continue, TypeOK, Shape, Checking, Approving,
     Rejecting, WorkInv, dbVars, lockVars, workVars, histVars
<1>21. CASE DbError(w)
  BY <1>21 DEF DbError, Rollback, Release, Continue, TypeOK, Shape, Checking, Approving,
     Rejecting, WorkInv, dbVars, lockVars, workVars, histVars
<1>22. CASE Crash(w)
  BY <1>22 DEF Crash, Release, Continue, TypeOK, Shape, Checking, Approving, Rejecting,
     WorkInv, dbVars, lockVars, workVars, histVars
<1>. QED
  BY <1>1, <1>2, <1>3, <1>4, <1>5, <1>6, <1>7, <1>8, <1>9, <1>10, <1>11, <1>12, <1>13,
     <1>14, <1>15, <1>16, <1>17, <1>18, <1>19, <1>20, <1>21, <1>22 DEF Step, Start,
     Progress, Approve, Reject, Failure

(* What nobody is on was left with the row and the wallet agreeing. *)
LEMMA AgreesBefore ==
  ASSUME UniqueInv, AgreeInv, NEW w \in Workers, NEW t \in Deposits \ incident,
         t \in Involved(w), t \notin spoke[w]
  PROVE  Agrees(t)
BY DEF UniqueInv, AgreeInv, Involved

(* The request's own rows: the wallet is ahead by one outcome. *)
LEMMA OwnAhead ==
  ASSUME TypeOK, WorkInv, ApprovalInv, NEW w \in Workers, Shape(w), Pending(w), Ahead(w),
         UniqueInv, AgreeInv, Step(w)
  PROVE  Ahead(w)'
<1>. USE DepositAssumption
<1>a. incident \subseteq incident'
  BY StepInvolved
<1>1. CASE \E d \in Deposits : MakeDeposit(w, d)
  BY <1>1, <1>a DEF MakeDeposit, Begin, TypeOK, Ahead, Shape, Checking, Approving,
     Rejecting, WorkInv, dbVars, lockVars, workVars, histVars
<1>2. CASE \E d \in Deposits : ProcessSyncData(w, d)
  BY <1>2, <1>a DEF ProcessSyncData, Begin, CallbackReads, TypeOK, Ahead, Shape, Checking,
     Approving, Rejecting, WorkInv, dbVars, lockVars, workVars, histVars
<1>3. CASE \E d \in Deposits : UpdateDepositOrderStatus(w, d)
  BY <1>3, <1>a DEF UpdateDepositOrderStatus, Begin, TypeOK, Ahead, Shape, Checking,
     Approving, Rejecting, WorkInv, dbVars, lockVars, workVars, histVars
<1>4. CASE \E ids \in SUBSET Deposits : BatchApproveDeposit(w, ids)
  BY <1>4, <1>a DEF BatchApproveDeposit, Begin, Undecided, TypeOK, Ahead, Shape, Checking,
     Approving, Rejecting, WorkInv, dbVars, lockVars, workVars, histVars
<1>5. CASE \E ids \in SUBSET Deposits : DisapproveDeposit(w, ids)
  BY <1>5, <1>a DEF DisapproveDeposit, Begin, Undecided, TypeOK, Ahead, Shape, Checking,
     Approving, Rejecting, WorkInv, dbVars, lockVars, workVars, histVars
<1>6. CASE MakePGDeposit(w)
  BY <1>6, <1>a DEF MakePGDeposit, Continue, TypeOK, Ahead, Shape, Checking, Approving,
     Rejecting, WorkInv, dbVars, lockVars, workVars, histVars
<1>7. CASE CheckOrderStatus(w)
  BY <1>7, <1>a DEF CheckOrderStatus, Continue, TypeOK, Ahead, Shape, Checking, Approving,
     Rejecting, WorkInv, dbVars, lockVars, workVars, histVars
<1>8. CASE ReadForApprove(w)
  BY <1>8, <1>a DEF ReadForApprove, Continue, TypeOK, Ahead, Shape, Checking, Approving,
     Rejecting, WorkInv, dbVars, lockVars, workVars, histVars
<1>9. CASE LockAccount(w)
  BY <1>9, <1>a DEF LockAccount, Continue, TypeOK, Ahead, Shape, Checking, Approving,
     Rejecting, WorkInv, dbVars, lockVars, workVars, histVars
<1>10. CASE CreditWallet(w)
  <2>1. cur[w] \in Deposits /\ spoke[w] = {} /\ spoke'[w] = {cur[w]} /\ UNCHANGED <<status, incident>>
    BY <1>10 DEF CreditWallet, Shape, WorkInv, Approving, TypeOK, dbVars
  <2>2. cur[w] \in Involved(w) /\ pc'[w] = "approveRow" /\ told'[cur[w]] = told[cur[w]] \cup {"COMPLETED"}
    BY <1>10, <2>1 DEF CreditWallet, Involved, TypeOK
  <2>3. cur[w] \notin incident => Agrees(cur[w])
    BY <2>1, <2>2, AgreesBefore
  <2>4. cur[w] \notin incident /\ status[cur[w]] = "NEW" => told'[cur[w]] = {"COMPLETED"}
    BY <2>2, <2>3 DEF Agrees
  <2>. QED
    BY <2>1, <2>2, <2>4 DEF Ahead, Rejecting
<1>11. CASE ApproveRow(w)
  BY <1>11, <1>a DEF ApproveRow, Rollback, Release, Continue, TypeOK, Ahead, Shape,
     Checking, Approving, Rejecting, WorkInv, dbVars, lockVars, workVars, histVars
<1>12. CASE CommitApprove(w)
  BY <1>12, <1>a DEF CommitApprove, Release, TypeOK, Ahead, Shape, Checking, Approving,
     Rejecting, WorkInv, dbVars, lockVars, workVars, histVars
<1>13. CASE StampAccount(w)
  BY <1>13, <1>a DEF StampAccount, Continue, TypeOK, Ahead, Shape, Checking, Approving,
     Rejecting, WorkInv, dbVars, lockVars, workVars, histVars
<1>14. CASE FailWallet(w)
  <2>1. PICK t \in todo[w] : /\ told' = [told EXCEPT ![t] = @ \cup {"FAILED"}]
                            /\ spoke' = [spoke EXCEPT ![w] = @ \cup {t}]
    BY <1>14 DEF FailWallet
  <2>2. /\ t \in Deposits /\ t \in Involved(w) /\ t \notin spoke[w] /\ UNCHANGED <<status, incident>>
        /\ pc[w] = "reject" /\ pc'[w] = "rejectRow" /\ spoke'[w] = spoke[w] \cup {t}
    BY <1>14, <2>1 DEF FailWallet, Involved, Shape, TypeOK, dbVars
  <2>3. t \notin incident => Agrees(t) /\ status[t] \in {"NEW", "CLOSE"}
    BY <2>2, AgreesBefore DEF Pending
  <2>4. t \notin incident => told'[t] = {"FAILED"}
    BY <2>1, <2>2, <2>3 DEF Agrees, TypeOK
  <2>5. \A u \in spoke[w] \ incident : told'[u] = {"FAILED"}
    BY <2>1, <2>2 DEF Ahead, Rejecting, TypeOK
  <2>. QED
    BY <2>2, <2>4, <2>5 DEF Ahead, Approving
<1>15. CASE RejectRow(w)
  BY <1>15, <1>a DEF RejectRow, TypeOK, Ahead, Shape, Checking, Approving, Rejecting,
     WorkInv, dbVars, lockVars, workVars, histVars
<1>16. CASE NotifyAccount(w)
  BY <1>16, <1>a DEF NotifyAccount, TypeOK, Ahead, Shape, Checking, Approving, Rejecting,
     WorkInv, dbVars, lockVars, workVars, histVars
<1>17. CASE AllRejected(w)
  BY <1>17, <1>a DEF AllRejected, TypeOK, Ahead, Shape, Checking, Approving, Rejecting,
     WorkInv, dbVars, lockVars, workVars, histVars
<1>18. CASE RefreshRow(w)
  BY <1>18, <1>a DEF RefreshRow, TypeOK, Ahead, Shape, Checking, Approving, Rejecting,
     WorkInv, dbVars, lockVars, workVars, histVars
<1>19. CASE CommitReject(w)
  BY <1>19, <1>a DEF CommitReject, Release, Continue, TypeOK, Ahead, Shape, Checking,
     Approving, Rejecting, WorkInv, dbVars, lockVars, workVars, histVars
<1>20. CASE WalletError(w)
  BY <1>20, <1>a DEF WalletError, Release, Continue, TypeOK, Ahead, Shape, Checking,
     Approving, Rejecting, WorkInv, dbVars, lockVars, workVars, histVars
<1>21. CASE DbError(w)
  BY <1>21, <1>a DEF DbError, Rollback, Release, Continue, TypeOK, Ahead, Shape, Checking,
     Approving, Rejecting, WorkInv, dbVars, lockVars, workVars, histVars
<1>22. CASE Crash(w)
  BY <1>22, <1>a DEF Crash, Release, Continue, TypeOK, Ahead, Shape, Checking, Approving,
     Rejecting, WorkInv, dbVars, lockVars, workVars, histVars
<1>. QED
  BY <1>1, <1>2, <1>3, <1>4, <1>5, <1>6, <1>7, <1>8, <1>9, <1>10, <1>11, <1>12, <1>13,
     <1>14, <1>15, <1>16, <1>17, <1>18, <1>19, <1>20, <1>21, <1>22 DEF Step, Start,
     Progress, Approve, Reject, Failure

(* The row and the wallet agree again when the transaction has ended. *)
LEMMA StepAgree ==
  ASSUME TypeOK, WorkInv, ApprovalInv, SpokeInv, NEW w \in Workers, Shape(w), Pending(w),
         Ahead(w), UniqueInv, AgreeInv, Step(w)
  PROVE  AgreeInv'
<1>. USE DepositAssumption
<1>1. incident \subseteq incident'
  BY StepInvolved
<1>. SUFFICES ASSUME NEW t \in Deposits \ incident', \A x \in Workers : t \notin spoke'[x]
              PROVE  Agrees(t)'
  BY DEF AgreeInv
<1>2. \A x \in Workers \ {w} : spoke'[x] = spoke[x]
  BY Frame
<1>3. CASE t \in spoke[w]
  <2>1. CASE CommitApprove(w)
    <3>1. pc[w] = "commitApprove" /\ told' = told /\ spoke[w] = {cur[w]} /\ dirty[w] = {cur[w]}
      BY <2>1 DEF CommitApprove, Shape, ApprovalInv
    <3>2. t = cur[w] /\ status'[t] = "CONFIRMED" /\ Approvable(t)
      BY <1>3, <2>1, <3>1 DEF CommitApprove, ApprovalInv
    <3>3. t \notin Gateway => told[t] = {"COMPLETED"}
      BY <1>1, <1>3, <3>1, <3>2 DEF Ahead, Approvable, Approving
    <3>. QED
      BY <3>1, <3>2, <3>3 DEF Agrees
  <2>2. CASE CommitReject(w)
    <3>1. pc[w] = "refresh" /\ told' = told /\ t \in dirty[w]
      BY <1>3, <2>2 DEF CommitReject, Shape
    <3>2. status'[t] = "CLOSE" /\ told[t] = {"FAILED"}
      BY <1>1, <1>3, <2>2, <3>1 DEF CommitReject, Ahead, Rejecting
    <3>. QED
      BY <3>1, <3>2 DEF Agrees
  <2>. QED
    BY <1>3, <2>1, <2>2, StepDrops
<1>4. CASE t \notin spoke[w]
  <2>1. Agrees(t)
    BY <1>1, <1>2, <1>4 DEF AgreeInv
  <2>2. told'[t] = told[t]
    <3>1. CreditWallet(w) => t # cur[w]
      BY DEF CreditWallet, TypeOK
    <3>2. ASSUME FailWallet(w), told'[t] # told[t]
          PROVE  t \in spoke'[w]
      BY <3>2 DEF FailWallet, TypeOK
    <3>. QED
      BY <3>1, <3>2, StepTold
  <2>3. status'[t] = status[t] \/ (status[t] = "none" /\ status'[t] = "NEW")
    BY <1>4, StepStatus, DirtyInvolved
  <2>. QED
    BY <2>1, <2>2, <2>3 DEF Agrees
<1>. QED
  BY <1>3, <1>4

-----------------------------------------------------------------------------
(* The theorems. *)

LEMMA InitWalletInv == Init => WalletInv /\ \A w \in Workers : Stamps(w)
BY DepositAssumption DEF Init, WalletInv, Shape, Pending, Ahead, UniqueInv, AgreeInv, Agrees, Stamps,
   Involved, Current, Approving, Rejecting, Checking

LEMMA StepWalletInv ==
  ASSUME DepositInv, WalletInv, [Next]_vars
  PROVE  WalletInv'
<1>1. ASSUME NEW w \in Workers, Step(w)
      PROVE  WalletInv'
  <2>. USE DEF DepositInv, WalletInv
  <2>1. Shape(w)' /\ Pending(w)' /\ Ahead(w)'
    BY <1>1, StepShape, OwnPending, OwnAhead
  <2>2. ASSUME NEW x \in Workers, x # w
        PROVE  Shape(x)' /\ Pending(x)' /\ Ahead(x)'
    <3>1. Shape(x)'
      BY <1>1, <2>2, Frame DEF Shape, Current
    <3>. QED
      BY <1>1, <2>2, <3>1, OtherPending, OtherAhead
  <2>3. UniqueInv' /\ AgreeInv'
    BY <1>1, StepUnique, StepAgree
  <2>. QED
    BY <2>1, <2>2, <2>3
<1>2. CASE (\E a \in Accounts : UpdateStatus(a)) \/ UNCHANGED vars
  BY <1>2 DEF UpdateStatus, vars, dbVars, lockVars, workVars, histVars, WalletInv, Shape, Pending,
     Ahead, UniqueInv, AgreeInv, Agrees, Involved, Current
<1>. QED
  BY <1>1, <1>2 DEF Next, Step

(* Without an incident the wallet and the row of a deposit agree whenever  *)
(* no request is on it: nothing is credited, or reported as failed, that   *)
(* the row does not say.                                                   *)
THEOREM DepositWalletAgrees == Spec => []WalletAgreesWithRow
<1>1. Init => WalletInv
  BY InitWalletInv
<1>2. DepositInv /\ WalletInv /\ [Next]_vars => WalletInv'
  BY StepWalletInv
<1>3. WalletInv => WalletAgreesWithRow
  BY DEF WalletInv, AgreeInv, Agrees, WalletAgreesWithRow, Idle, Involved
<1>. QED
  BY DepositInvariant, <1>1, <1>2, <1>3, PTL DEF Spec

LEMMA StepFirst ==
  ASSUME TypeOK, WorkInv, FirstBeforeLast, \A w \in Workers : Stamps(w), [Next]_vars
  PROVE  FirstBeforeLast' /\ \A w \in Workers : Stamps(w)'
<1>. USE DepositAssumption
<1>1. ASSUME NEW w \in Workers, Step(w)
      PROVE  FirstBeforeLast' /\ \A x \in Workers : Stamps(x)'
  <2>1. Stamps(w)'
    BY <1>1, StepStamps
  <2>2. CASE StampAccount(w)
    <3>1. pc[w] = "stamp" /\ cur[w] \in Deposits /\ cur[w] # NoOne
      BY <2>2 DEF StampAccount, WorkInv, Approving
    <3>2. /\ firstDeposit' = [firstDeposit EXCEPT ![OwnerOf[cur[w]]] = IF sawFirst[w] THEN cur[w] ELSE @]
          /\ lastDeposit' = [lastDeposit EXCEPT ![OwnerOf[cur[w]]] = cur[w]]
      BY <2>2 DEF StampAccount
    <3>3. firstDeposit'[OwnerOf[cur[w]]] # NoOne
      BY <3>1, <3>2 DEF Stamps, TypeOK
    <3>4. \A a \in Accounts : firstDeposit'[a] = NoOne => firstDeposit[a] = NoOne /\ lastDeposit'[a] = lastDeposit[a]
      BY <3>1, <3>2, <3>3 DEF TypeOK
    <3>5. FirstBeforeLast'
      BY <3>4 DEF FirstBeforeLast
    <3>6. ASSUME NEW x \in Workers, x # w
          PROVE  Stamps(x)'
      <4>1. pc'[x] = pc[x] /\ cur'[x] = cur[x] /\ sawFirst'[x] = sawFirst[x]
        BY <1>1, <3>6, Frame
      <4>2. pc[x] \in {"credit", "approveRow", "commitApprove", "stamp"} => OwnerOf[cur[x]] \in Accounts
        BY DEF WorkInv, Approving
      <4>. QED
        BY <3>4, <4>1, <4>2 DEF Stamps
    <3>. QED
      BY <2>1, <3>5, <3>6
  <2>3. CASE ~StampAccount(w)
    <3>1. firstDeposit' = firstDeposit /\ lastDeposit' = lastDeposit
      BY <1>1, <2>3, OnlyStampStamps
    <3>2. ASSUME NEW x \in Workers, x # w
          PROVE  Stamps(x)'
      BY <1>1, <3>1, <3>2, Frame DEF Stamps
    <3>. QED
      BY <2>1, <3>1, <3>2 DEF FirstBeforeLast
  <2>. QED
    BY <2>2, <2>3
<1>2. CASE (\E a \in Accounts : UpdateStatus(a)) \/ UNCHANGED vars
  BY <1>2 DEF UpdateStatus, vars, dbVars, lockVars, workVars, histVars, FirstBeforeLast, Stamps
<1>. QED
  BY <1>1, <1>2 DEF Next, Step

(* The account never has a last deposit without a first one, although both *)
(* are stamped after the lock of the check has been released.              *)
THEOREM DepositFirstBeforeLast == Spec => []FirstBeforeLast
<1>1. Init => FirstBeforeLast /\ \A w \in Workers : Stamps(w)
  BY InitWalletInv DEF Init, FirstBeforeLast
<1>2. /\ DepositInv /\ FirstBeforeLast /\ (\A w \in Workers : Stamps(w)) /\ [Next]_vars
      => FirstBeforeLast' /\ (\A w \in Workers : Stamps(w))'
  BY StepFirst DEF DepositInv
<1>. QED
  BY DepositInvariant, <1>1, <1>2, PTL DEF Spec
=============================================================================
