---------------------- MODULE GatewayWithdrawalProofs ----------------------
(***************************************************************************)
(* Proofs about GatewayWithdrawal, for any number of withdrawals, accounts *)
(* and callbacks.  The argument: a transaction that has changed a row      *)
(* holds its lock, so the status it was allowed to change is still the     *)
(* committed one when it commits; and likewise for the account.            *)
(***************************************************************************)
EXTENDS GatewayWithdrawal, TLAPS

ClaimInv ==
  /\ executor \subseteq Assigned
  /\ \A w \in Workers :
       /\ pc[w] # "idle" => cur[w] \in Withdrawals
       /\ pc[w] = "credit" => wrote[w]
       /\ wrote[w] => /\ pc[w] \in {"credit", "commitSettle", "commitReject"}
                      /\ rowLock[cur[w]] = w
                      /\ status[cur[w]] = "PROCESSING"
       /\ wrote[w] /\ pc[w] # "commitSettle" => cur[w] \in Assigned
       /\ paid[w] => /\ pc[w] = "commitReject" /\ wrote[w]
                     /\ acctLock[OwnerOf[cur[w]]] = w
                     /\ OwnerOf[cur[w]] \notin suspended
       /\ wrote[w] /\ pc[w] = "commitReject" => paid[w]

(* Every action keeps the type invariant. *)
LEMMA StepType ==
  ASSUME TypeOK, ClaimInv, [Next]_vars
  PROVE  TypeOK'
<1>. USE GatewayAssumption
<1>1. ASSUME NEW w \in Workers, NEW t \in Withdrawals, Callback(w, t)
      PROVE  TypeOK'
  BY <1>1 DEF Callback, Goto, TypeOK, Steps, dbVars, lockVars, workVars,
     ClaimInv
<1>2. ASSUME NEW w \in Workers, CheckOrderStatus(w)
      PROVE  TypeOK'
  BY <1>2 DEF CheckOrderStatus, Goto, TypeOK, Steps, dbVars, lockVars,
     workVars, ClaimInv
<1>3. ASSUME NEW w \in Workers, ApproveWithdrawal(w)
      PROVE  TypeOK'
  <2>1. cur[w] \in Withdrawals /\ rowLock' \in [Withdrawals -> Workers \cup {NoOne}]
    BY <1>3 DEF ApproveWithdrawal, Update, TypeOK, ClaimInv
  <2>2. pc' \in [Workers -> {"idle"} \cup Steps] /\ wrote' \in [Workers -> BOOLEAN]
    BY <1>3 DEF ApproveWithdrawal, Update, Goto, TypeOK, Steps
  <2>. QED
    BY <1>3, <2>1, <2>2 DEF ApproveWithdrawal, Update, TypeOK, dbVars
<1>4. ASSUME NEW w \in Workers, RejectWithdrawal(w)
      PROVE  TypeOK'
  <2>1. cur[w] \in Withdrawals /\ rowLock' \in [Withdrawals -> Workers \cup {NoOne}]
    BY <1>4 DEF RejectWithdrawal, Update, TypeOK, ClaimInv
  <2>2. pc' \in [Workers -> {"idle"} \cup Steps] /\ wrote' \in [Workers -> BOOLEAN]
    BY <1>4 DEF RejectWithdrawal, Update, Goto, TypeOK, Steps
  <2>. QED
    BY <1>4, <2>1, <2>2 DEF RejectWithdrawal, Update, TypeOK, dbVars
<1>5. ASSUME NEW w \in Workers, CreditAccount(w)
      PROVE  TypeOK'
  <2>1. OwnerOf[cur[w]] \in Accounts
    BY <1>5 DEF CreditAccount, ClaimInv
  <2>2. CASE OwnerOf[cur[w]] \in suspended
    <3>1. Finish(w, "idle") /\ UNCHANGED dbVars
      BY <1>5, <2>2 DEF CreditAccount
    <3>2. /\ pc' \in [Workers -> {"idle"} \cup Steps]
          /\ wrote' \in [Workers -> BOOLEAN] /\ paid' \in [Workers -> BOOLEAN]
      BY <3>1 DEF Finish, Goto, TypeOK
    <3>3. /\ rowLock' \in [Withdrawals -> Workers \cup {NoOne}]
          /\ acctLock' \in [Accounts -> Workers \cup {NoOne}]
      BY <3>1 DEF Finish, TypeOK
    <3>. QED
      BY <3>1, <3>2, <3>3 DEF Finish, TypeOK, dbVars
  <2>3. CASE OwnerOf[cur[w]] \notin suspended
    <3>1. acctLock' \in [Accounts -> Workers \cup {NoOne}]
      BY <1>5, <2>1, <2>3 DEF CreditAccount, TypeOK
    <3>2. paid' \in [Workers -> BOOLEAN] /\ pc' \in [Workers -> {"idle"} \cup Steps]
      BY <1>5, <2>3 DEF CreditAccount, Goto, TypeOK, Steps
    <3>3. UNCHANGED <<rowLock, cur, sawExecutor, wrote, dbVars>>
      BY <1>5, <2>3 DEF CreditAccount
    <3>. QED
      BY <3>1, <3>2, <3>3 DEF TypeOK, dbVars
  <2>. QED
    BY <2>2, <2>3
<1>6. ASSUME NEW w \in Workers, CommitSettle(w)
      PROVE  TypeOK'
  BY <1>6 DEF CommitSettle, Finish, Goto, TypeOK, Steps, dbVars, lockVars,
     workVars, ClaimInv
<1>7. ASSUME NEW w \in Workers, CommitReject(w)
      PROVE  TypeOK'
  BY <1>7 DEF CommitReject, Finish, Goto, TypeOK, Steps, dbVars, lockVars,
     workVars, ClaimInv
<1>8. ASSUME NEW w \in Workers, ConfirmWithdrawal(w)
      PROVE  TypeOK'
  BY <1>8 DEF ConfirmWithdrawal, Finish, Goto, TypeOK, Steps, dbVars,
     lockVars, workVars, ClaimInv
<1>9. ASSUME NEW w \in Workers, Fail(w)
      PROVE  TypeOK'
  BY <1>9 DEF Fail, Finish, Goto, TypeOK, Steps, dbVars, lockVars, workVars,
     ClaimInv
<1>10. ASSUME NEW a \in Accounts, UpdateStatus(a)
       PROVE  TypeOK'
  BY <1>10 DEF UpdateStatus, TypeOK, Steps, dbVars, lockVars, workVars,
     ClaimInv
<1>11. CASE UNCHANGED vars
  BY <1>11 DEF vars, TypeOK, Steps, dbVars, lockVars, workVars, ClaimInv
<1>. QED
  BY <1>1, <1>2, <1>3, <1>4, <1>5, <1>6, <1>7, <1>8, <1>9, <1>10, <1>11
     DEF Next, Progress

(* What a transaction has claimed stays claimed. *)
LEMMA StepClaim ==
  ASSUME TypeOK, ClaimInv, [Next]_vars
  PROVE  ClaimInv'
<1>. USE GatewayAssumption
<1>1. ASSUME NEW w \in Workers, NEW t \in Withdrawals, Callback(w, t)
      PROVE  ClaimInv'
  BY <1>1 DEF Callback, Goto, TypeOK, Steps, dbVars, lockVars, workVars,
     ClaimInv
<1>2. ASSUME NEW w \in Workers, CheckOrderStatus(w)
      PROVE  ClaimInv'
  BY <1>2 DEF CheckOrderStatus, Goto, TypeOK, Steps, dbVars, lockVars,
     workVars, ClaimInv
<1>3. ASSUME NEW w \in Workers, ApproveWithdrawal(w)
      PROVE  ClaimInv'
  BY <1>3 DEF ApproveWithdrawal, Update, Goto, TypeOK, Steps, dbVars,
     lockVars, workVars, ClaimInv
<1>4. ASSUME NEW w \in Workers, RejectWithdrawal(w)
      PROVE  ClaimInv'
  BY <1>4 DEF RejectWithdrawal, Update, Goto, TypeOK, Steps, dbVars, lockVars,
     workVars, ClaimInv
<1>5. ASSUME NEW w \in Workers, CreditAccount(w)
      PROVE  ClaimInv'
  BY <1>5 DEF CreditAccount, Finish, Goto, TypeOK, Steps, dbVars, lockVars,
     workVars, ClaimInv
<1>6. ASSUME NEW w \in Workers, CommitSettle(w)
      PROVE  ClaimInv'
  BY <1>6 DEF CommitSettle, Finish, Goto, TypeOK, Steps, dbVars, lockVars,
     workVars, ClaimInv
<1>7. ASSUME NEW w \in Workers, CommitReject(w)
      PROVE  ClaimInv'
  BY <1>7 DEF CommitReject, Finish, Goto, TypeOK, Steps, dbVars, lockVars,
     workVars, ClaimInv
<1>8. ASSUME NEW w \in Workers, ConfirmWithdrawal(w)
      PROVE  ClaimInv'
  BY <1>8 DEF ConfirmWithdrawal, Finish, Goto, TypeOK, Steps, dbVars,
     lockVars, workVars, ClaimInv
<1>9. ASSUME NEW w \in Workers, Fail(w)
      PROVE  ClaimInv'
  BY <1>9 DEF Fail, Finish, Goto, TypeOK, Steps, dbVars, lockVars, workVars,
     ClaimInv
<1>10. ASSUME NEW a \in Accounts, UpdateStatus(a)
       PROVE  ClaimInv'
  BY <1>10 DEF UpdateStatus, TypeOK, Steps, dbVars, lockVars, workVars,
     ClaimInv
<1>11. CASE UNCHANGED vars
  BY <1>11 DEF vars, TypeOK, Steps, dbVars, lockVars, workVars, ClaimInv
<1>. QED
  BY <1>1, <1>2, <1>3, <1>4, <1>5, <1>6, <1>7, <1>8, <1>9, <1>10, <1>11
     DEF Next, Progress

(* Only a commit closes a row, and it credits the account in the same step. *)
LEMMA StepSettle ==
  ASSUME TypeOK, ClaimInv, CreditedOnce, [Next]_vars
  PROVE  CreditedOnce'
<1>. USE GatewayAssumption
<1>1. ASSUME NEW w \in Workers, NEW t \in Withdrawals, Callback(w, t)
      PROVE  CreditedOnce'
  BY <1>1 DEF Callback, Goto, TypeOK, Steps, dbVars, lockVars, workVars,
     ClaimInv, CreditedOnce
<1>2. ASSUME NEW w \in Workers, CheckOrderStatus(w)
      PROVE  CreditedOnce'
  BY <1>2 DEF CheckOrderStatus, Goto, TypeOK, Steps, dbVars, lockVars,
     workVars, ClaimInv, CreditedOnce
<1>3. ASSUME NEW w \in Workers, ApproveWithdrawal(w)
      PROVE  CreditedOnce'
  BY <1>3 DEF ApproveWithdrawal, Update, Goto, TypeOK, Steps, dbVars,
     lockVars, workVars, ClaimInv, CreditedOnce
<1>4. ASSUME NEW w \in Workers, RejectWithdrawal(w)
      PROVE  CreditedOnce'
  BY <1>4 DEF RejectWithdrawal, Update, Goto, TypeOK, Steps, dbVars, lockVars,
     workVars, ClaimInv, CreditedOnce
<1>5. ASSUME NEW w \in Workers, CreditAccount(w)
      PROVE  CreditedOnce'
  BY <1>5 DEF CreditAccount, Finish, Goto, TypeOK, Steps, dbVars, lockVars,
     workVars, ClaimInv, CreditedOnce
<1>6. ASSUME NEW w \in Workers, CommitSettle(w)
      PROVE  CreditedOnce'
  BY <1>6 DEF CommitSettle, Finish, Goto, TypeOK, Steps, dbVars, lockVars,
     workVars, ClaimInv, CreditedOnce
<1>7. ASSUME NEW w \in Workers, CommitReject(w)
      PROVE  CreditedOnce'
  BY <1>7 DEF CommitReject, Finish, Goto, TypeOK, Steps, dbVars, lockVars,
     workVars, ClaimInv, CreditedOnce
<1>8. ASSUME NEW w \in Workers, ConfirmWithdrawal(w)
      PROVE  CreditedOnce'
  BY <1>8 DEF ConfirmWithdrawal, Finish, Goto, TypeOK, Steps, dbVars,
     lockVars, workVars, ClaimInv, CreditedOnce
<1>9. ASSUME NEW w \in Workers, Fail(w)
      PROVE  CreditedOnce'
  BY <1>9 DEF Fail, Finish, Goto, TypeOK, Steps, dbVars, lockVars, workVars,
     ClaimInv, CreditedOnce
<1>10. ASSUME NEW a \in Accounts, UpdateStatus(a)
       PROVE  CreditedOnce'
  BY <1>10 DEF UpdateStatus, TypeOK, Steps, dbVars, lockVars, workVars,
     ClaimInv, CreditedOnce
<1>11. CASE UNCHANGED vars
  BY <1>11 DEF vars, TypeOK, Steps, dbVars, lockVars, workVars, ClaimInv,
     CreditedOnce
<1>. QED
  BY <1>1, <1>2, <1>3, <1>4, <1>5, <1>6, <1>7, <1>8, <1>9, <1>10, <1>11
     DEF Next, Progress

-----------------------------------------------------------------------------

LEMMA GatewayInvariant == Spec => [](TypeOK /\ ClaimInv)
<1>1. Init => TypeOK /\ ClaimInv
  BY GatewayAssumption DEF Init, TypeOK, ClaimInv
<1>2. TypeOK /\ ClaimInv /\ [Next]_vars => TypeOK' /\ ClaimInv'
  BY StepType, StepClaim
<1>. QED
  BY <1>1, <1>2, PTL DEF Spec

(* The gateway component keeps its types. *)
THEOREM GatewayTypeOK == Spec => []TypeOK
BY GatewayInvariant, PTL

(* However many callbacks come at once: a closed withdrawal has been credited
   once, any other one never. *)
THEOREM GatewayCreditedOnce == Spec => []CreditedOnce
<1>1. Init => CreditedOnce
  BY DEF Init, CreditedOnce
<1>2. TypeOK /\ ClaimInv /\ CreditedOnce /\ [Next]_vars => CreditedOnce'
  BY StepSettle
<1>. QED
  BY GatewayInvariant, <1>1, <1>2, PTL DEF Spec

-----------------------------------------------------------------------------

SettleStep ==
  /\ \A t \in Withdrawals : status[t] # "PROCESSING" => status'[t] = status[t]
  /\ \A t \in Withdrawals : credits'[t] # credits[t] => OwnerOf[t] \notin suspended

(* The claims make every commit one from PROCESSING, of an active account. *)
LEMMA StepSettled ==
  ASSUME TypeOK, ClaimInv, [Next]_vars
  PROVE  SettleStep
<1>. USE GatewayAssumption
<1>1. ASSUME NEW w \in Workers, NEW t \in Withdrawals, Callback(w, t)
      PROVE  SettleStep
  BY <1>1 DEF Callback, Goto, TypeOK, Steps, dbVars, lockVars, workVars,
     ClaimInv, SettleStep
<1>2. ASSUME NEW w \in Workers, CheckOrderStatus(w)
      PROVE  SettleStep
  BY <1>2 DEF CheckOrderStatus, Goto, TypeOK, Steps, dbVars, lockVars,
     workVars, ClaimInv, SettleStep
<1>3. ASSUME NEW w \in Workers, ApproveWithdrawal(w)
      PROVE  SettleStep
  BY <1>3 DEF ApproveWithdrawal, Update, Goto, TypeOK, Steps, dbVars,
     lockVars, workVars, ClaimInv, SettleStep
<1>4. ASSUME NEW w \in Workers, RejectWithdrawal(w)
      PROVE  SettleStep
  BY <1>4 DEF RejectWithdrawal, Update, Goto, TypeOK, Steps, dbVars, lockVars,
     workVars, ClaimInv, SettleStep
<1>5. ASSUME NEW w \in Workers, CreditAccount(w)
      PROVE  SettleStep
  BY <1>5 DEF CreditAccount, Finish, Goto, TypeOK, Steps, dbVars, lockVars,
     workVars, ClaimInv, SettleStep
<1>6. ASSUME NEW w \in Workers, CommitSettle(w)
      PROVE  SettleStep
  BY <1>6 DEF CommitSettle, Finish, Goto, TypeOK, Steps, dbVars, lockVars,
     workVars, ClaimInv, SettleStep
<1>7. ASSUME NEW w \in Workers, CommitReject(w)
      PROVE  SettleStep
  BY <1>7 DEF CommitReject, Finish, Goto, TypeOK, Steps, dbVars, lockVars,
     workVars, ClaimInv, SettleStep
<1>8. ASSUME NEW w \in Workers, ConfirmWithdrawal(w)
      PROVE  SettleStep
  BY <1>8 DEF ConfirmWithdrawal, Finish, Goto, TypeOK, Steps, dbVars,
     lockVars, workVars, ClaimInv, SettleStep
<1>9. ASSUME NEW w \in Workers, Fail(w)
      PROVE  SettleStep
  BY <1>9 DEF Fail, Finish, Goto, TypeOK, Steps, dbVars, lockVars, workVars,
     ClaimInv, SettleStep
<1>10. ASSUME NEW a \in Accounts, UpdateStatus(a)
       PROVE  SettleStep
  BY <1>10 DEF UpdateStatus, TypeOK, Steps, dbVars, lockVars, workVars,
     ClaimInv, SettleStep
<1>11. CASE UNCHANGED vars
  BY <1>11 DEF vars, TypeOK, Steps, dbVars, lockVars, workVars, ClaimInv,
     SettleStep
<1>. QED
  BY <1>1, <1>2, <1>3, <1>4, <1>5, <1>6, <1>7, <1>8, <1>9, <1>10, <1>11
     DEF Next, Progress

(* A settled withdrawal is never settled again. *)
THEOREM GatewaySettledIsFinal == Spec => SettledIsFinal
<1>1. TypeOK /\ ClaimInv /\ [Next]_vars
        => [\A t \in Withdrawals : status[t] # "PROCESSING" => status'[t] = status[t]]_vars
  BY StepSettled DEF SettleStep
<1>. QED
  BY GatewayInvariant, <1>1, PTL DEF Spec, SettledIsFinal

(* The account of a suspended player is not credited. *)
THEOREM GatewayNoCreditWhileSuspended == Spec => NoCreditWhileSuspended
<1>1. TypeOK /\ ClaimInv /\ [Next]_vars
        => [\A t \in Withdrawals :
              credits'[t] # credits[t] => OwnerOf[t] \notin suspended]_vars
  BY StepSettled DEF SettleStep
<1>. QED
  BY GatewayInvariant, <1>1, PTL DEF Spec, NoCreditWhileSuspended
=============================================================================
