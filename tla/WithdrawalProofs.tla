-------------------------- MODULE WithdrawalProofs --------------------------
(***************************************************************************)
(* Proofs about Withdrawal, for any number of withdrawals, accounts and    *)
(* requests.                                                               *)
(***************************************************************************)
EXTENDS Withdrawal, TLAPS

(* Whose work is what: an idle request has none, a request that creates has one
   row, which nobody else can see, and a request that decides has rows that
   exist.  A row of an UPDATE is locked until the commit. *)
CreatingInv(w) ==
  pc[w] \in Creating =>
    /\ done[w] = {}
    /\ \E t \in Withdrawals : todo[w] = {t}
    /\ \A t \in todo[w] :
         /\ status[t] = "none"
         /\ t \in debited <=> pc[w] = "commitCreate"
         /\ \A x \in Workers \ {w} : t \notin todo[x]

DecidingInv(w) ==
  pc[w] \in Approving \cup Disapproving =>
    /\ \A t \in Involved(w) : status[t] # "none"
    /\ pc[w] = "approveRows" => done[w] = {}
    /\ pc[w] \in Stamping => todo[w] \subseteq done[w]
    /\ pc[w] = "commitClose" => todo[w] = {}
    /\ pc[w] \in Disapproving =>
         /\ todo[w] \cap done[w] = {}
         /\ \A t \in done[w] : refunds[t] > 0

WorkInv ==
  \A w \in Workers :
    /\ pc[w] = "idle" => Involved(w) = {}
    /\ CreatingInv(w)
    /\ DecidingInv(w)

(* Where a withdrawal without an incident stands: one request at most is on it;
   it is debited while its row is there or about to be; and it is refunded when
   it is closed or about to be. *)
Refunding(t) == \E w \in Workers : pc[w] \in Disapproving /\ t \in done[w]

MoneyInv(t) ==
  /\ \A w, x \in Workers : t \in Involved(w) /\ t \in Involved(x) => w = x
  /\ t \in debited => \/ status[t] # "none"
                      \/ \E w \in Workers : pc[w] = "commitCreate" /\ t \in todo[w]
  /\ \A w \in Workers :
       pc[w] \in Approving \cup Disapproving /\ t \in Involved(w) => status[t] = "NEW"
  /\ refunds[t] = IF status[t] = "CLOSE" \/ Refunding(t) THEN 1 ELSE 0

NoIncidentInv == \A t \in Withdrawals \ incident : MoneyInv(t)

(* The balance a request has checked is there until somebody lowers it. *)
CheckedInv ==
  \A w \in Workers \ stale :
    pc[w] = "debit" => \A t \in todo[w] : balance[OwnerOf[t]] >= Amount[t]

(* How far an approval is with the withdrawal times: an account it is past has
   its time or gets it at the commit; a time that was there when the account was
   read is there still.  Unless two approvals stamp an account at once, an
   approval that found no time is the first one to write it. *)
StampInv(w) ==
  /\ pc[w] \notin Stamping => firsts[w] = {}
  /\ pc[w] \in Stamping =>
       /\ firsts[w] \subseteq AccountsOf(done[w])
       /\ \A t \in done[w] \ todo[w] :
            \/ pc[w] = "updateAccount" /\ OwnerOf[t] = account[w]
            \/ OwnerOf[t] \in stamped \cup firsts[w]
       /\ firsts[w] \cap stamped \subseteq crowded
  /\ pc[w] = "updateAccount" =>
       /\ account[w] \in AccountsOf(done[w])
       /\ w \notin isFirst => account[w] \in stamped \cup firsts[w]
       /\ w \in isFirst => account[w] \notin stamped \/ account[w] \in crowded

CrowdInv ==
  \A w, x \in Workers :
    w # x /\ pc[w] \in Stamping /\ pc[x] \in Stamping
      => AccountsOf(done[w]) \cap AccountsOf(done[x]) \subseteq crowded

TimesInv == CrowdInv /\ \A w \in Workers : StampInv(w)

-----------------------------------------------------------------------------

(* Every action keeps the type invariant. *)
LEMMA StepType ==
  ASSUME TypeOK, [Next]_vars
  PROVE  TypeOK'
<1>. USE WithdrawalAssumption
<1>1. ASSUME NEW w \in Workers, NEW t \in Withdrawals, CreateWithdrawal(w, t)
      PROVE  TypeOK'
  BY <1>1 DEF CreateWithdrawal, Goto, TypeOK, AccountsOf, SharedAccounts,
     Overtaken, Status, Creating, Approving, Stamping, Disapproving,
     walletVars, dbVars, timeVars, stampVars, histVars
<1>2. ASSUME NEW w \in Workers, CheckBalance(w)
      PROVE  TypeOK'
  <2>1. PICK t \in todo[w] :
          IF balance[OwnerOf[t]] < Amount[t] THEN End(w)
          ELSE Goto(w, "debit") /\ UNCHANGED <<rowLock, todo, done, stampVars>>
    BY <1>2 DEF CheckBalance
  <2>2. pc[w] = "check" /\ UNCHANGED <<dbVars, walletVars, histVars>>
    BY <1>2 DEF CheckBalance
  <2>3. CASE End(w)
    BY <2>2, <2>3
       DEF End, Goto, TypeOK, Status, Creating, Approving, Stamping,
          Disapproving, walletVars, dbVars, timeVars, stampVars, histVars
  <2>4. CASE Goto(w, "debit") /\ UNCHANGED <<rowLock, todo, done, stampVars>>
    BY <2>2, <2>4
       DEF End, Goto, TypeOK, Status, Creating, Approving, Stamping,
          Disapproving, walletVars, dbVars, timeVars, stampVars, histVars
  <2>. QED
    BY <2>1, <2>3, <2>4
<1>3. ASSUME NEW w \in Workers, Debit(w)
      PROVE  TypeOK'
  BY <1>3 DEF Debit, Take, Goto, TypeOK, AccountsOf, SharedAccounts, Overtaken,
     Status, Creating, Approving, Stamping, Disapproving, walletVars, dbVars,
     timeVars, stampVars, histVars
<1>4. ASSUME NEW w \in Workers, DebitFails(w)
      PROVE  TypeOK'
  BY <1>4 DEF DebitFails, Take, End, Goto, TypeOK, AccountsOf, SharedAccounts,
     Overtaken, Status, Creating, Approving, Stamping, Disapproving,
     walletVars, dbVars, timeVars, stampVars, histVars
<1>5. ASSUME NEW w \in Workers, CommitCreate(w)
      PROVE  TypeOK'
  BY <1>5 DEF CommitCreate, End, Goto, TypeOK, AccountsOf, SharedAccounts,
     Overtaken, Status, Creating, Approving, Stamping, Disapproving,
     walletVars, dbVars, timeVars, stampVars, histVars
<1>6. ASSUME NEW w \in Workers, NEW ids \in SUBSET Withdrawals,
             BoApproveWithdrawal(w, ids)
      PROVE  TypeOK'
  BY <1>6 DEF BoApproveWithdrawal, Begin, Pending, Goto, TypeOK, AccountsOf,
     SharedAccounts, Overtaken, Status, Creating, Approving, Stamping,
     Disapproving, walletVars, dbVars, timeVars, stampVars, histVars
<1>7. ASSUME NEW w \in Workers, NEW ids \in SUBSET Withdrawals,
             DisapproveWithdrawal(w, ids)
      PROVE  TypeOK'
  BY <1>7 DEF DisapproveWithdrawal, Begin, Pending, Goto, TypeOK, AccountsOf,
     SharedAccounts, Overtaken, Status, Creating, Approving, Stamping,
     Disapproving, walletVars, dbVars, timeVars, stampVars, histVars
<1>8. ASSUME NEW w \in Workers, ApproveRows(w)
      PROVE  TypeOK'
  BY <1>8 DEF ApproveRows, UpdateRows, Goto, TypeOK, AccountsOf,
     SharedAccounts, Overtaken, Status, Creating, Approving, Stamping,
     Disapproving, walletVars, dbVars, timeVars, stampVars, histVars
<1>9. ASSUME NEW w \in Workers, ReadAccount(w)
      PROVE  TypeOK'
  BY <1>9 DEF ReadAccount, Goto, TypeOK, AccountsOf, SharedAccounts, Overtaken,
     Status, Creating, Approving, Stamping, Disapproving, walletVars, dbVars,
     timeVars, stampVars, histVars
<1>10. ASSUME NEW w \in Workers, UpdateAccount(w)
       PROVE  TypeOK'
  BY <1>10 DEF UpdateAccount, Goto, TypeOK, AccountsOf, SharedAccounts,
     Overtaken, Status, Creating, Approving, Stamping, Disapproving,
     walletVars, dbVars, timeVars, stampVars, histVars
<1>11. ASSUME NEW w \in Workers, CommitApprove(w)
       PROVE  TypeOK'
  BY <1>11 DEF CommitApprove, End, Goto, TypeOK, AccountsOf, SharedAccounts,
     Overtaken, Status, Creating, Approving, Stamping, Disapproving,
     walletVars, dbVars, timeVars, stampVars, histVars
<1>12. ASSUME NEW w \in Workers, Refund(w)
       PROVE  TypeOK'
  <2>1. PICK t \in todo[w] :
          /\ todo' = [todo EXCEPT ![w] = todo[w] \ {t}]
          /\ \/ GiveBack(t) /\ done' \in {done, [done EXCEPT ![w] = done[w] \cup {t}]}
                  /\ incident' \in {incident, incident \cup {t}}
             \/ UNCHANGED <<walletVars, done, incident, stale>>
    BY <1>12 DEF Refund
  <2>2. pc[w] = "refund" /\ UNCHANGED <<dbVars, rowLock, pc, stampVars, overdrawn>>
    BY <1>12 DEF Refund
  <2>3. t \in Withdrawals
    BY DEF TypeOK
  <2>4. CASE GiveBack(t)
    BY <2>1, <2>2, <2>3, <2>4
       DEF GiveBack, TypeOK, Overtaken, Creating, Approving, Stamping,
          Disapproving, walletVars, dbVars, timeVars, stampVars, histVars
  <2>5. CASE UNCHANGED <<walletVars, done, incident, stale>>
    BY <2>1, <2>2, <2>3, <2>5
       DEF GiveBack, TypeOK, Overtaken, Creating, Approving, Stamping,
          Disapproving, walletVars, dbVars, timeVars, stampVars, histVars
  <2>. QED
    BY <2>1, <2>4, <2>5
<1>13. ASSUME NEW w \in Workers, CloseRows(w)
       PROVE  TypeOK'
  BY <1>13 DEF CloseRows, UpdateRows, Goto, TypeOK, AccountsOf, SharedAccounts,
     Overtaken, Status, Creating, Approving, Stamping, Disapproving,
     walletVars, dbVars, timeVars, stampVars, histVars
<1>14. ASSUME NEW w \in Workers, NothingRefunded(w)
       PROVE  TypeOK'
  BY <1>14 DEF NothingRefunded, End, Goto, TypeOK, AccountsOf, SharedAccounts,
     Overtaken, Status, Creating, Approving, Stamping, Disapproving,
     walletVars, dbVars, timeVars, stampVars, histVars
<1>15. ASSUME NEW w \in Workers, CommitClose(w)
       PROVE  TypeOK'
  BY <1>15 DEF CommitClose, End, Goto, TypeOK, AccountsOf, SharedAccounts,
     Overtaken, Status, Creating, Approving, Stamping, Disapproving,
     walletVars, dbVars, timeVars, stampVars, histVars
<1>16. ASSUME NEW w \in Workers, Fail(w)
       PROVE  TypeOK'
  BY <1>16 DEF Fail, End, Goto, TypeOK, AccountsOf, SharedAccounts, Overtaken,
     Status, Creating, Approving, Stamping, Disapproving, walletVars, dbVars,
     timeVars, stampVars, histVars
<1>17. ASSUME NEW a \in Accounts, Spend(a)
       PROVE  TypeOK'
  BY <1>17 DEF Spend, TypeOK, AccountsOf, SharedAccounts, Overtaken, Status,
     Creating, Approving, Stamping, Disapproving, walletVars, dbVars, timeVars,
     stampVars, histVars
<1>18. ASSUME NEW a \in Accounts, Earn(a)
       PROVE  TypeOK'
  BY <1>18 DEF Earn, TypeOK, AccountsOf, SharedAccounts, Overtaken, Status,
     Creating, Approving, Stamping, Disapproving, walletVars, dbVars, timeVars,
     stampVars, histVars
<1>19. CASE UNCHANGED vars
  BY <1>19 DEF vars, TypeOK, AccountsOf, SharedAccounts, Overtaken, Status,
     Creating, Approving, Stamping, Disapproving, walletVars, dbVars, timeVars,
     stampVars, histVars
<1>. QED
  BY <1>1, <1>2, <1>3, <1>4, <1>5, <1>6, <1>7, <1>8, <1>9, <1>10, <1>11, <1>12,
     <1>13, <1>14, <1>15, <1>16, <1>17, <1>18, <1>19
     DEF Next, Create, Decide

(* Requests keep to their rows. *)
LEMMA StepWork ==
  ASSUME TypeOK, TypeOK', WorkInv, [Next]_vars
  PROVE  WorkInv'
<1>. USE WithdrawalAssumption
<1>1. ASSUME NEW w \in Workers, NEW t \in Withdrawals, CreateWithdrawal(w, t)
      PROVE  WorkInv'
  BY <1>1 DEF CreateWithdrawal, Goto, TypeOK, WorkInv, CreatingInv,
     DecidingInv, Involved, Status, Creating, Approving, Stamping,
     Disapproving, walletVars, dbVars, timeVars, stampVars, histVars
<1>2. ASSUME NEW w \in Workers, CheckBalance(w)
      PROVE  WorkInv'
  <2>1. PICK t \in todo[w] :
          IF balance[OwnerOf[t]] < Amount[t] THEN End(w)
          ELSE Goto(w, "debit") /\ UNCHANGED <<rowLock, todo, done, stampVars>>
    BY <1>2 DEF CheckBalance
  <2>2. pc[w] = "check" /\ UNCHANGED <<dbVars, walletVars, histVars>>
    BY <1>2 DEF CheckBalance
  <2>3. CASE End(w)
    BY <2>2, <2>3
       DEF End, Goto, TypeOK, WorkInv, CreatingInv, DecidingInv, Involved,
          Creating, Approving, Stamping, Disapproving, walletVars, dbVars,
          timeVars, stampVars, histVars
  <2>4. CASE Goto(w, "debit") /\ UNCHANGED <<rowLock, todo, done, stampVars>>
    BY <2>2, <2>4
       DEF End, Goto, TypeOK, WorkInv, CreatingInv, DecidingInv, Involved,
          Creating, Approving, Stamping, Disapproving, walletVars, dbVars,
          timeVars, stampVars, histVars
  <2>. QED
    BY <2>1, <2>3, <2>4
<1>3. ASSUME NEW w \in Workers, Debit(w)
      PROVE  WorkInv'
  BY <1>3 DEF Debit, Take, Goto, TypeOK, WorkInv, CreatingInv, DecidingInv,
     Involved, Status, Creating, Approving, Stamping, Disapproving, walletVars,
     dbVars, timeVars, stampVars, histVars
<1>4. ASSUME NEW w \in Workers, DebitFails(w)
      PROVE  WorkInv'
  BY <1>4 DEF DebitFails, Take, End, Goto, TypeOK, WorkInv, CreatingInv,
     DecidingInv, Involved, Status, Creating, Approving, Stamping,
     Disapproving, walletVars, dbVars, timeVars, stampVars, histVars
<1>5. ASSUME NEW w \in Workers, CommitCreate(w)
      PROVE  WorkInv'
  BY <1>5 DEF CommitCreate, End, Goto, TypeOK, WorkInv, CreatingInv,
     DecidingInv, Involved, Status, Creating, Approving, Stamping,
     Disapproving, walletVars, dbVars, timeVars, stampVars, histVars
<1>6. ASSUME NEW w \in Workers, NEW ids \in SUBSET Withdrawals,
             BoApproveWithdrawal(w, ids)
      PROVE  WorkInv'
  BY <1>6 DEF BoApproveWithdrawal, Begin, Pending, Goto, TypeOK, WorkInv,
     CreatingInv, DecidingInv, Involved, Status, Creating, Approving, Stamping,
     Disapproving, walletVars, dbVars, timeVars, stampVars, histVars
<1>7. ASSUME NEW w \in Workers, NEW ids \in SUBSET Withdrawals,
             DisapproveWithdrawal(w, ids)
      PROVE  WorkInv'
  BY <1>7 DEF DisapproveWithdrawal, Begin, Pending, Goto, TypeOK, WorkInv,
     CreatingInv, DecidingInv, Involved, Status, Creating, Approving, Stamping,
     Disapproving, walletVars, dbVars, timeVars, stampVars, histVars
<1>8. ASSUME NEW w \in Workers, ApproveRows(w)
      PROVE  WorkInv'
  BY <1>8 DEF ApproveRows, UpdateRows, Goto, TypeOK, WorkInv, CreatingInv,
     DecidingInv, Involved, Status, Creating, Approving, Stamping,
     Disapproving, walletVars, dbVars, timeVars, stampVars, histVars
<1>9. ASSUME NEW w \in Workers, ReadAccount(w)
      PROVE  WorkInv'
  BY <1>9 DEF ReadAccount, Goto, TypeOK, WorkInv, CreatingInv, DecidingInv,
     Involved, Status, Creating, Approving, Stamping, Disapproving, walletVars,
     dbVars, timeVars, stampVars, histVars
<1>10. ASSUME NEW w \in Workers, UpdateAccount(w)
       PROVE  WorkInv'
  BY <1>10 DEF UpdateAccount, Goto, TypeOK, WorkInv, CreatingInv, DecidingInv,
     Involved, Status, Creating, Approving, Stamping, Disapproving, walletVars,
     dbVars, timeVars, stampVars, histVars
<1>11. ASSUME NEW w \in Workers, CommitApprove(w)
       PROVE  WorkInv'
  BY <1>11 DEF CommitApprove, End, Goto, TypeOK, WorkInv, CreatingInv,
     DecidingInv, Involved, Status, Creating, Approving, Stamping,
     Disapproving, walletVars, dbVars, timeVars, stampVars, histVars
<1>12. ASSUME NEW w \in Workers, Refund(w)
       PROVE  WorkInv'
  BY <1>12 DEF Refund, GiveBack, TypeOK, WorkInv, CreatingInv, DecidingInv,
     Involved, Status, Creating, Approving, Stamping, Disapproving, walletVars,
     dbVars, timeVars, stampVars, histVars
<1>13. ASSUME NEW w \in Workers, CloseRows(w)
       PROVE  WorkInv'
  BY <1>13 DEF CloseRows, UpdateRows, Goto, TypeOK, WorkInv, CreatingInv,
     DecidingInv, Involved, Status, Creating, Approving, Stamping,
     Disapproving, walletVars, dbVars, timeVars, stampVars, histVars
<1>14. ASSUME NEW w \in Workers, NothingRefunded(w)
       PROVE  WorkInv'
  BY <1>14 DEF NothingRefunded, End, Goto, TypeOK, WorkInv, CreatingInv,
     DecidingInv, Involved, Status, Creating, Approving, Stamping,
     Disapproving, walletVars, dbVars, timeVars, stampVars, histVars
<1>15. ASSUME NEW w \in Workers, CommitClose(w)
       PROVE  WorkInv'
  BY <1>15 DEF CommitClose, End, Goto, TypeOK, WorkInv, CreatingInv,
     DecidingInv, Involved, Status, Creating, Approving, Stamping,
     Disapproving, walletVars, dbVars, timeVars, stampVars, histVars
<1>16. ASSUME NEW w \in Workers, Fail(w)
       PROVE  WorkInv'
  BY <1>16 DEF Fail, End, Goto, TypeOK, WorkInv, CreatingInv, DecidingInv,
     Involved, Status, Creating, Approving, Stamping, Disapproving, walletVars,
     dbVars, timeVars, stampVars, histVars
<1>17. ASSUME NEW a \in Accounts, Spend(a)
       PROVE  WorkInv'
  BY <1>17 DEF Spend, TypeOK, WorkInv, CreatingInv, DecidingInv, Involved,
     Status, Creating, Approving, Stamping, Disapproving, walletVars, dbVars,
     timeVars, stampVars, histVars
<1>18. ASSUME NEW a \in Accounts, Earn(a)
       PROVE  WorkInv'
  BY <1>18 DEF Earn, TypeOK, WorkInv, CreatingInv, DecidingInv, Involved,
     Status, Creating, Approving, Stamping, Disapproving, walletVars, dbVars,
     timeVars, stampVars, histVars
<1>19. CASE UNCHANGED vars
  BY <1>19 DEF vars, TypeOK, WorkInv, CreatingInv, DecidingInv, Involved,
     Status, Creating, Approving, Stamping, Disapproving, walletVars, dbVars,
     timeVars, stampVars, histVars
<1>. QED
  BY <1>1, <1>2, <1>3, <1>4, <1>5, <1>6, <1>7, <1>8, <1>9, <1>10, <1>11, <1>12,
     <1>13, <1>14, <1>15, <1>16, <1>17, <1>18, <1>19
     DEF Next, Create, Decide

(* The wallet comes first. *)
LEMMA StepRow ==
  ASSUME TypeOK, WorkInv, RowNeedsMoney, [Next]_vars
  PROVE  RowNeedsMoney'
<1>. USE WithdrawalAssumption
<1>1. ASSUME NEW w \in Workers, NEW t \in Withdrawals, CreateWithdrawal(w, t)
      PROVE  RowNeedsMoney'
  BY <1>1 DEF CreateWithdrawal, Goto, TypeOK, WorkInv, CreatingInv,
     DecidingInv, Involved, RowNeedsMoney, Status, Creating, Approving,
     Stamping, Disapproving, walletVars, dbVars, timeVars, stampVars, histVars
<1>2. ASSUME NEW w \in Workers, CheckBalance(w)
      PROVE  RowNeedsMoney'
  BY <1>2 DEF CheckBalance, End, Goto, TypeOK, WorkInv, CreatingInv,
     DecidingInv, Involved, RowNeedsMoney, Status, Creating, Approving,
     Stamping, Disapproving, walletVars, dbVars, timeVars, stampVars, histVars
<1>3. ASSUME NEW w \in Workers, Debit(w)
      PROVE  RowNeedsMoney'
  BY <1>3 DEF Debit, Take, Goto, TypeOK, WorkInv, CreatingInv, DecidingInv,
     Involved, RowNeedsMoney, Status, Creating, Approving, Stamping,
     Disapproving, walletVars, dbVars, timeVars, stampVars, histVars
<1>4. ASSUME NEW w \in Workers, DebitFails(w)
      PROVE  RowNeedsMoney'
  BY <1>4 DEF DebitFails, Take, End, Goto, TypeOK, WorkInv, CreatingInv,
     DecidingInv, Involved, RowNeedsMoney, Status, Creating, Approving,
     Stamping, Disapproving, walletVars, dbVars, timeVars, stampVars, histVars
<1>5. ASSUME NEW w \in Workers, CommitCreate(w)
      PROVE  RowNeedsMoney'
  BY <1>5 DEF CommitCreate, End, Goto, TypeOK, WorkInv, CreatingInv,
     DecidingInv, Involved, RowNeedsMoney, Status, Creating, Approving,
     Stamping, Disapproving, walletVars, dbVars, timeVars, stampVars, histVars
<1>6. ASSUME NEW w \in Workers, NEW ids \in SUBSET Withdrawals,
             BoApproveWithdrawal(w, ids)
      PROVE  RowNeedsMoney'
  BY <1>6 DEF BoApproveWithdrawal, Begin, Pending, Goto, TypeOK, WorkInv,
     CreatingInv, DecidingInv, Involved, RowNeedsMoney, Status, Creating,
     Approving, Stamping, Disapproving, walletVars, dbVars, timeVars,
     stampVars, histVars
<1>7. ASSUME NEW w \in Workers, NEW ids \in SUBSET Withdrawals,
             DisapproveWithdrawal(w, ids)
      PROVE  RowNeedsMoney'
  BY <1>7 DEF DisapproveWithdrawal, Begin, Pending, Goto, TypeOK, WorkInv,
     CreatingInv, DecidingInv, Involved, RowNeedsMoney, Status, Creating,
     Approving, Stamping, Disapproving, walletVars, dbVars, timeVars,
     stampVars, histVars
<1>8. ASSUME NEW w \in Workers, ApproveRows(w)
      PROVE  RowNeedsMoney'
  BY <1>8 DEF ApproveRows, UpdateRows, Goto, TypeOK, WorkInv, CreatingInv,
     DecidingInv, Involved, RowNeedsMoney, Status, Creating, Approving,
     Stamping, Disapproving, walletVars, dbVars, timeVars, stampVars, histVars
<1>9. ASSUME NEW w \in Workers, ReadAccount(w)
      PROVE  RowNeedsMoney'
  BY <1>9 DEF ReadAccount, Goto, TypeOK, WorkInv, CreatingInv, DecidingInv,
     Involved, RowNeedsMoney, Status, Creating, Approving, Stamping,
     Disapproving, walletVars, dbVars, timeVars, stampVars, histVars
<1>10. ASSUME NEW w \in Workers, UpdateAccount(w)
       PROVE  RowNeedsMoney'
  BY <1>10 DEF UpdateAccount, Goto, TypeOK, WorkInv, CreatingInv, DecidingInv,
     Involved, RowNeedsMoney, Status, Creating, Approving, Stamping,
     Disapproving, walletVars, dbVars, timeVars, stampVars, histVars
<1>11. ASSUME NEW w \in Workers, CommitApprove(w)
       PROVE  RowNeedsMoney'
  BY <1>11 DEF CommitApprove, End, Goto, TypeOK, WorkInv, CreatingInv,
     DecidingInv, Involved, RowNeedsMoney, Status, Creating, Approving,
     Stamping, Disapproving, walletVars, dbVars, timeVars, stampVars, histVars
<1>12. ASSUME NEW w \in Workers, Refund(w)
       PROVE  RowNeedsMoney'
  BY <1>12 DEF Refund, GiveBack, TypeOK, WorkInv, CreatingInv, DecidingInv,
     Involved, RowNeedsMoney, Status, Creating, Approving, Stamping,
     Disapproving, walletVars, dbVars, timeVars, stampVars, histVars
<1>13. ASSUME NEW w \in Workers, CloseRows(w)
       PROVE  RowNeedsMoney'
  BY <1>13 DEF CloseRows, UpdateRows, Goto, TypeOK, WorkInv, CreatingInv,
     DecidingInv, Involved, RowNeedsMoney, Status, Creating, Approving,
     Stamping, Disapproving, walletVars, dbVars, timeVars, stampVars, histVars
<1>14. ASSUME NEW w \in Workers, NothingRefunded(w)
       PROVE  RowNeedsMoney'
  BY <1>14 DEF NothingRefunded, End, Goto, TypeOK, WorkInv, CreatingInv,
     DecidingInv, Involved, RowNeedsMoney, Status, Creating, Approving,
     Stamping, Disapproving, walletVars, dbVars, timeVars, stampVars, histVars
<1>15. ASSUME NEW w \in Workers, CommitClose(w)
       PROVE  RowNeedsMoney'
  BY <1>15 DEF CommitClose, End, Goto, TypeOK, WorkInv, CreatingInv,
     DecidingInv, Involved, RowNeedsMoney, Status, Creating, Approving,
     Stamping, Disapproving, walletVars, dbVars, timeVars, stampVars, histVars
<1>16. ASSUME NEW w \in Workers, Fail(w)
       PROVE  RowNeedsMoney'
  BY <1>16 DEF Fail, End, Goto, TypeOK, WorkInv, CreatingInv, DecidingInv,
     Involved, RowNeedsMoney, Status, Creating, Approving, Stamping,
     Disapproving, walletVars, dbVars, timeVars, stampVars, histVars
<1>17. ASSUME NEW a \in Accounts, Spend(a)
       PROVE  RowNeedsMoney'
  BY <1>17 DEF Spend, TypeOK, WorkInv, CreatingInv, DecidingInv, Involved,
     RowNeedsMoney, Status, Creating, Approving, Stamping, Disapproving,
     walletVars, dbVars, timeVars, stampVars, histVars
<1>18. ASSUME NEW a \in Accounts, Earn(a)
       PROVE  RowNeedsMoney'
  BY <1>18 DEF Earn, TypeOK, WorkInv, CreatingInv, DecidingInv, Involved,
     RowNeedsMoney, Status, Creating, Approving, Stamping, Disapproving,
     walletVars, dbVars, timeVars, stampVars, histVars
<1>19. CASE UNCHANGED vars
  BY <1>19 DEF vars, TypeOK, WorkInv, CreatingInv, DecidingInv, Involved,
     RowNeedsMoney, Status, Creating, Approving, Stamping, Disapproving,
     walletVars, dbVars, timeVars, stampVars, histVars
<1>. QED
  BY <1>1, <1>2, <1>3, <1>4, <1>5, <1>6, <1>7, <1>8, <1>9, <1>10, <1>11, <1>12,
     <1>13, <1>14, <1>15, <1>16, <1>17, <1>18, <1>19
     DEF Next, Create, Decide

(* Only an incident separates the money from the row. *)
LEMMA StepMoney ==
  ASSUME TypeOK, TypeOK', WorkInv, RowNeedsMoney, NoIncidentInv, [Next]_vars
  PROVE  NoIncidentInv'
<1>. USE WithdrawalAssumption
<1>1. ASSUME NEW w \in Workers, NEW t \in Withdrawals, CreateWithdrawal(w, t)
      PROVE  NoIncidentInv'
  BY <1>1 DEF CreateWithdrawal, Goto, TypeOK, WorkInv, CreatingInv,
     DecidingInv, Involved, NoIncidentInv, MoneyInv, Refunding, Status,
     Creating, Approving, Stamping, Disapproving, walletVars, dbVars, timeVars,
     stampVars, histVars
<1>2. ASSUME NEW w \in Workers, CheckBalance(w)
      PROVE  NoIncidentInv'
  <2>1. PICK t \in todo[w] :
          IF balance[OwnerOf[t]] < Amount[t] THEN End(w)
          ELSE Goto(w, "debit") /\ UNCHANGED <<rowLock, todo, done, stampVars>>
    BY <1>2 DEF CheckBalance
  <2>2. UNCHANGED <<dbVars, walletVars, histVars>>
    BY <1>2 DEF CheckBalance
  <2>3. pc[w] = "check"
    BY <1>2 DEF CheckBalance
  <2>4. CASE End(w)
    BY <2>2, <2>3, <2>4
       DEF End, Goto, TypeOK, WorkInv, CreatingInv, Involved, NoIncidentInv,
           MoneyInv, Refunding, Creating, Approving, Stamping, Disapproving,
           walletVars, dbVars, histVars
  <2>5. CASE Goto(w, "debit") /\ UNCHANGED <<rowLock, todo, done, stampVars>>
    BY <2>2, <2>3, <2>5
       DEF Goto, TypeOK, Involved, NoIncidentInv, MoneyInv, Refunding,
           Approving, Stamping, Disapproving, walletVars, dbVars, histVars
  <2>. QED
    BY <2>1, <2>4, <2>5
<1>3. ASSUME NEW w \in Workers, Debit(w)
      PROVE  NoIncidentInv'
  BY <1>3 DEF Debit, Take, Goto, TypeOK, WorkInv, CreatingInv, DecidingInv,
     Involved, NoIncidentInv, MoneyInv, Refunding, Status, Creating, Approving,
     Stamping, Disapproving, walletVars, dbVars, timeVars, stampVars, histVars
<1>4. ASSUME NEW w \in Workers, DebitFails(w)
      PROVE  NoIncidentInv'
  BY <1>4 DEF DebitFails, Take, End, Goto, TypeOK, WorkInv, CreatingInv,
     DecidingInv, Involved, NoIncidentInv, MoneyInv, Refunding, Status,
     Creating, Approving, Stamping, Disapproving, walletVars, dbVars, timeVars,
     stampVars, histVars
<1>5. ASSUME NEW w \in Workers, CommitCreate(w)
      PROVE  NoIncidentInv'
  BY <1>5 DEF CommitCreate, End, Goto, TypeOK, WorkInv, CreatingInv,
     DecidingInv, Involved, NoIncidentInv, MoneyInv, Refunding, Status,
     Creating, Approving, Stamping, Disapproving, walletVars, dbVars, timeVars,
     stampVars, histVars
<1>6. ASSUME NEW w \in Workers, NEW ids \in SUBSET Withdrawals,
             BoApproveWithdrawal(w, ids)
      PROVE  NoIncidentInv'
  BY <1>6 DEF BoApproveWithdrawal, Begin, Pending, Goto, TypeOK, WorkInv,
     CreatingInv, DecidingInv, Involved, NoIncidentInv, MoneyInv, Refunding,
     Status, Creating, Approving, Stamping, Disapproving, walletVars, dbVars,
     timeVars, stampVars, histVars
<1>7. ASSUME NEW w \in Workers, NEW ids \in SUBSET Withdrawals,
             DisapproveWithdrawal(w, ids)
      PROVE  NoIncidentInv'
  BY <1>7 DEF DisapproveWithdrawal, Begin, Pending, Goto, TypeOK, WorkInv,
     CreatingInv, DecidingInv, Involved, NoIncidentInv, MoneyInv, Refunding,
     Status, Creating, Approving, Stamping, Disapproving, walletVars, dbVars,
     timeVars, stampVars, histVars
<1>8. ASSUME NEW w \in Workers, ApproveRows(w)
      PROVE  NoIncidentInv'
  BY <1>8 DEF ApproveRows, UpdateRows, Goto, TypeOK, WorkInv, CreatingInv,
     DecidingInv, Involved, NoIncidentInv, MoneyInv, Refunding, Status,
     Creating, Approving, Stamping, Disapproving, walletVars, dbVars, timeVars,
     stampVars, histVars
<1>9. ASSUME NEW w \in Workers, ReadAccount(w)
      PROVE  NoIncidentInv'
  BY <1>9 DEF ReadAccount, Goto, TypeOK, WorkInv, CreatingInv, DecidingInv,
     Involved, NoIncidentInv, MoneyInv, Refunding, Status, Creating, Approving,
     Stamping, Disapproving, walletVars, dbVars, timeVars, stampVars, histVars
<1>10. ASSUME NEW w \in Workers, UpdateAccount(w)
       PROVE  NoIncidentInv'
  BY <1>10 DEF UpdateAccount, Goto, TypeOK, WorkInv, CreatingInv, DecidingInv,
     Involved, NoIncidentInv, MoneyInv, Refunding, Status, Creating, Approving,
     Stamping, Disapproving, walletVars, dbVars, timeVars, stampVars, histVars
<1>11. ASSUME NEW w \in Workers, CommitApprove(w)
       PROVE  NoIncidentInv'
  BY <1>11 DEF CommitApprove, End, Goto, TypeOK, WorkInv, CreatingInv,
     DecidingInv, Involved, NoIncidentInv, MoneyInv, Refunding, Status,
     Creating, Approving, Stamping, Disapproving, walletVars, dbVars, timeVars,
     stampVars, histVars
<1>12. ASSUME NEW w \in Workers, Refund(w)
       PROVE  NoIncidentInv'
  BY <1>12 DEF Refund, GiveBack, TypeOK, WorkInv, CreatingInv, DecidingInv,
     Involved, NoIncidentInv, MoneyInv, Refunding, Status, Creating, Approving,
     Stamping, Disapproving, walletVars, dbVars, timeVars, stampVars, histVars
<1>13. ASSUME NEW w \in Workers, CloseRows(w)
       PROVE  NoIncidentInv'
  BY <1>13 DEF CloseRows, UpdateRows, Goto, TypeOK, WorkInv, CreatingInv,
     DecidingInv, Involved, NoIncidentInv, MoneyInv, Refunding, Status,
     Creating, Approving, Stamping, Disapproving, walletVars, dbVars, timeVars,
     stampVars, histVars
<1>14. ASSUME NEW w \in Workers, NothingRefunded(w)
       PROVE  NoIncidentInv'
  BY <1>14 DEF NothingRefunded, End, Goto, TypeOK, WorkInv, CreatingInv,
     DecidingInv, Involved, NoIncidentInv, MoneyInv, Refunding, Status,
     Creating, Approving, Stamping, Disapproving, walletVars, dbVars, timeVars,
     stampVars, histVars
<1>15. ASSUME NEW w \in Workers, CommitClose(w)
       PROVE  NoIncidentInv'
  BY <1>15 DEF CommitClose, End, Goto, TypeOK, WorkInv, CreatingInv,
     DecidingInv, Involved, NoIncidentInv, MoneyInv, Refunding, Status,
     Creating, Approving, Stamping, Disapproving, walletVars, dbVars, timeVars,
     stampVars, histVars
<1>16. ASSUME NEW w \in Workers, Fail(w)
       PROVE  NoIncidentInv'
  BY <1>16 DEF Fail, End, Goto, TypeOK, WorkInv, CreatingInv, DecidingInv,
     Involved, NoIncidentInv, MoneyInv, Refunding, Status, Creating, Approving,
     Stamping, Disapproving, walletVars, dbVars, timeVars, stampVars, histVars
<1>17. ASSUME NEW a \in Accounts, Spend(a)
       PROVE  NoIncidentInv'
  BY <1>17 DEF Spend, TypeOK, WorkInv, CreatingInv, DecidingInv, Involved,
     NoIncidentInv, MoneyInv, Refunding, Status, Creating, Approving, Stamping,
     Disapproving, walletVars, dbVars, timeVars, stampVars, histVars
<1>18. ASSUME NEW a \in Accounts, Earn(a)
       PROVE  NoIncidentInv'
  BY <1>18 DEF Earn, TypeOK, WorkInv, CreatingInv, DecidingInv, Involved,
     NoIncidentInv, MoneyInv, Refunding, Status, Creating, Approving, Stamping,
     Disapproving, walletVars, dbVars, timeVars, stampVars, histVars
<1>19. CASE UNCHANGED vars
  BY <1>19 DEF vars, TypeOK, WorkInv, CreatingInv, DecidingInv, Involved,
     NoIncidentInv, MoneyInv, Refunding, Status, Creating, Approving, Stamping,
     Disapproving, walletVars, dbVars, timeVars, stampVars, histVars
<1>. QED
  BY <1>1, <1>2, <1>3, <1>4, <1>5, <1>6, <1>7, <1>8, <1>9, <1>10, <1>11, <1>12,
     <1>13, <1>14, <1>15, <1>16, <1>17, <1>18, <1>19
     DEF Next, Create, Decide

(* A checked balance is lowered only with its request marked stale. *)
LEMMA StepChecked ==
  ASSUME TypeOK, WorkInv, CheckedInv, OverdraftNeedsRace, [Next]_vars
  PROVE  (CheckedInv /\ OverdraftNeedsRace)'
<1>. USE WithdrawalAssumption
<1>1. ASSUME NEW w \in Workers, NEW t \in Withdrawals, CreateWithdrawal(w, t)
      PROVE  (CheckedInv /\ OverdraftNeedsRace)'
  BY <1>1 DEF CreateWithdrawal, Goto, TypeOK, WorkInv, CreatingInv, CheckedInv,
     OverdraftNeedsRace, Overtaken, Status, Creating, Approving, Stamping,
     Disapproving, walletVars, dbVars, timeVars, stampVars, histVars
<1>2. ASSUME NEW w \in Workers, CheckBalance(w)
      PROVE  (CheckedInv /\ OverdraftNeedsRace)'
  BY <1>2 DEF CheckBalance, End, Goto, TypeOK, WorkInv, CreatingInv,
     CheckedInv, OverdraftNeedsRace, Overtaken, Status, Creating, Approving,
     Stamping, Disapproving, walletVars, dbVars, timeVars, stampVars, histVars
<1>3. ASSUME NEW w \in Workers, Debit(w)
      PROVE  (CheckedInv /\ OverdraftNeedsRace)'
  BY <1>3 DEF Debit, Take, Goto, TypeOK, WorkInv, CreatingInv, CheckedInv,
     OverdraftNeedsRace, Overtaken, Status, Creating, Approving, Stamping,
     Disapproving, walletVars, dbVars, timeVars, stampVars, histVars
<1>4. ASSUME NEW w \in Workers, DebitFails(w)
      PROVE  (CheckedInv /\ OverdraftNeedsRace)'
  <2>1. pc[w] = "debit" /\ End(w) /\ UNCHANGED dbVars
    BY <1>4 DEF DebitFails
  <2>2. CASE stale' = stale \ {w} /\ UNCHANGED <<walletVars, incident, overdrawn>>
    BY <2>1, <2>2
       DEF End, Goto, TypeOK, CheckedInv, OverdraftNeedsRace, Creating, walletVars
  <2>3. ASSUME NEW t \in todo[w], Take(w, t)
        PROVE  (CheckedInv /\ OverdraftNeedsRace)'
    <3>1. t \in Withdrawals /\ todo[w] = {t}
      BY <2>1 DEF TypeOK, WorkInv, CreatingInv, Creating
    <3>2. CheckedInv'
      BY <2>1, <2>3, <3>1 DEF Take, Overtaken, End, Goto, TypeOK, CheckedInv, Creating
    <3>3. OverdraftNeedsRace'
      BY <2>1, <2>3, <3>1 DEF Take, TypeOK, CheckedInv, OverdraftNeedsRace
    <3>. QED
      BY <3>2, <3>3
  <2>. QED
    BY <1>4, <2>2, <2>3 DEF DebitFails
<1>5. ASSUME NEW w \in Workers, CommitCreate(w)
      PROVE  (CheckedInv /\ OverdraftNeedsRace)'
  BY <1>5 DEF CommitCreate, End, Goto, TypeOK, WorkInv, CreatingInv,
     CheckedInv, OverdraftNeedsRace, Overtaken, Status, Creating, Approving,
     Stamping, Disapproving, walletVars, dbVars, timeVars, stampVars, histVars
<1>6. ASSUME NEW w \in Workers, NEW ids \in SUBSET Withdrawals,
             BoApproveWithdrawal(w, ids)
      PROVE  (CheckedInv /\ OverdraftNeedsRace)'
  BY <1>6 DEF BoApproveWithdrawal, Begin, Pending, Goto, TypeOK, WorkInv,
     CreatingInv, CheckedInv, OverdraftNeedsRace, Overtaken, Status, Creating,
     Approving, Stamping, Disapproving, walletVars, dbVars, timeVars,
     stampVars, histVars
<1>7. ASSUME NEW w \in Workers, NEW ids \in SUBSET Withdrawals,
             DisapproveWithdrawal(w, ids)
      PROVE  (CheckedInv /\ OverdraftNeedsRace)'
  BY <1>7 DEF DisapproveWithdrawal, Begin, Pending, Goto, TypeOK, WorkInv,
     CreatingInv, CheckedInv, OverdraftNeedsRace, Overtaken, Status, Creating,
     Approving, Stamping, Disapproving, walletVars, dbVars, timeVars,
     stampVars, histVars
<1>8. ASSUME NEW w \in Workers, ApproveRows(w)
      PROVE  (CheckedInv /\ OverdraftNeedsRace)'
  BY <1>8 DEF ApproveRows, UpdateRows, Goto, TypeOK, WorkInv, CreatingInv,
     CheckedInv, OverdraftNeedsRace, Overtaken, Status, Creating, Approving,
     Stamping, Disapproving, walletVars, dbVars, timeVars, stampVars, histVars
<1>9. ASSUME NEW w \in Workers, ReadAccount(w)
      PROVE  (CheckedInv /\ OverdraftNeedsRace)'
  BY <1>9 DEF ReadAccount, Goto, TypeOK, WorkInv, CreatingInv, CheckedInv,
     OverdraftNeedsRace, Overtaken, Status, Creating, Approving, Stamping,
     Disapproving, walletVars, dbVars, timeVars, stampVars, histVars
<1>10. ASSUME NEW w \in Workers, UpdateAccount(w)
       PROVE  (CheckedInv /\ OverdraftNeedsRace)'
  BY <1>10 DEF UpdateAccount, Goto, TypeOK, WorkInv, CreatingInv, CheckedInv,
     OverdraftNeedsRace, Overtaken, Status, Creating, Approving, Stamping,
     Disapproving, walletVars, dbVars, timeVars, stampVars, histVars
<1>11. ASSUME NEW w \in Workers, CommitApprove(w)
       PROVE  (CheckedInv /\ OverdraftNeedsRace)'
  BY <1>11 DEF CommitApprove, End, Goto, TypeOK, WorkInv, CreatingInv,
     CheckedInv, OverdraftNeedsRace, Overtaken, Status, Creating, Approving,
     Stamping, Disapproving, walletVars, dbVars, timeVars, stampVars, histVars
<1>12. ASSUME NEW w \in Workers, Refund(w)
       PROVE  (CheckedInv /\ OverdraftNeedsRace)'
  <2>1. PICK t \in todo[w] :
          /\ todo' = [todo EXCEPT ![w] = todo[w] \ {t}]
          /\ \/ GiveBack(t) /\ done' \in {done, [done EXCEPT ![w] = done[w] \cup {t}]}
                  /\ incident' \in {incident, incident \cup {t}}
             \/ UNCHANGED <<walletVars, done, incident, stale>>
    BY <1>12 DEF Refund
  <2>2. pc[w] = "refund" /\ UNCHANGED <<dbVars, rowLock, pc, stampVars, overdrawn>>
    BY <1>12 DEF Refund
  <2>3. t \in Withdrawals
    BY DEF TypeOK
  <2>4. CASE GiveBack(t)
    BY <2>1, <2>2, <2>3, <2>4
       DEF GiveBack, TypeOK, WorkInv, CreatingInv, CheckedInv,
          OverdraftNeedsRace, Overtaken, Creating, Approving, Stamping,
          Disapproving, walletVars, dbVars, timeVars, stampVars, histVars
  <2>5. CASE UNCHANGED <<walletVars, done, incident, stale>>
    BY <2>1, <2>2, <2>3, <2>5
       DEF GiveBack, TypeOK, WorkInv, CreatingInv, CheckedInv,
          OverdraftNeedsRace, Overtaken, Creating, Approving, Stamping,
          Disapproving, walletVars, dbVars, timeVars, stampVars, histVars
  <2>. QED
    BY <2>1, <2>4, <2>5
<1>13. ASSUME NEW w \in Workers, CloseRows(w)
       PROVE  (CheckedInv /\ OverdraftNeedsRace)'
  BY <1>13 DEF CloseRows, UpdateRows, Goto, TypeOK, WorkInv, CreatingInv,
     CheckedInv, OverdraftNeedsRace, Overtaken, Status, Creating, Approving,
     Stamping, Disapproving, walletVars, dbVars, timeVars, stampVars, histVars
<1>14. ASSUME NEW w \in Workers, NothingRefunded(w)
       PROVE  (CheckedInv /\ OverdraftNeedsRace)'
  BY <1>14 DEF NothingRefunded, End, Goto, TypeOK, WorkInv, CreatingInv,
     CheckedInv, OverdraftNeedsRace, Overtaken, Status, Creating, Approving,
     Stamping, Disapproving, walletVars, dbVars, timeVars, stampVars, histVars
<1>15. ASSUME NEW w \in Workers, CommitClose(w)
       PROVE  (CheckedInv /\ OverdraftNeedsRace)'
  BY <1>15 DEF CommitClose, End, Goto, TypeOK, WorkInv, CreatingInv,
     CheckedInv, OverdraftNeedsRace, Overtaken, Status, Creating, Approving,
     Stamping, Disapproving, walletVars, dbVars, timeVars, stampVars, histVars
<1>16. ASSUME NEW w \in Workers, Fail(w)
       PROVE  (CheckedInv /\ OverdraftNeedsRace)'
  BY <1>16 DEF Fail, End, Goto, TypeOK, WorkInv, CreatingInv, CheckedInv,
     OverdraftNeedsRace, Overtaken, Status, Creating, Approving, Stamping,
     Disapproving, walletVars, dbVars, timeVars, stampVars, histVars
<1>17. ASSUME NEW a \in Accounts, Spend(a)
       PROVE  (CheckedInv /\ OverdraftNeedsRace)'
  BY <1>17 DEF Spend, TypeOK, WorkInv, CreatingInv, CheckedInv,
     OverdraftNeedsRace, Overtaken, Status, Creating, Approving, Stamping,
     Disapproving, walletVars, dbVars, timeVars, stampVars, histVars
<1>18. ASSUME NEW a \in Accounts, Earn(a)
       PROVE  (CheckedInv /\ OverdraftNeedsRace)'
  BY <1>18 DEF Earn, TypeOK, WorkInv, CreatingInv, CheckedInv,
     OverdraftNeedsRace, Overtaken, Status, Creating, Approving, Stamping,
     Disapproving, walletVars, dbVars, timeVars, stampVars, histVars
<1>19. CASE UNCHANGED vars
  BY <1>19 DEF vars, TypeOK, WorkInv, CreatingInv, CheckedInv,
     OverdraftNeedsRace, Overtaken, Status, Creating, Approving, Stamping,
     Disapproving, walletVars, dbVars, timeVars, stampVars, histVars
<1>. QED
  BY <1>1, <1>2, <1>3, <1>4, <1>5, <1>6, <1>7, <1>8, <1>9, <1>10, <1>11, <1>12,
     <1>13, <1>14, <1>15, <1>16, <1>17, <1>18, <1>19
     DEF Next, Create, Decide

(* Approvals that stamp an account at once are noticed. *)
LEMMA StepCrowd ==
  ASSUME TypeOK, WorkInv, TimesInv, [Next]_vars
  PROVE  CrowdInv'
<1>. USE WithdrawalAssumption
<1>1. ASSUME NEW w \in Workers, NEW t \in Withdrawals, CreateWithdrawal(w, t)
      PROVE  CrowdInv'
  BY <1>1 DEF CreateWithdrawal, Goto, TypeOK, WorkInv, CreatingInv,
     DecidingInv, Involved, TimesInv, CrowdInv, AccountsOf, SharedAccounts,
     Status, Creating, Approving, Stamping, Disapproving, walletVars, dbVars,
     timeVars, stampVars, histVars
<1>2. ASSUME NEW w \in Workers, CheckBalance(w)
      PROVE  CrowdInv'
  BY <1>2 DEF CheckBalance, End, Goto, TypeOK, WorkInv, CreatingInv,
     DecidingInv, Involved, TimesInv, CrowdInv, AccountsOf, SharedAccounts,
     Status, Creating, Approving, Stamping, Disapproving, walletVars, dbVars,
     timeVars, stampVars, histVars
<1>3. ASSUME NEW w \in Workers, Debit(w)
      PROVE  CrowdInv'
  BY <1>3 DEF Debit, Take, Goto, TypeOK, WorkInv, CreatingInv, DecidingInv,
     Involved, TimesInv, CrowdInv, AccountsOf, SharedAccounts, Status,
     Creating, Approving, Stamping, Disapproving, walletVars, dbVars, timeVars,
     stampVars, histVars
<1>4. ASSUME NEW w \in Workers, DebitFails(w)
      PROVE  CrowdInv'
  BY <1>4 DEF DebitFails, Take, End, Goto, TypeOK, WorkInv, CreatingInv,
     DecidingInv, Involved, TimesInv, CrowdInv, AccountsOf, SharedAccounts,
     Status, Creating, Approving, Stamping, Disapproving, walletVars, dbVars,
     timeVars, stampVars, histVars
<1>5. ASSUME NEW w \in Workers, CommitCreate(w)
      PROVE  CrowdInv'
  BY <1>5 DEF CommitCreate, End, Goto, TypeOK, WorkInv, CreatingInv,
     DecidingInv, Involved, TimesInv, CrowdInv, AccountsOf, SharedAccounts,
     Status, Creating, Approving, Stamping, Disapproving, walletVars, dbVars,
     timeVars, stampVars, histVars
<1>6. ASSUME NEW w \in Workers, NEW ids \in SUBSET Withdrawals,
             BoApproveWithdrawal(w, ids)
      PROVE  CrowdInv'
  BY <1>6 DEF BoApproveWithdrawal, Begin, Pending, Goto, TypeOK, WorkInv,
     CreatingInv, DecidingInv, Involved, TimesInv, CrowdInv, AccountsOf,
     SharedAccounts, Status, Creating, Approving, Stamping, Disapproving,
     walletVars, dbVars, timeVars, stampVars, histVars
<1>7. ASSUME NEW w \in Workers, NEW ids \in SUBSET Withdrawals,
             DisapproveWithdrawal(w, ids)
      PROVE  CrowdInv'
  BY <1>7 DEF DisapproveWithdrawal, Begin, Pending, Goto, TypeOK, WorkInv,
     CreatingInv, DecidingInv, Involved, TimesInv, CrowdInv, AccountsOf,
     SharedAccounts, Status, Creating, Approving, Stamping, Disapproving,
     walletVars, dbVars, timeVars, stampVars, histVars
<1>8. ASSUME NEW w \in Workers, ApproveRows(w)
      PROVE  CrowdInv'
  BY <1>8 DEF ApproveRows, UpdateRows, Goto, TypeOK, WorkInv, CreatingInv,
     DecidingInv, Involved, TimesInv, CrowdInv, AccountsOf, SharedAccounts,
     Status, Creating, Approving, Stamping, Disapproving, walletVars, dbVars,
     timeVars, stampVars, histVars
<1>9. ASSUME NEW w \in Workers, ReadAccount(w)
      PROVE  CrowdInv'
  BY <1>9 DEF ReadAccount, Goto, TypeOK, WorkInv, CreatingInv, DecidingInv,
     Involved, TimesInv, CrowdInv, AccountsOf, SharedAccounts, Status,
     Creating, Approving, Stamping, Disapproving, walletVars, dbVars, timeVars,
     stampVars, histVars
<1>10. ASSUME NEW w \in Workers, UpdateAccount(w)
       PROVE  CrowdInv'
  BY <1>10 DEF UpdateAccount, Goto, TypeOK, WorkInv, CreatingInv, DecidingInv,
     Involved, TimesInv, CrowdInv, AccountsOf, SharedAccounts, Status,
     Creating, Approving, Stamping, Disapproving, walletVars, dbVars, timeVars,
     stampVars, histVars
<1>11. ASSUME NEW w \in Workers, CommitApprove(w)
       PROVE  CrowdInv'
  BY <1>11 DEF CommitApprove, End, Goto, TypeOK, WorkInv, CreatingInv,
     DecidingInv, Involved, TimesInv, CrowdInv, AccountsOf, SharedAccounts,
     Status, Creating, Approving, Stamping, Disapproving, walletVars, dbVars,
     timeVars, stampVars, histVars
<1>12. ASSUME NEW w \in Workers, Refund(w)
       PROVE  CrowdInv'
  BY <1>12 DEF Refund, GiveBack, TypeOK, WorkInv, CreatingInv, DecidingInv,
     Involved, TimesInv, CrowdInv, AccountsOf, SharedAccounts, Status,
     Creating, Approving, Stamping, Disapproving, walletVars, dbVars, timeVars,
     stampVars, histVars
<1>13. ASSUME NEW w \in Workers, CloseRows(w)
       PROVE  CrowdInv'
  BY <1>13 DEF CloseRows, UpdateRows, Goto, TypeOK, WorkInv, CreatingInv,
     DecidingInv, Involved, TimesInv, CrowdInv, AccountsOf, SharedAccounts,
     Status, Creating, Approving, Stamping, Disapproving, walletVars, dbVars,
     timeVars, stampVars, histVars
<1>14. ASSUME NEW w \in Workers, NothingRefunded(w)
       PROVE  CrowdInv'
  BY <1>14 DEF NothingRefunded, End, Goto, TypeOK, WorkInv, CreatingInv,
     DecidingInv, Involved, TimesInv, CrowdInv, AccountsOf, SharedAccounts,
     Status, Creating, Approving, Stamping, Disapproving, walletVars, dbVars,
     timeVars, stampVars, histVars
<1>15. ASSUME NEW w \in Workers, CommitClose(w)
       PROVE  CrowdInv'
  BY <1>15 DEF CommitClose, End, Goto, TypeOK, WorkInv, CreatingInv,
     DecidingInv, Involved, TimesInv, CrowdInv, AccountsOf, SharedAccounts,
     Status, Creating, Approving, Stamping, Disapproving, walletVars, dbVars,
     timeVars, stampVars, histVars
<1>16. ASSUME NEW w \in Workers, Fail(w)
       PROVE  CrowdInv'
  BY <1>16 DEF Fail, End, Goto, TypeOK, WorkInv, CreatingInv, DecidingInv,
     Involved, TimesInv, CrowdInv, AccountsOf, SharedAccounts, Status,
     Creating, Approving, Stamping, Disapproving, walletVars, dbVars, timeVars,
     stampVars, histVars
<1>17. ASSUME NEW a \in Accounts, Spend(a)
       PROVE  CrowdInv'
  BY <1>17 DEF Spend, TypeOK, WorkInv, CreatingInv, DecidingInv, Involved,
     TimesInv, CrowdInv, AccountsOf, SharedAccounts, Status, Creating,
     Approving, Stamping, Disapproving, walletVars, dbVars, timeVars,
     stampVars, histVars
<1>18. ASSUME NEW a \in Accounts, Earn(a)
       PROVE  CrowdInv'
  BY <1>18 DEF Earn, TypeOK, WorkInv, CreatingInv, DecidingInv, Involved,
     TimesInv, CrowdInv, AccountsOf, SharedAccounts, Status, Creating,
     Approving, Stamping, Disapproving, walletVars, dbVars, timeVars,
     stampVars, histVars
<1>19. CASE UNCHANGED vars
  BY <1>19 DEF vars, TypeOK, WorkInv, CreatingInv, DecidingInv, Involved,
     TimesInv, CrowdInv, AccountsOf, SharedAccounts, Status, Creating,
     Approving, Stamping, Disapproving, walletVars, dbVars, timeVars,
     stampVars, histVars
<1>. QED
  BY <1>1, <1>2, <1>3, <1>4, <1>5, <1>6, <1>7, <1>8, <1>9, <1>10, <1>11, <1>12,
     <1>13, <1>14, <1>15, <1>16, <1>17, <1>18, <1>19
     DEF Next, Create, Decide

(* Approvals keep to the times they have read and written. *)
LEMMA StepStamp ==
  ASSUME TypeOK, TypeOK', WorkInv, TimesInv, NEW v \in Workers, [Next]_vars
  PROVE  StampInv(v)'
<1>. USE WithdrawalAssumption
<1>1. ASSUME NEW w \in Workers, NEW t \in Withdrawals, CreateWithdrawal(w, t)
      PROVE  StampInv(v)'
  BY <1>1 DEF CreateWithdrawal, Goto, TypeOK, WorkInv, CreatingInv,
     DecidingInv, TimesInv, CrowdInv, StampInv, AccountsOf, Status, Creating,
     Approving, Stamping, Disapproving, walletVars, dbVars, timeVars,
     stampVars, histVars
<1>2. ASSUME NEW w \in Workers, CheckBalance(w)
      PROVE  StampInv(v)'
  BY <1>2 DEF CheckBalance, End, Goto, TypeOK, WorkInv, CreatingInv,
     DecidingInv, TimesInv, CrowdInv, StampInv, AccountsOf, Status, Creating,
     Approving, Stamping, Disapproving, walletVars, dbVars, timeVars,
     stampVars, histVars
<1>3. ASSUME NEW w \in Workers, Debit(w)
      PROVE  StampInv(v)'
  BY <1>3 DEF Debit, Take, Goto, TypeOK, WorkInv, CreatingInv, DecidingInv,
     TimesInv, CrowdInv, StampInv, AccountsOf, Status, Creating, Approving,
     Stamping, Disapproving, walletVars, dbVars, timeVars, stampVars, histVars
<1>4. ASSUME NEW w \in Workers, DebitFails(w)
      PROVE  StampInv(v)'
  BY <1>4 DEF DebitFails, Take, End, Goto, TypeOK, WorkInv, CreatingInv,
     DecidingInv, TimesInv, CrowdInv, StampInv, AccountsOf, Status, Creating,
     Approving, Stamping, Disapproving, walletVars, dbVars, timeVars,
     stampVars, histVars
<1>5. ASSUME NEW w \in Workers, CommitCreate(w)
      PROVE  StampInv(v)'
  BY <1>5 DEF CommitCreate, End, Goto, TypeOK, WorkInv, CreatingInv,
     DecidingInv, TimesInv, CrowdInv, StampInv, AccountsOf, Status, Creating,
     Approving, Stamping, Disapproving, walletVars, dbVars, timeVars,
     stampVars, histVars
<1>6. ASSUME NEW w \in Workers, NEW ids \in SUBSET Withdrawals,
             BoApproveWithdrawal(w, ids)
      PROVE  StampInv(v)'
  BY <1>6 DEF BoApproveWithdrawal, Begin, Pending, Goto, TypeOK, WorkInv,
     CreatingInv, DecidingInv, TimesInv, CrowdInv, StampInv, AccountsOf,
     Status, Creating, Approving, Stamping, Disapproving, walletVars, dbVars,
     timeVars, stampVars, histVars
<1>7. ASSUME NEW w \in Workers, NEW ids \in SUBSET Withdrawals,
             DisapproveWithdrawal(w, ids)
      PROVE  StampInv(v)'
  BY <1>7 DEF DisapproveWithdrawal, Begin, Pending, Goto, TypeOK, WorkInv,
     CreatingInv, DecidingInv, TimesInv, CrowdInv, StampInv, AccountsOf,
     Status, Creating, Approving, Stamping, Disapproving, walletVars, dbVars,
     timeVars, stampVars, histVars
<1>8. ASSUME NEW w \in Workers, ApproveRows(w)
      PROVE  StampInv(v)'
  BY <1>8 DEF ApproveRows, UpdateRows, Goto, TypeOK, WorkInv, CreatingInv,
     DecidingInv, TimesInv, CrowdInv, StampInv, AccountsOf, Status, Creating,
     Approving, Stamping, Disapproving, walletVars, dbVars, timeVars,
     stampVars, histVars
<1>9. ASSUME NEW w \in Workers, ReadAccount(w)
      PROVE  StampInv(v)'
  BY <1>9 DEF ReadAccount, Goto, TypeOK, WorkInv, CreatingInv, DecidingInv,
     TimesInv, CrowdInv, StampInv, AccountsOf, Status, Creating, Approving,
     Stamping, Disapproving, walletVars, dbVars, timeVars, stampVars, histVars
<1>10. ASSUME NEW w \in Workers, UpdateAccount(w)
       PROVE  StampInv(v)'
  BY <1>10 DEF UpdateAccount, Goto, TypeOK, WorkInv, CreatingInv, DecidingInv,
     TimesInv, CrowdInv, StampInv, AccountsOf, Status, Creating, Approving,
     Stamping, Disapproving, walletVars, dbVars, timeVars, stampVars, histVars
<1>11. ASSUME NEW w \in Workers, CommitApprove(w)
       PROVE  StampInv(v)'
  <2>1. /\ pc[w] = "readAccount" /\ todo[w] = {} /\ End(w)
        /\ stamped' = stamped \cup firsts[w] /\ crowded' = crowded
    BY <1>11 DEF CommitApprove
  <2>2. CASE v = w
    BY <2>1, <2>2 DEF End, Goto, TypeOK, StampInv, Stamping
  <2>3. CASE v # w
    <3>1. /\ pc'[v] = pc[v] /\ todo'[v] = todo[v] /\ done'[v] = done[v]
          /\ account'[v] = account[v] /\ firsts'[v] = firsts[v]
          /\ v \in isFirst' <=> v \in isFirst
      BY <2>1, <2>3 DEF End, Goto, TypeOK
    <3>2. StampInv(v) /\ firsts[w] \subseteq AccountsOf(done[w])
      BY <2>1 DEF TimesInv, StampInv, Stamping
    <3>3. pc[v] \in Stamping => AccountsOf(done[v]) \cap firsts[w] \subseteq crowded
      BY <2>1, <2>3, <3>2 DEF TimesInv, CrowdInv, Stamping
    <3>4. AccountsOf(done[v])' = AccountsOf(done[v])
      BY <3>1 DEF AccountsOf
    <3>. QED
      BY <2>1, <3>1, <3>2, <3>3, <3>4 DEF StampInv, Stamping
  <2>. QED
    BY <2>2, <2>3
<1>12. ASSUME NEW w \in Workers, Refund(w)
       PROVE  StampInv(v)'
  BY <1>12 DEF Refund, GiveBack, TypeOK, WorkInv, CreatingInv, DecidingInv,
     TimesInv, CrowdInv, StampInv, AccountsOf, Status, Creating, Approving,
     Stamping, Disapproving, walletVars, dbVars, timeVars, stampVars, histVars
<1>13. ASSUME NEW w \in Workers, CloseRows(w)
       PROVE  StampInv(v)'
  BY <1>13 DEF CloseRows, UpdateRows, Goto, TypeOK, WorkInv, CreatingInv,
     DecidingInv, TimesInv, CrowdInv, StampInv, AccountsOf, Status, Creating,
     Approving, Stamping, Disapproving, walletVars, dbVars, timeVars,
     stampVars, histVars
<1>14. ASSUME NEW w \in Workers, NothingRefunded(w)
       PROVE  StampInv(v)'
  BY <1>14 DEF NothingRefunded, End, Goto, TypeOK, WorkInv, CreatingInv,
     DecidingInv, TimesInv, CrowdInv, StampInv, AccountsOf, Status, Creating,
     Approving, Stamping, Disapproving, walletVars, dbVars, timeVars,
     stampVars, histVars
<1>15. ASSUME NEW w \in Workers, CommitClose(w)
       PROVE  StampInv(v)'
  BY <1>15 DEF CommitClose, End, Goto, TypeOK, WorkInv, CreatingInv,
     DecidingInv, TimesInv, CrowdInv, StampInv, AccountsOf, Status, Creating,
     Approving, Stamping, Disapproving, walletVars, dbVars, timeVars,
     stampVars, histVars
<1>16. ASSUME NEW w \in Workers, Fail(w)
       PROVE  StampInv(v)'
  BY <1>16 DEF Fail, End, Goto, TypeOK, WorkInv, CreatingInv, DecidingInv,
     TimesInv, CrowdInv, StampInv, AccountsOf, Status, Creating, Approving,
     Stamping, Disapproving, walletVars, dbVars, timeVars, stampVars, histVars
<1>17. ASSUME NEW a \in Accounts, Spend(a)
       PROVE  StampInv(v)'
  BY <1>17 DEF Spend, TypeOK, WorkInv, CreatingInv, DecidingInv, TimesInv,
     CrowdInv, StampInv, AccountsOf, Status, Creating, Approving, Stamping,
     Disapproving, walletVars, dbVars, timeVars, stampVars, histVars
<1>18. ASSUME NEW a \in Accounts, Earn(a)
       PROVE  StampInv(v)'
  BY <1>18 DEF Earn, TypeOK, WorkInv, CreatingInv, DecidingInv, TimesInv,
     CrowdInv, StampInv, AccountsOf, Status, Creating, Approving, Stamping,
     Disapproving, walletVars, dbVars, timeVars, stampVars, histVars
<1>19. CASE UNCHANGED vars
  BY <1>19 DEF vars, TypeOK, WorkInv, CreatingInv, DecidingInv, TimesInv,
     CrowdInv, StampInv, AccountsOf, Status, Creating, Approving, Stamping,
     Disapproving, walletVars, dbVars, timeVars, stampVars, histVars
<1>. QED
  BY <1>1, <1>2, <1>3, <1>4, <1>5, <1>6, <1>7, <1>8, <1>9, <1>10, <1>11, <1>12,
     <1>13, <1>14, <1>15, <1>16, <1>17, <1>18, <1>19
     DEF Next, Create, Decide

(* Rows and times are confirmed together. *)
LEMMA StepTimes ==
  ASSUME TypeOK, WorkInv, NoIncidentInv, TimesInv, TimesFollowApprovals, [Next]_vars
  PROVE  TimesFollowApprovals'
<1>. USE WithdrawalAssumption
<1>1. ASSUME NEW w \in Workers, NEW t \in Withdrawals, CreateWithdrawal(w, t)
      PROVE  TimesFollowApprovals'
  BY <1>1 DEF CreateWithdrawal, Goto, TypeOK, WorkInv, CreatingInv,
     DecidingInv, Involved, NoIncidentInv, MoneyInv, TimesInv, StampInv,
     CrowdInv, AccountsOf, TimesFollowApprovals, Status, Creating, Approving,
     Stamping, Disapproving, walletVars, dbVars, timeVars, stampVars, histVars
<1>2. ASSUME NEW w \in Workers, CheckBalance(w)
      PROVE  TimesFollowApprovals'
  BY <1>2 DEF CheckBalance, End, Goto, TypeOK, WorkInv, CreatingInv,
     DecidingInv, Involved, NoIncidentInv, MoneyInv, TimesInv, StampInv,
     CrowdInv, AccountsOf, TimesFollowApprovals, Status, Creating, Approving,
     Stamping, Disapproving, walletVars, dbVars, timeVars, stampVars, histVars
<1>3. ASSUME NEW w \in Workers, Debit(w)
      PROVE  TimesFollowApprovals'
  BY <1>3 DEF Debit, Take, Goto, TypeOK, WorkInv, CreatingInv, DecidingInv,
     Involved, NoIncidentInv, MoneyInv, TimesInv, StampInv, CrowdInv,
     AccountsOf, TimesFollowApprovals, Status, Creating, Approving, Stamping,
     Disapproving, walletVars, dbVars, timeVars, stampVars, histVars
<1>4. ASSUME NEW w \in Workers, DebitFails(w)
      PROVE  TimesFollowApprovals'
  BY <1>4 DEF DebitFails, Take, End, Goto, TypeOK, WorkInv, CreatingInv,
     DecidingInv, Involved, NoIncidentInv, MoneyInv, TimesInv, StampInv,
     CrowdInv, AccountsOf, TimesFollowApprovals, Status, Creating, Approving,
     Stamping, Disapproving, walletVars, dbVars, timeVars, stampVars, histVars
<1>5. ASSUME NEW w \in Workers, CommitCreate(w)
      PROVE  TimesFollowApprovals'
  BY <1>5 DEF CommitCreate, End, Goto, TypeOK, WorkInv, CreatingInv,
     DecidingInv, Involved, NoIncidentInv, MoneyInv, TimesInv, StampInv,
     CrowdInv, AccountsOf, TimesFollowApprovals, Status, Creating, Approving,
     Stamping, Disapproving, walletVars, dbVars, timeVars, stampVars, histVars
<1>6. ASSUME NEW w \in Workers, NEW ids \in SUBSET Withdrawals,
             BoApproveWithdrawal(w, ids)
      PROVE  TimesFollowApprovals'
  BY <1>6 DEF BoApproveWithdrawal, Begin, Pending, Goto, TypeOK, WorkInv,
     CreatingInv, DecidingInv, Involved, NoIncidentInv, MoneyInv, TimesInv,
     StampInv, CrowdInv, AccountsOf, TimesFollowApprovals, Status, Creating,
     Approving, Stamping, Disapproving, walletVars, dbVars, timeVars,
     stampVars, histVars
<1>7. ASSUME NEW w \in Workers, NEW ids \in SUBSET Withdrawals,
             DisapproveWithdrawal(w, ids)
      PROVE  TimesFollowApprovals'
  BY <1>7 DEF DisapproveWithdrawal, Begin, Pending, Goto, TypeOK, WorkInv,
     CreatingInv, DecidingInv, Involved, NoIncidentInv, MoneyInv, TimesInv,
     StampInv, CrowdInv, AccountsOf, TimesFollowApprovals, Status, Creating,
     Approving, Stamping, Disapproving, walletVars, dbVars, timeVars,
     stampVars, histVars
<1>8. ASSUME NEW w \in Workers, ApproveRows(w)
      PROVE  TimesFollowApprovals'
  BY <1>8 DEF ApproveRows, UpdateRows, Goto, TypeOK, WorkInv, CreatingInv,
     DecidingInv, Involved, NoIncidentInv, MoneyInv, TimesInv, StampInv,
     CrowdInv, AccountsOf, TimesFollowApprovals, Status, Creating, Approving,
     Stamping, Disapproving, walletVars, dbVars, timeVars, stampVars, histVars
<1>9. ASSUME NEW w \in Workers, ReadAccount(w)
      PROVE  TimesFollowApprovals'
  BY <1>9 DEF ReadAccount, Goto, TypeOK, WorkInv, CreatingInv, DecidingInv,
     Involved, NoIncidentInv, MoneyInv, TimesInv, StampInv, CrowdInv,
     AccountsOf, TimesFollowApprovals, Status, Creating, Approving, Stamping,
     Disapproving, walletVars, dbVars, timeVars, stampVars, histVars
<1>10. ASSUME NEW w \in Workers, UpdateAccount(w)
       PROVE  TimesFollowApprovals'
  BY <1>10 DEF UpdateAccount, Goto, TypeOK, WorkInv, CreatingInv, DecidingInv,
     Involved, NoIncidentInv, MoneyInv, TimesInv, StampInv, CrowdInv,
     AccountsOf, TimesFollowApprovals, Status, Creating, Approving, Stamping,
     Disapproving, walletVars, dbVars, timeVars, stampVars, histVars
<1>11. ASSUME NEW w \in Workers, CommitApprove(w)
       PROVE  TimesFollowApprovals'
  BY <1>11 DEF CommitApprove, End, Goto, TypeOK, WorkInv, CreatingInv,
     DecidingInv, Involved, NoIncidentInv, MoneyInv, TimesInv, StampInv,
     CrowdInv, AccountsOf, TimesFollowApprovals, Status, Creating, Approving,
     Stamping, Disapproving, walletVars, dbVars, timeVars, stampVars, histVars
<1>12. ASSUME NEW w \in Workers, Refund(w)
       PROVE  TimesFollowApprovals'
  BY <1>12 DEF Refund, GiveBack, TypeOK, WorkInv, CreatingInv, DecidingInv,
     Involved, NoIncidentInv, MoneyInv, TimesInv, StampInv, CrowdInv,
     AccountsOf, TimesFollowApprovals, Status, Creating, Approving, Stamping,
     Disapproving, walletVars, dbVars, timeVars, stampVars, histVars
<1>13. ASSUME NEW w \in Workers, CloseRows(w)
       PROVE  TimesFollowApprovals'
  BY <1>13 DEF CloseRows, UpdateRows, Goto, TypeOK, WorkInv, CreatingInv,
     DecidingInv, Involved, NoIncidentInv, MoneyInv, TimesInv, StampInv,
     CrowdInv, AccountsOf, TimesFollowApprovals, Status, Creating, Approving,
     Stamping, Disapproving, walletVars, dbVars, timeVars, stampVars, histVars
<1>14. ASSUME NEW w \in Workers, NothingRefunded(w)
       PROVE  TimesFollowApprovals'
  BY <1>14 DEF NothingRefunded, End, Goto, TypeOK, WorkInv, CreatingInv,
     DecidingInv, Involved, NoIncidentInv, MoneyInv, TimesInv, StampInv,
     CrowdInv, AccountsOf, TimesFollowApprovals, Status, Creating, Approving,
     Stamping, Disapproving, walletVars, dbVars, timeVars, stampVars, histVars
<1>15. ASSUME NEW w \in Workers, CommitClose(w)
       PROVE  TimesFollowApprovals'
  BY <1>15 DEF CommitClose, End, Goto, TypeOK, WorkInv, CreatingInv,
     DecidingInv, Involved, NoIncidentInv, MoneyInv, TimesInv, StampInv,
     CrowdInv, AccountsOf, TimesFollowApprovals, Status, Creating, Approving,
     Stamping, Disapproving, walletVars, dbVars, timeVars, stampVars, histVars
<1>16. ASSUME NEW w \in Workers, Fail(w)
       PROVE  TimesFollowApprovals'
  BY <1>16 DEF Fail, End, Goto, TypeOK, WorkInv, CreatingInv, DecidingInv,
     Involved, NoIncidentInv, MoneyInv, TimesInv, StampInv, CrowdInv,
     AccountsOf, TimesFollowApprovals, Status, Creating, Approving, Stamping,
     Disapproving, walletVars, dbVars, timeVars, stampVars, histVars
<1>17. ASSUME NEW a \in Accounts, Spend(a)
       PROVE  TimesFollowApprovals'
  BY <1>17 DEF Spend, TypeOK, WorkInv, CreatingInv, DecidingInv, Involved,
     NoIncidentInv, MoneyInv, TimesInv, StampInv, CrowdInv, AccountsOf,
     TimesFollowApprovals, Status, Creating, Approving, Stamping, Disapproving,
     walletVars, dbVars, timeVars, stampVars, histVars
<1>18. ASSUME NEW a \in Accounts, Earn(a)
       PROVE  TimesFollowApprovals'
  BY <1>18 DEF Earn, TypeOK, WorkInv, CreatingInv, DecidingInv, Involved,
     NoIncidentInv, MoneyInv, TimesInv, StampInv, CrowdInv, AccountsOf,
     TimesFollowApprovals, Status, Creating, Approving, Stamping, Disapproving,
     walletVars, dbVars, timeVars, stampVars, histVars
<1>19. CASE UNCHANGED vars
  BY <1>19 DEF vars, TypeOK, WorkInv, CreatingInv, DecidingInv, Involved,
     NoIncidentInv, MoneyInv, TimesInv, StampInv, CrowdInv, AccountsOf,
     TimesFollowApprovals, Status, Creating, Approving, Stamping, Disapproving,
     walletVars, dbVars, timeVars, stampVars, histVars
<1>. QED
  BY <1>1, <1>2, <1>3, <1>4, <1>5, <1>6, <1>7, <1>8, <1>9, <1>10, <1>11, <1>12,
     <1>13, <1>14, <1>15, <1>16, <1>17, <1>18, <1>19
     DEF Next, Create, Decide

-----------------------------------------------------------------------------

(* Withdrawal keeps its types. *)
THEOREM WithdrawalTypeOK == Spec => []TypeOK
<1>1. Init => TypeOK
  BY WithdrawalAssumption DEF Init, TypeOK, Status
<1>2. TypeOK /\ [Next]_vars => TypeOK'
  BY StepType
<1>. QED
  BY <1>1, <1>2, PTL DEF Spec

LEMMA WorkInvariant == Spec => [](TypeOK /\ WorkInv)
<1>1. Init => WorkInv
  BY DEF Init, WorkInv, CreatingInv, DecidingInv, Involved, Creating, Approving, Stamping, Disapproving
<1>2. TypeOK /\ TypeOK' /\ WorkInv /\ [Next]_vars => WorkInv'
  BY StepWork
<1>. QED
  BY WithdrawalTypeOK, <1>1, <1>2, PTL DEF Spec

(* Whatever requests race, fail or crash: no row is there before the wallet has
   taken its money, and no row is closed before the money was given back. *)
THEOREM WithdrawalRowNeedsMoney == Spec => []RowNeedsMoney
<1>1. Init => RowNeedsMoney
  BY DEF Init, RowNeedsMoney
<1>2. TypeOK /\ WorkInv /\ RowNeedsMoney /\ [Next]_vars => RowNeedsMoney'
  BY StepRow
<1>. QED
  BY WorkInvariant, <1>1, <1>2, PTL DEF Spec

(* Money and row part only by an incident: two requests that decide one row at
   once, or a wallet call whose transaction failed. *)
THEOREM WithdrawalMoneyFollowsRow == Spec => []MoneyFollowsRow
<1>1. Init => NoIncidentInv
  BY DEF Init, NoIncidentInv, MoneyInv, Refunding, Involved, Disapproving
<1>2. TypeOK /\ TypeOK' /\ WorkInv /\ RowNeedsMoney /\ NoIncidentInv /\ [Next]_vars => NoIncidentInv'
  BY StepMoney
<1>3. RowNeedsMoney /\ NoIncidentInv => MoneyFollowsRow
  BY DEF RowNeedsMoney, NoIncidentInv, MoneyInv, MoneyFollowsRow, Idle, Involved, Refunding
<1>. QED
  BY WorkInvariant, WithdrawalRowNeedsMoney, <1>1, <1>2, <1>3, PTL DEF Spec

(* A balance becomes negative only by a debit whose check was overtaken or by
   the rejection of a withdrawal of a negative amount, for any amounts. *)
THEOREM WithdrawalOverdraftNeedsRace == Spec => []OverdraftNeedsRace
<1>1. Init => CheckedInv /\ OverdraftNeedsRace
  BY WithdrawalAssumption DEF Init, CheckedInv, OverdraftNeedsRace
<1>2. TypeOK /\ WorkInv /\ CheckedInv /\ OverdraftNeedsRace /\ [Next]_vars
        => (CheckedInv /\ OverdraftNeedsRace)'
  BY StepChecked
<1>. QED
  BY WorkInvariant, <1>1, <1>2, PTL DEF Spec

(* Rows and withdrawal times become visible together or not at all, and a first
   time is overwritten only by approvals that overlapped on its account. *)
THEOREM WithdrawalTimesFollowApprovals == Spec => []TimesFollowApprovals
<1>1. Init => NoIncidentInv
  BY DEF Init, NoIncidentInv, MoneyInv, Refunding, Involved, Disapproving
<1>2. TypeOK /\ TypeOK' /\ WorkInv /\ RowNeedsMoney /\ NoIncidentInv /\ [Next]_vars => NoIncidentInv'
  BY StepMoney
<1>3. Init => TimesInv /\ TimesFollowApprovals
  BY DEF Init, TimesInv, CrowdInv, StampInv, Stamping, TimesFollowApprovals
<1>4. TypeOK /\ TypeOK' /\ WorkInv /\ TimesInv /\ [Next]_vars => TimesInv'
  BY StepCrowd, StepStamp DEF TimesInv
<1>5. TypeOK /\ WorkInv /\ NoIncidentInv /\ TimesInv /\ TimesFollowApprovals /\ [Next]_vars
        => TimesFollowApprovals'
  BY StepTimes
<1>. QED
  BY WorkInvariant, WithdrawalRowNeedsMoney, <1>1, <1>2, <1>3, <1>4, <1>5, PTL DEF Spec

-----------------------------------------------------------------------------

Final ==
  \A t \in Withdrawals :
    Decided(t) => /\ Decided(t)'
                  /\ status'[t] = status[t] /\ refunds'[t] = refunds[t]

(* No step of any request touches a decided row nobody holds. *)
LEMMA StepFinal ==
  ASSUME TypeOK, WorkInv, [Next]_vars
  PROVE  Final
<1>. USE WithdrawalAssumption
<1>1. ASSUME NEW w \in Workers, NEW t \in Withdrawals, CreateWithdrawal(w, t)
      PROVE  Final
  BY <1>1 DEF CreateWithdrawal, Goto, TypeOK, WorkInv, CreatingInv,
     DecidingInv, Involved, Final, Decided, Idle, Status, Creating, Approving,
     Stamping, Disapproving, walletVars, dbVars, timeVars, stampVars, histVars
<1>2. ASSUME NEW w \in Workers, CheckBalance(w)
      PROVE  Final
  BY <1>2 DEF CheckBalance, End, Goto, TypeOK, WorkInv, CreatingInv,
     DecidingInv, Involved, Final, Decided, Idle, Status, Creating, Approving,
     Stamping, Disapproving, walletVars, dbVars, timeVars, stampVars, histVars
<1>3. ASSUME NEW w \in Workers, Debit(w)
      PROVE  Final
  BY <1>3 DEF Debit, Take, Goto, TypeOK, WorkInv, CreatingInv, DecidingInv,
     Involved, Final, Decided, Idle, Status, Creating, Approving, Stamping,
     Disapproving, walletVars, dbVars, timeVars, stampVars, histVars
<1>4. ASSUME NEW w \in Workers, DebitFails(w)
      PROVE  Final
  BY <1>4 DEF DebitFails, Take, End, Goto, TypeOK, WorkInv, CreatingInv,
     DecidingInv, Involved, Final, Decided, Idle, Status, Creating, Approving,
     Stamping, Disapproving, walletVars, dbVars, timeVars, stampVars, histVars
<1>5. ASSUME NEW w \in Workers, CommitCreate(w)
      PROVE  Final
  BY <1>5 DEF CommitCreate, End, Goto, TypeOK, WorkInv, CreatingInv,
     DecidingInv, Involved, Final, Decided, Idle, Status, Creating, Approving,
     Stamping, Disapproving, walletVars, dbVars, timeVars, stampVars, histVars
<1>6. ASSUME NEW w \in Workers, NEW ids \in SUBSET Withdrawals,
             BoApproveWithdrawal(w, ids)
      PROVE  Final
  BY <1>6 DEF BoApproveWithdrawal, Begin, Pending, Goto, TypeOK, WorkInv,
     CreatingInv, DecidingInv, Involved, Final, Decided, Idle, Status,
     Creating, Approving, Stamping, Disapproving, walletVars, dbVars, timeVars,
     stampVars, histVars
<1>7. ASSUME NEW w \in Workers, NEW ids \in SUBSET Withdrawals,
             DisapproveWithdrawal(w, ids)
      PROVE  Final
  BY <1>7 DEF DisapproveWithdrawal, Begin, Pending, Goto, TypeOK, WorkInv,
     CreatingInv, DecidingInv, Involved, Final, Decided, Idle, Status,
     Creating, Approving, Stamping, Disapproving, walletVars, dbVars, timeVars,
     stampVars, histVars
<1>8. ASSUME NEW w \in Workers, ApproveRows(w)
      PROVE  Final
  BY <1>8 DEF ApproveRows, UpdateRows, Goto, TypeOK, WorkInv, CreatingInv,
     DecidingInv, Involved, Final, Decided, Idle, Status, Creating, Approving,
     Stamping, Disapproving, walletVars, dbVars, timeVars, stampVars, histVars
<1>9. ASSUME NEW w \in Workers, ReadAccount(w)
      PROVE  Final
  BY <1>9 DEF ReadAccount, Goto, TypeOK, WorkInv, CreatingInv, DecidingInv,
     Involved, Final, Decided, Idle, Status, Creating, Approving, Stamping,
     Disapproving, walletVars, dbVars, timeVars, stampVars, histVars
<1>10. ASSUME NEW w \in Workers, UpdateAccount(w)
       PROVE  Final
  BY <1>10 DEF UpdateAccount, Goto, TypeOK, WorkInv, CreatingInv, DecidingInv,
     Involved, Final, Decided, Idle, Status, Creating, Approving, Stamping,
     Disapproving, walletVars, dbVars, timeVars, stampVars, histVars
<1>11. ASSUME NEW w \in Workers, CommitApprove(w)
       PROVE  Final
  BY <1>11 DEF CommitApprove, End, Goto, TypeOK, WorkInv, CreatingInv,
     DecidingInv, Involved, Final, Decided, Idle, Status, Creating, Approving,
     Stamping, Disapproving, walletVars, dbVars, timeVars, stampVars, histVars
<1>12. ASSUME NEW w \in Workers, Refund(w)
       PROVE  Final
  BY <1>12 DEF Refund, GiveBack, TypeOK, WorkInv, CreatingInv, DecidingInv,
     Involved, Final, Decided, Idle, Status, Creating, Approving, Stamping,
     Disapproving, walletVars, dbVars, timeVars, stampVars, histVars
<1>13. ASSUME NEW w \in Workers, CloseRows(w)
       PROVE  Final
  BY <1>13 DEF CloseRows, UpdateRows, Goto, TypeOK, WorkInv, CreatingInv,
     DecidingInv, Involved, Final, Decided, Idle, Status, Creating, Approving,
     Stamping, Disapproving, walletVars, dbVars, timeVars, stampVars, histVars
<1>14. ASSUME NEW w \in Workers, NothingRefunded(w)
       PROVE  Final
  BY <1>14 DEF NothingRefunded, End, Goto, TypeOK, WorkInv, CreatingInv,
     DecidingInv, Involved, Final, Decided, Idle, Status, Creating, Approving,
     Stamping, Disapproving, walletVars, dbVars, timeVars, stampVars, histVars
<1>15. ASSUME NEW w \in Workers, CommitClose(w)
       PROVE  Final
  BY <1>15 DEF CommitClose, End, Goto, TypeOK, WorkInv, CreatingInv,
     DecidingInv, Involved, Final, Decided, Idle, Status, Creating, Approving,
     Stamping, Disapproving, walletVars, dbVars, timeVars, stampVars, histVars
<1>16. ASSUME NEW w \in Workers, Fail(w)
       PROVE  Final
  BY <1>16 DEF Fail, End, Goto, TypeOK, WorkInv, CreatingInv, DecidingInv,
     Involved, Final, Decided, Idle, Status, Creating, Approving, Stamping,
     Disapproving, walletVars, dbVars, timeVars, stampVars, histVars
<1>17. ASSUME NEW a \in Accounts, Spend(a)
       PROVE  Final
  BY <1>17 DEF Spend, TypeOK, WorkInv, CreatingInv, DecidingInv, Involved,
     Final, Decided, Idle, Status, Creating, Approving, Stamping, Disapproving,
     walletVars, dbVars, timeVars, stampVars, histVars
<1>18. ASSUME NEW a \in Accounts, Earn(a)
       PROVE  Final
  BY <1>18 DEF Earn, TypeOK, WorkInv, CreatingInv, DecidingInv, Involved,
     Final, Decided, Idle, Status, Creating, Approving, Stamping, Disapproving,
     walletVars, dbVars, timeVars, stampVars, histVars
<1>19. CASE UNCHANGED vars
  BY <1>19 DEF vars, TypeOK, WorkInv, CreatingInv, DecidingInv, Involved,
     Final, Decided, Idle, Status, Creating, Approving, Stamping, Disapproving,
     walletVars, dbVars, timeVars, stampVars, histVars
<1>. QED
  BY <1>1, <1>2, <1>3, <1>4, <1>5, <1>6, <1>7, <1>8, <1>9, <1>10, <1>11, <1>12,
     <1>13, <1>14, <1>15, <1>16, <1>17, <1>18, <1>19
     DEF Next, Create, Decide

(* A decision nobody is working on any more is final. *)
THEOREM WithdrawalDecidedIsFinal == Spec => DecidedIsFinal
<1>1. TypeOK /\ WorkInv /\ [Next]_vars => [Final]_vars
  BY StepFinal
<1>2. [][Final]_vars => DecidedIsFinal
  BY PTL DEF Final, DecidedIsFinal
<1>. QED
  BY WorkInvariant, <1>1, <1>2, PTL DEF Spec
=============================================================================
