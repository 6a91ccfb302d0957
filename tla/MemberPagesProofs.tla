------------------------- MODULE MemberPagesProofs --------------------------
(***************************************************************************)
(* Proofs about the pages on which a manager works on a member, for any    *)
(* pages: per script its steps, then the inductive invariant of the page,  *)
(* IInv of its module.  A lemma about a script reads as in its module, with*)
(* its name before the names of the module and x1, x2, ... for its         *)
(* variables.                                                              *)
(***************************************************************************)
EXTENDS MemberPages, TLAPS, FiniteSetTheorems

-----------------------------------------------------------------------------
(* A page stays the page it is. *)
LEMMA MemberStays ==
  ASSUME MemberStep
  PROVE  script' = script /\ page' = page
BY DEF MemberStep, MemberNext, vars, Same18, Same5, Same6, Same7, Same8,
   Same9, Same10, Same11, Same12, Same13, Same14, Same15, Same16, Same17

-----------------------------------------------------------------------------
(***************************************************************************)
(* WithdrawalForm (Withdraw): x1 is dialog, x2 is chosen, x3 is shown, x4  *)
(* is card, x5 is available, x6 is box, x7 is amount, x8 is locked, x9 is  *)
(* flight, x10 is sent, x11 is wallet, x12 is rows, x13 is balanceOf, x14  *)
(* is raced, x15 is overtaken.                                             *)
(***************************************************************************)
LEMMA WithdrawInitIInv ==
  ASSUME NEW k \in DOMAIN WithdrawPages, Withdraw(k)!WithdrawalFormAssumption, Withdraw(k)!Init
  PROVE  Withdraw(k)!IInv
<1>1. x11 \in [WithdrawPages[k].Members -> Int] /\ \A a \in WithdrawPages[k].Members : x11[a] >= 0
  <2>1. x11 \in [WithdrawPages[k].Members -> WithdrawPages[k].InitBalance]
          /\ WithdrawPages[k].InitBalance \subseteq Nat
    BY DEF Withdraw!WithdrawalFormAssumption, Withdraw!Init
  <2>2. \A a \in WithdrawPages[k].Members : x11[a] \in Nat
    BY <2>1
  <2>. QED
    BY <2>1, <2>2
<1>2. Withdraw(k)!TypeOK
  <2>1. x11 \in [WithdrawPages[k].Members -> Int]
    BY <1>1
  <2>2. x10 \in 0..WithdrawPages[k].MaxRequests /\ x5 \in Int /\ x7 \in Int
    BY DEF Withdraw!WithdrawalFormAssumption, Withdraw!Init, Withdraw!Empty
  <2>. QED
    BY <2>1, <2>2 DEF Withdraw!Init, Withdraw!TypeOK
<1>3. Withdraw(k)!FlightInv
  BY DEF Withdraw!Init, Withdraw!FlightInv, Withdraw!Checked
<1>4. Withdraw(k)!RowsInv
  BY <1>1 DEF Withdraw!Init, Withdraw!RowsInv, Withdraw!PaidToOwnCard
<1>5. Withdraw(k)!ChosenInv
  BY DEF Withdraw!Init, Withdraw!ChosenInv
<1>. QED
  BY <1>2, <1>3, <1>4, <1>5 DEF Withdraw!IInv

(* What the manager does in the dialog, asking nothing. *)
LEMMA WithdrawDialogKeeps ==
  ASSUME NEW k \in DOMAIN WithdrawPages, Withdraw(k)!WithdrawalFormAssumption, Withdraw(k)!IInv,
         x1' \in BOOLEAN, x3' \in BOOLEAN, x8' \in BOOLEAN,
         x6' \in {"absent", "off", "on", "dead"}, x6' = "on" => x8', x7' \in Int,
         x2' = Withdraw(k)!NoOne \/ x2' = x2,
         UNCHANGED <<x4, x5, x13, x9, x10, x11, x12, x14, x15>>
  PROVE  Withdraw(k)!IInv'
<1>1. Withdraw(k)!TypeOK'
  BY DEF Withdraw!IInv, Withdraw!TypeOK
<1>2. Withdraw(k)!FlightInv' /\ Withdraw(k)!RowsInv'
  BY DEF Withdraw!IInv, Withdraw!FlightInv, Withdraw!RowsInv, Withdraw!PaidToOwnCard,
      Withdraw!Checked
<1>3. Withdraw(k)!ChosenInv'
  BY DEF Withdraw!IInv, Withdraw!ChosenInv, Withdraw!Open
<1>. QED
  BY <1>1, <1>2, <1>3 DEF Withdraw!IInv

LEMMA WithdrawClickKeeps ==
  ASSUME NEW k \in DOMAIN WithdrawPages, Withdraw(k)!WithdrawalFormAssumption, Withdraw(k)!IInv,
         Withdraw(k)!OpenDialog \/ Withdraw(k)!CloseDialog \/ Withdraw(k)!Reset \/ Withdraw(k)!Tick
           \/ Withdraw(k)!Untick \/ \E x \in WithdrawPages[k].Typed : Withdraw(k)!TypeAmount(x)
  PROVE  Withdraw(k)!IInv' /\ x9' = x9
<1>0. /\ x1 \in BOOLEAN /\ x3 \in BOOLEAN /\ x8 \in BOOLEAN /\ x5 \in Int /\ x7 \in Int
      /\ x6 \in {"absent", "off", "on", "dead"} /\ (x6 = "on" => x8)
  BY DEF Withdraw!IInv, Withdraw!TypeOK
<1>8. Withdraw(k)!Empty \in Int
  BY DEF Withdraw!Empty
<1>1. CASE Withdraw(k)!OpenDialog
  BY <1>0, <1>1, <1>8, WithdrawDialogKeeps DEF Withdraw!OpenDialog
<1>2. CASE Withdraw(k)!CloseDialog
  BY <1>0, <1>2, WithdrawDialogKeeps DEF Withdraw!CloseDialog
<1>3. CASE Withdraw(k)!Reset
  BY <1>0, <1>3, <1>8, WithdrawDialogKeeps DEF Withdraw!Reset
<1>4. CASE Withdraw(k)!Tick
  BY <1>0, <1>4, WithdrawDialogKeeps DEF Withdraw!Tick
<1>5. CASE Withdraw(k)!Untick
  BY <1>0, <1>5, <1>8, WithdrawDialogKeeps DEF Withdraw!Untick
<1>6. ASSUME NEW x \in WithdrawPages[k].Typed, Withdraw(k)!TypeAmount(x)
      PROVE  Withdraw(k)!IInv' /\ x9' = x9
  <2>1. x7' \in Int
    BY <1>0, <1>6 DEF Withdraw!TypeAmount, Withdraw!Clamp,
        Withdraw!WithdrawalFormAssumption
  <2>. QED
    BY <1>0, <1>6, <2>1, WithdrawDialogKeeps DEF Withdraw!TypeAmount
<1>. QED
  BY <1>1, <1>2, <1>3, <1>4, <1>5, <1>6

(* A step of the page or of a question: what was checked stays as it was. *)
LEMMA WithdrawAsksKeep ==
  ASSUME NEW k \in DOMAIN WithdrawPages, Withdraw(k)!IInv, x9' \subseteq Withdraw(k)!Requests,
         UNCHANGED <<x11, x15>>,
         \A q \in x9' \ x9 : q.kind = "create" => q.stage # "read"
  PROVE  Withdraw(k)!FlightInv'
<1>2. \A a \in WithdrawPages[k].Members : (Withdraw(k)!Checked(a))' \subseteq Withdraw(k)!Checked(a)
  BY DEF Withdraw!Checked
<1>. QED
  BY <1>2 DEF Withdraw!IInv, Withdraw!FlightInv

LEMMA WithdrawChooseKeeps ==
  ASSUME NEW k \in DOMAIN WithdrawPages, Withdraw(k)!WithdrawalFormAssumption, Withdraw(k)!IInv,
         NEW a \in WithdrawPages[k].Members, Withdraw(k)!Choose(a)
  PROVE  Withdraw(k)!IInv' /\ Withdraw(k)!AsksWithinBalance
<1>0. x10 \in Nat /\ x10 + 1 \in Nat /\ x10 + 2 \in Nat /\ x10 + 2 <= WithdrawPages[k].MaxRequests
        /\ x14 \in BOOLEAN
  BY DEF Withdraw!IInv, Withdraw!TypeOK, Withdraw!Choose,
      Withdraw!WithdrawalFormAssumption
<1>. DEFINE p == Withdraw(k)!Ask("cards", a, x10 + 1)
            q == Withdraw(k)!Ask("balance", a, x10 + 2)
<1>1. p \in Withdraw(k)!Requests /\ q \in Withdraw(k)!Requests
  BY <1>0 DEF Withdraw!Ask, Withdraw!Requests, Withdraw!Kinds, Withdraw!Stages
<1>2. /\ p.kind = "cards" /\ q.kind = "balance" /\ p.of = a /\ q.of = a
      /\ x9' = x9 \cup {p, q}
  BY DEF Withdraw!Ask, Withdraw!Choose
<1>. HIDE DEF p, q
<1>3. x10' \in 0..WithdrawPages[k].MaxRequests /\ x14' \in BOOLEAN
  BY <1>0 DEF Withdraw!Choose
<1>4. Withdraw(k)!FlightInv'
  <2>1. x9' \subseteq Withdraw(k)!Requests /\ \A s \in x9' \ x9 : s.kind = "create" => s.stage # "read"
    BY <1>1, <1>2 DEF Withdraw!IInv, Withdraw!FlightInv
  <2>2. UNCHANGED <<x11, x15>>
    BY DEF Withdraw!Choose
  <2>. QED
    BY <2>1, <2>2, WithdrawAsksKeep
<1>8. Withdraw(k)!TypeOK'
  BY <1>1, <1>2, <1>3 DEF Withdraw!IInv, Withdraw!TypeOK, Withdraw!Choose,
      Withdraw!Kinds, Withdraw!Requests
<1>5. Withdraw(k)!RowsInv'
  BY DEF Withdraw!IInv, Withdraw!RowsInv, Withdraw!PaidToOwnCard, Withdraw!Choose
<1>6. Withdraw(k)!ChosenInv'
  <2>. SUFFICES ASSUME ~x14'
                PROVE  /\ \A r \in x9' : r.kind # "create" => r.of = x2'
                       /\ \E r \in x9' : r.kind = "balance"
                       /\ \E r \in x9' : r.kind = "cards"
    BY DEF Withdraw!ChosenInv, Withdraw!Open
  <2>1. ~Withdraw(k)!Open("cards") /\ ~Withdraw(k)!Open("balance") /\ x2' = a
    BY DEF Withdraw!Choose
  <2>2. \A r \in x9 : r.kind \in Withdraw(k)!Kinds
    BY DEF Withdraw!IInv, Withdraw!TypeOK
  <2>3. \A r \in x9 : r.kind = "create"
    BY <2>1, <2>2 DEF Withdraw!Open, Withdraw!Kinds
  <2>. QED
    BY <1>2, <2>1, <2>3
<1>7. Withdraw(k)!AsksWithinBalance
  BY <1>2 DEF Withdraw!AsksWithinBalance
<1>. QED
  BY <1>4, <1>5, <1>6, <1>7, <1>8 DEF Withdraw!IInv

LEMMA WithdrawReadKeeps ==
  ASSUME NEW k \in DOMAIN WithdrawPages, Withdraw(k)!WithdrawalFormAssumption, Withdraw(k)!IInv, NEW r \in x9,
         Withdraw(k)!ReadBalance(r)
  PROVE  Withdraw(k)!IInv' /\ Withdraw(k)!AsksWithinBalance
<1>0. r \in Withdraw(k)!Requests /\ r.of \in WithdrawPages[k].Members /\ x11[r.of] \in Int
        /\ r.kind = "balance"
  BY DEF Withdraw!IInv, Withdraw!FlightInv, Withdraw!Requests, Withdraw!RowsInv,
      Withdraw!PaidToOwnCard, Withdraw!TypeOK, Withdraw!ReadBalance
<1>1. PICK q : q = [r EXCEPT !.stage = "read", !.balance = x11[r.of]]
  OBVIOUS
<1>2. q \in Withdraw(k)!Requests /\ q.kind = "balance" /\ q.of = r.of
  BY <1>0, <1>1 DEF Withdraw!Requests, Withdraw!Stages
<1>3. x9' = (x9 \ {r}) \cup {q}
  BY <1>1 DEF Withdraw!ReadBalance
<1>4. Withdraw(k)!FlightInv' /\ Withdraw(k)!TypeOK'
  <2>1. x9' \subseteq Withdraw(k)!Requests /\ \A s \in x9' \ x9 : s.kind = "create" => s.stage # "read"
    BY <1>2, <1>3 DEF Withdraw!IInv, Withdraw!FlightInv
  <2>2. Withdraw(k)!FlightInv'
    BY <2>1, WithdrawAsksKeep DEF Withdraw!ReadBalance
  <2>. QED
    BY <1>2, <1>3, <2>2 DEF Withdraw!IInv, Withdraw!TypeOK, Withdraw!ReadBalance,
        Withdraw!pageVars, Withdraw!Kinds, Withdraw!Requests
<1>5. Withdraw(k)!RowsInv'
  BY DEF Withdraw!IInv, Withdraw!RowsInv, Withdraw!PaidToOwnCard, Withdraw!ReadBalance
<1>6. Withdraw(k)!ChosenInv'
  <2>1. (Withdraw(k)!Open("balance"))' /\ (Withdraw(k)!Open("cards") => (Withdraw(k)!Open("cards"))')
    BY <1>0, <1>2, <1>3 DEF Withdraw!Open
  <2>2. Withdraw(k)!ChosenInv /\ UNCHANGED <<x14, x2, x13, x4>>
    BY DEF Withdraw!IInv, Withdraw!ReadBalance, Withdraw!pageVars
  <2>3. ~x14 /\ x2 # Withdraw(k)!NoOne => \A s \in x9' : s.kind # "create" => s.of = x2
    BY <1>0, <1>2, <1>3, <2>2 DEF Withdraw!ChosenInv
  <2>. QED
    BY <2>1, <2>2, <2>3 DEF Withdraw!ChosenInv
<1>7. Withdraw(k)!AsksWithinBalance
  BY <1>2, <1>3 DEF Withdraw!AsksWithinBalance
<1>. QED
  BY <1>4, <1>5, <1>6, <1>7 DEF Withdraw!IInv

(* An answer comes, or none. *)
LEMMA WithdrawAnswerKeeps ==
  ASSUME NEW k \in DOMAIN WithdrawPages, Withdraw(k)!WithdrawalFormAssumption, Withdraw(k)!IInv, NEW r \in x9,
         Withdraw(k)!ShowBalance(r) \/ Withdraw(k)!ShowCards(r) \/ Withdraw(k)!Fails(r)
  PROVE  Withdraw(k)!IInv' /\ Withdraw(k)!AsksWithinBalance
<1>0. r \in Withdraw(k)!Requests /\ r.of \in WithdrawPages[k].Members /\ r.balance \in Int
        /\ r.kind \in Withdraw(k)!Kinds
  BY DEF Withdraw!IInv, Withdraw!FlightInv, Withdraw!Requests
<1>1. x9' = x9 \ {r} /\ UNCHANGED <<x1, x2, x3, x7, x8, x10, x11, x12, x15>>
  BY DEF Withdraw!ShowBalance, Withdraw!ShowCards, Withdraw!Fails, Withdraw!pageVars
<1>2. Withdraw(k)!FlightInv' /\ Withdraw(k)!RowsInv' /\ Withdraw(k)!AsksWithinBalance
  <2>1. Withdraw(k)!FlightInv'
    <3>1. x9' \subseteq Withdraw(k)!Requests /\ x9' \ x9 = {}
      BY <1>1 DEF Withdraw!IInv, Withdraw!FlightInv
    <3>. QED
      BY <1>1, <3>1, WithdrawAsksKeep
  <2>. QED
    BY <1>1, <2>1 DEF Withdraw!IInv, Withdraw!RowsInv, Withdraw!PaidToOwnCard,
        Withdraw!AsksWithinBalance
<1>3. CASE Withdraw(k)!ShowBalance(r)
  <2>1. Withdraw(k)!TypeOK'
    BY <1>0, <1>1, <1>3 DEF Withdraw!IInv, Withdraw!TypeOK, Withdraw!ShowBalance
  <2>2. ~x14 /\ x2 # Withdraw(k)!NoOne => r.of = x2
    BY <1>3 DEF Withdraw!IInv, Withdraw!ChosenInv, Withdraw!ShowBalance
  <2>3. Withdraw(k)!Open("cards") => (Withdraw(k)!Open("cards"))'
    BY <1>1, <1>3 DEF Withdraw!ShowBalance, Withdraw!Open
  <2>4. Withdraw(k)!ChosenInv'
    <3>1. Withdraw(k)!ChosenInv /\ UNCHANGED <<x14, x2, x4>> /\ x13' = r.of
      BY <1>3 DEF Withdraw!IInv, Withdraw!ShowBalance
    <3>. QED
      BY <1>1, <2>2, <2>3, <3>1 DEF Withdraw!ChosenInv
  <2>. QED
    BY <1>2, <2>1, <2>4 DEF Withdraw!IInv
<1>4. CASE Withdraw(k)!ShowCards(r)
  <2>1. Withdraw(k)!TypeOK'
    BY <1>0, <1>1, <1>4 DEF Withdraw!IInv, Withdraw!TypeOK, Withdraw!ShowCards
  <2>2. ~x14 /\ x2 # Withdraw(k)!NoOne => r.of = x2
    BY <1>4 DEF Withdraw!IInv, Withdraw!ChosenInv, Withdraw!ShowCards
  <2>3. Withdraw(k)!Open("balance") => (Withdraw(k)!Open("balance"))'
    BY <1>1, <1>4 DEF Withdraw!ShowCards, Withdraw!Open
  <2>4. Withdraw(k)!ChosenInv'
    <3>1. Withdraw(k)!ChosenInv /\ UNCHANGED <<x14, x2, x13>> /\ x4' = Withdraw(k)!CardOf(r.of)
      BY <1>4 DEF Withdraw!IInv, Withdraw!ShowCards, Withdraw!CardOf
    <3>. QED
      BY <1>1, <2>2, <2>3, <3>1 DEF Withdraw!ChosenInv
  <2>. QED
    BY <1>2, <2>1, <2>4 DEF Withdraw!IInv
<1>5. CASE Withdraw(k)!Fails(r)
  <2>1. Withdraw(k)!TypeOK' /\ Withdraw(k)!ChosenInv'
    BY <1>1, <1>5 DEF Withdraw!IInv, Withdraw!TypeOK, Withdraw!Fails, Withdraw!pageVars,
        Withdraw!ChosenInv
  <2>. QED
    BY <1>2, <2>1 DEF Withdraw!IInv
<1>. QED
  BY <1>3, <1>4, <1>5

LEMMA WithdrawCreateKeeps ==
  ASSUME NEW k \in DOMAIN WithdrawPages, Withdraw(k)!WithdrawalFormAssumption, Withdraw(k)!IInv,
         Withdraw(k)!Create
  PROVE  Withdraw(k)!IInv' /\ Withdraw(k)!AsksWithinBalance
<1>0. /\ x10 \in Nat /\ x10 + 1 \in 0..WithdrawPages[k].MaxRequests /\ x2 \in WithdrawPages[k].Members
      /\ x4 \in WithdrawPages[k].HasCard \cup {Withdraw(k)!NoOne} /\ x7 \in Int
  BY DEF Withdraw!IInv, Withdraw!TypeOK, Withdraw!Create,
      Withdraw!WithdrawalFormAssumption
<1>1. PICK q : q = [Withdraw(k)!Ask("create", x2, x10 + 1) EXCEPT !.card = x4, !.amount = x7]
  OBVIOUS
<1>2. q \in Withdraw(k)!Requests /\ q.kind = "create" /\ q.of = x2 /\ q.amount = x7 /\ q.stage = "sent"
  <2>1. q = [id |-> x10 + 1, kind |-> "create", of |-> x2, stage |-> "sent", balance |-> 0, card |-> x4,
          amount |-> x7]
    BY <1>1, Zenon DEF Withdraw!Ask
  <2>. QED
    BY <1>0, <2>1 DEF Withdraw!Requests, Withdraw!Kinds, Withdraw!Stages
<1>3. x9' = x9 \cup {q} /\ x10' = x10 + 1 /\ UNCHANGED <<Withdraw(k)!pageVars, x11, x12, x14, x15>>
  BY <1>1 DEF Withdraw!Create
<1>4. Withdraw(k)!FlightInv' /\ Withdraw(k)!TypeOK'
  <2>1. x9' \subseteq Withdraw(k)!Requests /\ \A s \in x9' \ x9 : s.kind = "create" => s.stage # "read"
    BY <1>2, <1>3 DEF Withdraw!IInv, Withdraw!FlightInv
  <2>3. Withdraw(k)!FlightInv'
    BY <1>3, <2>1, WithdrawAsksKeep
  <2>. QED
    BY <1>0, <1>2, <1>3, <2>3 DEF Withdraw!IInv, Withdraw!TypeOK, Withdraw!pageVars,
        Withdraw!Kinds, Withdraw!Requests
<1>5. Withdraw(k)!RowsInv'
  BY <1>3 DEF Withdraw!IInv, Withdraw!RowsInv, Withdraw!PaidToOwnCard
<1>6. Withdraw(k)!ChosenInv'
  <2>1. (Withdraw(k)!Open("balance") => (Withdraw(k)!Open("balance"))')
          /\ (Withdraw(k)!Open("cards") => (Withdraw(k)!Open("cards"))')
    BY <1>3 DEF Withdraw!Open
  <2>2. Withdraw(k)!ChosenInv /\ UNCHANGED <<x14, x2, x13, x4>>
    BY <1>3 DEF Withdraw!IInv, Withdraw!pageVars
  <2>. QED
    BY <1>2, <1>3, <2>1, <2>2 DEF Withdraw!ChosenInv
<1>7. Withdraw(k)!AsksWithinBalance
  BY <1>2, <1>3 DEF Withdraw!AsksWithinBalance, Withdraw!Create
<1>. QED
  BY <1>4, <1>5, <1>6, <1>7 DEF Withdraw!IInv

(* The server works on a withdrawal: the questions of the dialog stay.     *)
LEMMA WithdrawQuestionsStay ==
  ASSUME NEW k \in DOMAIN WithdrawPages, Withdraw(k)!IInv, NEW r \in x9, r.kind = "create",
         x9 \ {r} \subseteq x9',
         \A s \in x9' \ x9 : s.kind = "create", UNCHANGED <<x2, x13, x4, x14>>
  PROVE  Withdraw(k)!ChosenInv'
<1>1. (Withdraw(k)!Open("balance") => (Withdraw(k)!Open("balance"))')
        /\ (Withdraw(k)!Open("cards") => (Withdraw(k)!Open("cards"))')
  BY DEF Withdraw!Open
<1>2. Withdraw(k)!ChosenInv /\ \A s \in x9' : s.kind # "create" => s \in x9
  BY DEF Withdraw!IInv
<1>. QED
  BY <1>1, <1>2 DEF Withdraw!ChosenInv

LEMMA WithdrawPassesOn ==
  ASSUME NEW k \in DOMAIN WithdrawPages, NEW r \in Withdraw(k)!Requests, NEW stage \in Withdraw(k)!Stages,
         r.kind = "create", Withdraw(k)!Passes(r, stage)
  PROVE  \E q \in Withdraw(k)!Requests : /\ q.kind = "create" /\ q.of = r.of /\ q.stage = stage
                                         /\ q.card = r.card /\ q.amount = r.amount
                                         /\ x9' = (x9 \ {r}) \cup {q}
<1>1. PICK q : q = [r EXCEPT !.stage = stage]
  OBVIOUS
<1>2. q \in Withdraw(k)!Requests /\ q.kind = "create" /\ q.of = r.of /\ q.stage = stage /\ q.card = r.card
        /\ q.amount = r.amount
  BY <1>1 DEF Withdraw!Requests
<1>. QED
  BY <1>1, <1>2 DEF Withdraw!Passes

LEMMA WithdrawCheckKeeps ==
  ASSUME NEW k \in DOMAIN WithdrawPages, Withdraw(k)!WithdrawalFormAssumption, Withdraw(k)!IInv, NEW r \in x9,
         Withdraw(k)!Check(r)
  PROVE  Withdraw(k)!IInv' /\ Withdraw(k)!AsksWithinBalance
<1>0. r \in Withdraw(k)!Requests /\ r.kind = "create" /\ Withdraw(k)!Acceptable(r)
        /\ Withdraw(k)!Passes(r, "read") /\ "read" \in Withdraw(k)!Stages
  BY DEF Withdraw!IInv, Withdraw!FlightInv, Withdraw!Check, Withdraw!Stages
<1>1. PICK q \in Withdraw(k)!Requests : /\ q.kind = "create" /\ q.of = r.of /\ q.stage = "read"
                                        /\ q.card = r.card /\ q.amount = r.amount
                                        /\ x9' = (x9 \ {r}) \cup {q}
  BY <1>0, WithdrawPassesOn
<1>2. UNCHANGED <<Withdraw(k)!pageVars, x10, x11, x12, x14, x15>>
  BY DEF Withdraw!Check
<1>3. Withdraw(k)!FlightInv'
  <2>1. \A a \in WithdrawPages[k].Members :
          (Withdraw(k)!Checked(a))' \subseteq Withdraw(k)!Checked(a) \cup {q}
    BY <1>1 DEF Withdraw!Checked
  <2>2. \A a \in WithdrawPages[k].Members : q \in (Withdraw(k)!Checked(a))' => a = q.of
    BY DEF Withdraw!Checked
  <2>3. q.card = q.of /\ q.amount <= x11[q.of]
    BY <1>0, <1>1 DEF Withdraw!Acceptable
  <2>. QED
    BY <1>1, <1>2, <2>1, <2>2, <2>3 DEF Withdraw!IInv, Withdraw!FlightInv
<1>4. Withdraw(k)!TypeOK' /\ Withdraw(k)!RowsInv' /\ Withdraw(k)!AsksWithinBalance
  BY <1>1, <1>2 DEF Withdraw!IInv, Withdraw!TypeOK, Withdraw!RowsInv,
      Withdraw!PaidToOwnCard, Withdraw!AsksWithinBalance, Withdraw!pageVars,
      Withdraw!Requests
<1>5. Withdraw(k)!ChosenInv'
  <2>1. x9 \ {r} \subseteq x9' /\ \A s \in x9' \ x9 : s.kind = "create"
    BY <1>1
  <2>. QED
    BY <1>0, <1>2, <2>1, WithdrawQuestionsStay DEF Withdraw!pageVars
<1>. QED
  BY <1>3, <1>4, <1>5 DEF Withdraw!IInv

(* What was taken was there, or another move of the wallet is on record.   *)
LEMMA WithdrawPayKeeps ==
  ASSUME NEW k \in DOMAIN WithdrawPages, Withdraw(k)!WithdrawalFormAssumption, Withdraw(k)!IInv, NEW r \in x9,
         r \in Withdraw(k)!Checked(r.of), Withdraw(k)!Pay(r)
  PROVE  /\ x11' \in [WithdrawPages[k].Members -> Int] /\ x15' \subseteq WithdrawPages[k].Members
         /\ \A a \in WithdrawPages[k].Members \ x15' : x11'[a] >= 0
         /\ \A a \in WithdrawPages[k].Members : \A s \in Withdraw(k)!Checked(a) \ {r} :
              s.card = a /\ (a \notin x15' => s.amount <= x11'[a])
<1>0. /\ r.of \in WithdrawPages[k].Members /\ r.amount \in Int /\ x11 \in [WithdrawPages[k].Members -> Int]
           /\ x15 \subseteq WithdrawPages[k].Members
      /\ x11' = [x11 EXCEPT ![r.of] = @ - r.amount]
      /\ x15' = IF Withdraw(k)!Checked(r.of) \ {r} = {} THEN x15 ELSE x15 \cup {r.of}
  BY DEF Withdraw!IInv, Withdraw!TypeOK, Withdraw!FlightInv, Withdraw!Requests,
      Withdraw!Pay, Withdraw!Overtaking
<1>1. \A a \in WithdrawPages[k].Members : \A s \in Withdraw(k)!Checked(a) :
        s.card = a /\ (a \notin x15 => s.amount <= x11[a])
  BY DEF Withdraw!IInv, Withdraw!FlightInv
<1>2. r.of \notin x15 => r.amount <= x11[r.of]
  BY <1>0, <1>1
<1>3. x11' \in [WithdrawPages[k].Members -> Int] /\ x11'[r.of] = x11[r.of] - r.amount
  BY <1>0
<1>4. \A a \in WithdrawPages[k].Members \ {r.of} : x11'[a] = x11[a]
  BY <1>0
<1>5. x15 \subseteq x15' /\ x15' \subseteq WithdrawPages[k].Members
  BY <1>0
<1>6. ASSUME NEW a \in WithdrawPages[k].Members \ x15'
      PROVE  x11'[a] >= 0
  <2>1. x11[a] >= 0 /\ a \notin x15
    BY <1>5, <1>6 DEF Withdraw!IInv, Withdraw!RowsInv, Withdraw!PaidToOwnCard
  <2>. QED
    BY <1>0, <1>2, <1>3, <1>4, <2>1
<1>7. ASSUME NEW a \in WithdrawPages[k].Members, NEW s \in Withdraw(k)!Checked(a) \ {r}
      PROVE  s.card = a /\ (a \notin x15' => s.amount <= x11'[a])
  <2>1. a = r.of => a \in x15'
    BY <1>0, <1>7
  <2>. QED
    BY <1>1, <1>4, <1>5, <2>1
<1>. QED
  BY <1>3, <1>5, <1>6, <1>7

LEMMA WithdrawDebitKeeps ==
  ASSUME NEW k \in DOMAIN WithdrawPages, Withdraw(k)!WithdrawalFormAssumption, Withdraw(k)!IInv, NEW r \in x9,
         Withdraw(k)!Debit(r)
  PROVE  Withdraw(k)!IInv' /\ Withdraw(k)!AsksWithinBalance
<1>0. /\ r \in Withdraw(k)!Requests /\ r.of \in WithdrawPages[k].Members /\ r.amount \in Int /\ r.card = r.of
           /\ r.card \in WithdrawPages[k].HasCard \cup {Withdraw(k)!NoOne}
      /\ r \in Withdraw(k)!Checked(r.of) /\ r.kind = "create" /\ Withdraw(k)!Pay(r)
           /\ Withdraw(k)!Passes(r, "done") /\ "done" \in Withdraw(k)!Stages
  BY DEF Withdraw!IInv, Withdraw!FlightInv, Withdraw!Requests, Withdraw!Debit,
      Withdraw!Checked, Withdraw!Stages
<1>1. PICK q \in Withdraw(k)!Requests : /\ q.kind = "create" /\ q.of = r.of /\ q.stage = "done"
                                        /\ q.card = r.card /\ q.amount = r.amount
                                        /\ x9' = (x9 \ {r}) \cup {q}
  BY <1>0, WithdrawPassesOn
<1>2. UNCHANGED <<Withdraw(k)!pageVars, x10, x14>>
  BY DEF Withdraw!Debit
<1>3. /\ x11' \in [WithdrawPages[k].Members -> Int] /\ x15' \subseteq WithdrawPages[k].Members
      /\ \A a \in WithdrawPages[k].Members \ x15' : x11'[a] >= 0
      /\ \A a \in WithdrawPages[k].Members : \A s \in Withdraw(k)!Checked(a) \ {r} :
           s.card = a /\ (a \notin x15' => s.amount <= x11'[a])
  BY <1>0, WithdrawPayKeeps
<1>4. Withdraw(k)!FlightInv'
  <2>1. \A a \in WithdrawPages[k].Members : (Withdraw(k)!Checked(a))' \subseteq Withdraw(k)!Checked(a) \ {r}
    BY <1>1 DEF Withdraw!Checked
  <2>2. x9' \subseteq Withdraw(k)!Requests
    BY <1>1 DEF Withdraw!IInv, Withdraw!FlightInv
  <2>. QED
    BY <1>3, <2>1, <2>2 DEF Withdraw!FlightInv
<1>5. Withdraw(k)!TypeOK' /\ Withdraw(k)!AsksWithinBalance
  BY <1>1, <1>2, <1>3 DEF Withdraw!IInv, Withdraw!TypeOK, Withdraw!AsksWithinBalance,
      Withdraw!pageVars, Withdraw!Requests
<1>6. Withdraw(k)!RowsInv'
  <2>. DEFINE R == [of : WithdrawPages[k].Members, card : WithdrawPages[k].HasCard \cup {Withdraw(k)!NoOne},
                amount : Int]
  <2>1. PICK w : w = [of |-> r.of, card |-> r.card, amount |-> r.amount]
    OBVIOUS
  <2>2. w \in R /\ w.card = w.of /\ x12' = Append(x12, w)
    BY <1>0, <2>1 DEF Withdraw!Debit
  <2>3. x12 \in Seq(R) /\ \A n \in DOMAIN x12 : x12[n].card = x12[n].of
    BY DEF Withdraw!IInv, Withdraw!RowsInv, Withdraw!PaidToOwnCard
  <2>. HIDE DEF R
  <2>4. x12' \in Seq(R) /\ \A n \in DOMAIN x12' : x12'[n].card = x12'[n].of
    <3>1. DOMAIN x12' = 1..(Len(x12) + 1) /\ x12' \in Seq(R) /\ Len(x12) \in Nat /\ DOMAIN x12 = 1..Len(x12)
      BY <2>2, <2>3
    <3>2. x12'[Len(x12) + 1] = w /\ \A n \in 1..Len(x12) : x12'[n] = x12[n]
      BY <2>2, <2>3
    <3>. QED
      BY <2>2, <2>3, <3>1, <3>2
  <2>. QED
    BY <1>3, <2>4 DEF R, Withdraw!RowsInv, Withdraw!PaidToOwnCard
<1>7. Withdraw(k)!ChosenInv'
  <2>1. x9 \ {r} \subseteq x9' /\ \A s \in x9' \ x9 : s.kind = "create"
    BY <1>1
  <2>. QED
    BY <1>0, <1>2, <2>1, WithdrawQuestionsStay DEF Withdraw!pageVars
<1>. QED
  BY <1>4, <1>5, <1>6, <1>7 DEF Withdraw!IInv

(* A withdrawal leaves: its debit failed, it was refused or it succeeded. *)
LEMMA WithdrawLeaveKeeps ==
  ASSUME NEW k \in DOMAIN WithdrawPages, Withdraw(k)!WithdrawalFormAssumption, Withdraw(k)!IInv, NEW r \in x9,
         Withdraw(k)!DebitFails(r) \/ Withdraw(k)!Refuse(r) \/ Withdraw(k)!Succeed(r)
  PROVE  Withdraw(k)!IInv' /\ Withdraw(k)!AsksWithinBalance
<1>0. r.kind = "create" /\ x9' = x9 \ {r} /\ x1' \in BOOLEAN
        /\ (Withdraw(k)!DebitFails(r) => r \in Withdraw(k)!Checked(r.of))
  BY DEF Withdraw!DebitFails, Withdraw!Refuse, Withdraw!Succeed, Withdraw!Checked,
      Withdraw!IInv, Withdraw!TypeOK, Withdraw!pageVars
<1>1. UNCHANGED <<x2, x3, x4, x5, x6, x7, x8, x13, x10, x12, x14>>
  BY DEF Withdraw!DebitFails, Withdraw!Refuse, Withdraw!Succeed, Withdraw!pageVars
<1>2. /\ x11' \in [WithdrawPages[k].Members -> Int] /\ x15' \subseteq WithdrawPages[k].Members
      /\ \A a \in WithdrawPages[k].Members \ x15' : x11'[a] >= 0
      /\ \A a \in WithdrawPages[k].Members : \A s \in Withdraw(k)!Checked(a) \ {r} :
           s.card = a /\ (a \notin x15' => s.amount <= x11'[a])
  <2>1. CASE UNCHANGED <<x11, x15>>
    BY <2>1 DEF Withdraw!IInv, Withdraw!TypeOK, Withdraw!RowsInv, Withdraw!PaidToOwnCard,
        Withdraw!FlightInv
  <2>2. CASE ~UNCHANGED <<x11, x15>>
    <3>1. r \in Withdraw(k)!Checked(r.of) /\ Withdraw(k)!Pay(r)
      BY <2>2 DEF Withdraw!DebitFails, Withdraw!Refuse, Withdraw!Succeed
    <3>. QED
      BY <3>1, WithdrawPayKeeps
  <2>. QED
    BY <2>1, <2>2
<1>3. Withdraw(k)!FlightInv'
  <2>1. \A a \in WithdrawPages[k].Members : (Withdraw(k)!Checked(a))' \subseteq Withdraw(k)!Checked(a) \ {r}
    BY <1>0 DEF Withdraw!Checked
  <2>. QED
    BY <1>0, <1>2, <2>1 DEF Withdraw!IInv, Withdraw!FlightInv
<1>4. Withdraw(k)!TypeOK' /\ Withdraw(k)!AsksWithinBalance
  BY <1>0, <1>1, <1>2 DEF Withdraw!IInv, Withdraw!TypeOK, Withdraw!AsksWithinBalance
<1>5. Withdraw(k)!RowsInv'
  BY <1>1, <1>2 DEF Withdraw!IInv, Withdraw!RowsInv, Withdraw!PaidToOwnCard
<1>6. Withdraw(k)!ChosenInv'
  <2>1. x9 \ {r} \subseteq x9' /\ x9' \ x9 = {}
    BY <1>0
  <2>. QED
    BY <1>0, <1>1, <2>1, WithdrawQuestionsStay
<1>. QED
  BY <1>3, <1>4, <1>5, <1>6 DEF Withdraw!IInv

LEMMA WithdrawPlayKeeps ==
  ASSUME NEW k \in DOMAIN WithdrawPages, Withdraw(k)!WithdrawalFormAssumption, Withdraw(k)!IInv,
         NEW a \in WithdrawPages[k].Members, Withdraw(k)!Play(a)
  PROVE  Withdraw(k)!IInv' /\ x9' = x9
<1>1. x11 \in [WithdrawPages[k].Members -> Int] /\ x15 \subseteq WithdrawPages[k].Members
        /\ \A b \in WithdrawPages[k].Members \ x15 : x11[b] >= 0
  BY DEF Withdraw!IInv, Withdraw!TypeOK, Withdraw!RowsInv, Withdraw!PaidToOwnCard
<1>2. /\ x11' = [x11 EXCEPT ![a] = @ - 1] /\ x11[a] > 0
      /\ x15' = IF Withdraw(k)!Checked(a) = {} THEN x15 ELSE x15 \cup {a}
      /\ UNCHANGED <<Withdraw(k)!pageVars, x9, x10, x12, x14>>
  BY DEF Withdraw!Play
<1>3. x11' \in [WithdrawPages[k].Members -> Int] /\ x15' \subseteq WithdrawPages[k].Members
        /\ x15 \subseteq x15'
  BY <1>1, <1>2
<1>4. \A b \in WithdrawPages[k].Members \ x15' : x11'[b] >= 0
  BY <1>1, <1>2, <1>3
<1>5. Withdraw(k)!FlightInv'
  <2>. SUFFICES ASSUME NEW b \in WithdrawPages[k].Members, NEW r \in (Withdraw(k)!Checked(b))'
                PROVE  r.card = b /\ (b \notin x15' => r.amount <= x11'[b])
    BY <1>2 DEF Withdraw!IInv, Withdraw!FlightInv
  <2>1. r \in Withdraw(k)!Checked(b) /\ r.card = b /\ (b \notin x15 => r.amount <= x11[b])
    BY <1>2 DEF Withdraw!IInv, Withdraw!FlightInv, Withdraw!Checked
  <2>2. b = a => b \in x15'
    BY <1>2, <2>1
  <2>3. b # a => x11'[b] = x11[b]
    BY <1>1, <1>2
  <2>. QED
    BY <1>3, <2>1, <2>2, <2>3
<1>6. Withdraw(k)!TypeOK' /\ Withdraw(k)!RowsInv'
  BY <1>2, <1>3, <1>4 DEF Withdraw!IInv, Withdraw!TypeOK, Withdraw!RowsInv,
      Withdraw!PaidToOwnCard, Withdraw!pageVars
<1>7. Withdraw(k)!ChosenInv'
  BY <1>2 DEF Withdraw!IInv, Withdraw!ChosenInv, Withdraw!Open, Withdraw!pageVars
<1>. QED
  BY <1>2, <1>5, <1>6, <1>7 DEF Withdraw!IInv

LEMMA WithdrawNextIInv ==
  ASSUME NEW k \in DOMAIN WithdrawPages, Withdraw(k)!WithdrawalFormAssumption, Withdraw(k)!IInv,
         Withdraw(k)!Next \/ UNCHANGED Withdraw(k)!vars
  PROVE  Withdraw(k)!IInv' /\ Withdraw(k)!AsksWithinBalance
<1>1. ASSUME x9' = x9
      PROVE  Withdraw(k)!AsksWithinBalance
  BY <1>1 DEF Withdraw!AsksWithinBalance
<1>2. CASE Withdraw(k)!OpenDialog \/ Withdraw(k)!CloseDialog \/ Withdraw(k)!Reset \/ Withdraw(k)!Tick
             \/ Withdraw(k)!Untick \/ \E x \in WithdrawPages[k].Typed : Withdraw(k)!TypeAmount(x)
  BY <1>1, <1>2, WithdrawClickKeeps
<1>3. CASE Withdraw(k)!Create
  BY <1>3, WithdrawCreateKeeps
<1>4. CASE \E a \in WithdrawPages[k].Members : Withdraw(k)!Choose(a)
  BY <1>4, WithdrawChooseKeeps
<1>5. CASE Withdraw(k)!Net
  BY <1>5, WithdrawReadKeeps, WithdrawAnswerKeeps, WithdrawCheckKeeps, WithdrawDebitKeeps,
     WithdrawLeaveKeeps DEF
      Withdraw!Net
<1>6. CASE \E a \in WithdrawPages[k].Members : Withdraw(k)!Play(a)
  BY <1>1, <1>6, WithdrawPlayKeeps
<1>7. CASE UNCHANGED Withdraw(k)!vars
  <2>1. UNCHANGED <<Withdraw(k)!pageVars, x9, x10, x11, x12, x14, x15>>
    BY <1>7 DEF Withdraw!vars
  <2>2. Withdraw(k)!TypeOK' /\ Withdraw(k)!FlightInv' /\ Withdraw(k)!RowsInv'
    BY <2>1 DEF Withdraw!IInv, Withdraw!TypeOK, Withdraw!FlightInv, Withdraw!RowsInv,
        Withdraw!PaidToOwnCard, Withdraw!pageVars, Withdraw!Checked
  <2>3. Withdraw(k)!ChosenInv'
    BY <2>1 DEF Withdraw!IInv, Withdraw!ChosenInv, Withdraw!Open, Withdraw!pageVars
  <2>. QED
    BY <1>1, <2>1, <2>2, <2>3 DEF Withdraw!IInv
<1>. QED
  BY <1>2, <1>3, <1>4, <1>5, <1>6, <1>7 DEF Withdraw!Next, Withdraw!Page

LEMMA WithdrawIInvImplies ==
  ASSUME NEW k \in DOMAIN WithdrawPages, Withdraw(k)!IInv
  PROVE  Withdraw(k)!TypeOK /\ Withdraw(k)!PaidToOwnCard /\ Withdraw(k)!ShowsChosenMember
BY DEF Withdraw!IInv, Withdraw!RowsInv, Withdraw!ChosenInv, Withdraw!CardOf,
    Withdraw!ShowsChosenMember

(* The invariant of the pages of this script. *)
WithdrawInv == \A k \in On("withdraw", WithdrawPages) : Withdraw(k)!IInv

LEMMA WithdrawBegins ==
  ASSUME MemberInit
  PROVE  WithdrawInv
<1>. SUFFICES ASSUME NEW k \in On("withdraw", WithdrawPages)
         PROVE  Withdraw(k)!IInv
  BY DEF WithdrawInv
<1>1. k \in DOMAIN WithdrawPages /\ script = "withdraw" /\ page = k
  BY DEF On
<1>2. Withdraw(k)!Init
  BY <1>1 DEF MemberInit
<1>3. Withdraw(k)!WithdrawalFormAssumption
  BY <1>1, MemberPagesAreSound DEF MemberPagesAssumption
<1>. QED
  BY <1>1, <1>2, WithdrawInitIInv, <1>3

LEMMA WithdrawGoesOn ==
  ASSUME WithdrawInv, MemberStep
  PROVE  /\ WithdrawInv'
         /\ \A k \in On("withdraw", WithdrawPages) : Withdraw(k)!AsksWithinBalance
<1>1. script' = script /\ page' = page
  BY MemberStays
<1>2. ASSUME NEW k \in On("withdraw", WithdrawPages)
      PROVE  Withdraw(k)!IInv' /\ Withdraw(k)!AsksWithinBalance
  <2>1. k \in DOMAIN WithdrawPages /\ script = "withdraw" /\ page = k
    BY DEF On
  <2>2. Withdraw(k)!Next \/ UNCHANGED Withdraw(k)!vars
    BY <2>1 DEF MemberStep, MemberNext, On, vars, Withdraw!vars,
      Withdraw!pageVars
  <2>3. Withdraw(k)!WithdrawalFormAssumption
    BY <2>1, MemberPagesAreSound DEF MemberPagesAssumption
  <2>4. Withdraw(k)!IInv
    BY DEF WithdrawInv
  <2>. QED
    BY <2>1, <2>2, WithdrawNextIInv, <2>3, <2>4
<1>3. On("withdraw", WithdrawPages)' = On("withdraw", WithdrawPages)
  BY <1>1 DEF On
<1>. QED
  BY <1>2, <1>3 DEF WithdrawInv

LEMMA WithdrawShows ==
  ASSUME WithdrawInv
  PROVE  /\ \A k \in On("withdraw", WithdrawPages) : Withdraw(k)!TypeOK
         /\ \A k \in On("withdraw", WithdrawPages) : Withdraw(k)!PaidToOwnCard
         /\ \A k \in On("withdraw", WithdrawPages) : Withdraw(k)!ShowsChosenMember
<1>. SUFFICES ASSUME NEW k \in On("withdraw", WithdrawPages)
         PROVE  Withdraw(k)!TypeOK /\ Withdraw(k)!PaidToOwnCard /\ Withdraw(k)!ShowsChosenMember
  OBVIOUS
<1>1. k \in DOMAIN WithdrawPages /\ Withdraw(k)!IInv
  BY DEF On, WithdrawInv
<1>. QED
  BY <1>1, WithdrawIInvImplies

-----------------------------------------------------------------------------
(***************************************************************************)
(* MemberReport (Report): x1 is tab, x2 is shown, x3 is sends, x4 is valid,*)
(* x5 is day, x6 is bet, x7 is page, x8 is rows, x9 is columns, x10 is     *)
(* modals, x11 is flight, x12 is blocked, x13 is clicked, x14 is raced.    *)
(***************************************************************************)
(* The instants of the days or minutes of a range are those of the range. *)
LEMMA ReportInstantsOf ==
  ASSUME NEW k \in DOMAIN ReportPages, NEW P \in Nat \ {0}, NEW a \in Int, NEW b \in Int
  PROVE  {i \div P : i \in (a * P)..(b * P + P - 1)} = a..b
<1>1. ASSUME NEW i \in (a * P)..(b * P + P - 1)
      PROVE  i \div P \in a..b
  <2>. DEFINE q == i \div P
  <2>1. q \in Int /\ q * P <= i /\ i < q * P + P
    OBVIOUS
  <2>. HIDE DEF q
  <2>2. a * P < q * P + P /\ q * P < b * P + P
    BY <2>1
  <2>3. a <= q /\ q <= b
    BY <2>1, <2>2
  <2>. QED
    BY <2>1, <2>3 DEF q
<1>2. ASSUME NEW q \in a..b
      PROVE  \E i \in (a * P)..(b * P + P - 1) : i \div P = q
  <2>1. a * P <= q * P /\ q * P <= b * P /\ q * P \in Int
    OBVIOUS
  <2>2. q * P \in (a * P)..(b * P + P - 1)
    BY <2>1
  <2>3. (q * P) \div P = q
    OBVIOUS
  <2>. QED
    BY <2>2, <2>3, Zenon
<1>. QED
  BY <1>1, <1>2, Zenon

LEMMA ReportInstantsCount ==
  ASSUME NEW k \in DOMAIN ReportPages, NEW P \in Nat \ {0}, NEW a \in Int, NEW b \in Int
  PROVE  Cardinality((a * P)..(b * P + P - 1)) = P * Cardinality(a..b)
<1>1. Cardinality(a..b) = IF a > b THEN 0 ELSE b - a + 1
  BY FS_Interval
<1>2. a * P \in Int /\ b * P + P - 1 \in Int
  OBVIOUS
<1>3. Cardinality((a * P)..(b * P + P - 1)) = IF a * P > b * P + P - 1 THEN 0 ELSE b * P + P - 1 - a * P + 1
  BY <1>2, FS_Interval
<1>4. CASE a > b
  <2>1. b * P + P <= a * P
    BY <1>4
  <2>. QED
    BY <1>1, <1>2, <1>3, <1>4, <2>1
<1>5. CASE a <= b
  <2>1. a * P <= b * P + P - 1
    BY <1>5
  <2>2. P * (b - a + 1) = b * P + P - 1 - a * P + 1
    OBVIOUS
  <2>. QED
    BY <1>1, <1>2, <1>3, <1>5, <2>1, <2>2
<1>. QED
  BY <1>4, <1>5

LEMMA ReportRanged ==
  ASSUME NEW k \in DOMAIN ReportPages, Report(k)!MemberReportAssumption
  PROVE  /\ Report(k)!Blank \in Report(k)!Ranges /\ ReportPages[k].LastMonth \in Report(k)!Ranges
              /\ Report(k)!Whole(ReportPages[k].LastMonth) \in Report(k)!Ranges
         /\ \A r \in ReportPages[k].Picks :
              Report(k)!Periods(r) \in Report(k)!Ranges
                /\ Report(k)!Whole(Report(k)!Periods(r)) \in Report(k)!Ranges
<1>1. Report(k)!Blank \in Report(k)!Ranges /\ ReportPages[k].LastMonth \in Report(k)!Ranges
        /\ ReportPages[k].Period \in Nat \ {0}
  BY DEF Report!MemberReportAssumption, Report!Ranges, Report!Blank
<1>2. \A r \in Report(k)!Ranges : Report(k)!Whole(r) \in Report(k)!Ranges
  BY <1>1 DEF Report!Ranges, Report!Whole
<1>3. ASSUME NEW r \in ReportPages[k].Picks PROVE Report(k)!Periods(r) \in Report(k)!Ranges
  <2>1. r.from \in Nat /\ r.to \in Nat
    BY DEF Report!MemberReportAssumption
  <2>2. r.from \div ReportPages[k].Period \in Int /\ r.to \div ReportPages[k].Period \in Int
    BY <1>1, <2>1
  <2>. QED
    BY <2>2 DEF Report!Periods, Report!Ranges
<1>. QED
  BY <1>1, <1>2, <1>3

(* No table is called as the absence of a request. *)
LEMMA ReportTablesAre ==
  ASSUME NEW k \in DOMAIN ReportPages, Report(k)!MemberReportAssumption
  PROVE  /\ "none" \notin Report(k)!TableNames /\ "betSummary" \in Report(k)!TableNames
              /\ "betDetails" \in Report(k)!TableNames
                   /\ ReportPages[k].Offered \subseteq Report(k)!TableNames
         /\ "betSummary" \notin ReportPages[k].Offered /\ "betDetails" \notin ReportPages[k].Offered
         /\ \A r \in Report(k)!Requests : r # Report(k)!Nothing /\ r.table \in Report(k)!TableNames
         /\ 1 \in 1..ReportPages[k].Pages
<1>1. /\ "none" \notin Report(k)!TableNames /\ "betSummary" \in Report(k)!TableNames
           /\ "betDetails" \in Report(k)!TableNames /\ ReportPages[k].Offered \subseteq Report(k)!TableNames
      /\ "betSummary" \notin ReportPages[k].Offered /\ "betDetails" \notin ReportPages[k].Offered
  BY DEF Report!MemberReportAssumption, Report!TableNames, Report!Tabs, Report!Modals
<1>2. \A r \in Report(k)!Requests : r # Report(k)!Nothing /\ r.table \in Report(k)!TableNames
  <2>1. Report(k)!Nothing.table = "none"
    BY DEF Report!Nothing
  <2>2. \A r \in Report(k)!Requests : r.table \in Report(k)!TableNames
    BY Zenon DEF Report!Requests
  <2>. QED
    BY <1>1, <2>1, <2>2
<1>3. 1 \in 1..ReportPages[k].Pages
  BY DEF Report!MemberReportAssumption
<1>. QED
  BY <1>1, <1>2, <1>3

LEMMA ReportInitIInv ==
  ASSUME NEW k \in DOMAIN ReportPages, Report(k)!MemberReportAssumption, Report(k)!Init
  PROVE  Report(k)!IInv
<1>1. x1 \in ReportPages[k].Offered
  BY Zenon DEF Report!MemberReportAssumption, Report!Init
<1>2. x1 \in Report(k)!TableNames /\ x1 # "betSummary" /\ x1 # "betDetails"
  BY <1>1, ReportTablesAre
<1>3. x11 \subseteq Report(k)!Requests /\ \A r \in x11 : r.table = x1
  <2>1. PICK q : q = [table |-> x1, page |-> 1, copied |-> FALSE,
               form |-> [day |-> 0, game |-> "", range |-> Report(k)!Blank]]
    OBVIOUS
  <2>2. 0 \in ReportPages[k].Days \cup {0} /\ "" \in ReportPages[k].Games \cup {""}
          /\ Report(k)!Blank \in Report(k)!Ranges /\ 1 \in 1..ReportPages[k].Pages /\ FALSE \in BOOLEAN
    BY ReportRanged, ReportTablesAre
  <2>3. q \in Report(k)!Requests /\ q.table = x1
    BY <1>2, <2>1, <2>2 DEF Report!Requests
  <2>4. x11 = {q}
    BY <2>1 DEF Report!Init
  <2>. QED
    BY <2>3, <2>4
<1>5. x7 \in [Report(k)!TableNames -> 0..ReportPages[k].Pages] /\ x7[x1] = 1
  <2>1. 0 \in 0..ReportPages[k].Pages /\ 1 \in 0..ReportPages[k].Pages
    BY DEF Report!MemberReportAssumption
  <2>. QED
    BY <1>2, <2>1 DEF Report!Init
<1>6. x8 \in [Report(k)!TableNames -> Report(k)!Requests \cup {Report(k)!Nothing}]
        /\ \A t \in Report(k)!TableNames : x8[t] = Report(k)!Nothing
  BY DEF Report!Init
<1>7. x3 \in [ReportPages[k].Offered -> Report(k)!Ranges]
        /\ x2 \in [ReportPages[k].Offered -> Report(k)!Ranges]
  BY ReportRanged DEF Report!Init, Report!SendsAtFirst
<1>8. Report(k)!TypeOK
  <2>1. x10 = {} /\ x14 = {} /\ x12 \in BOOLEAN /\ x9 \in {"all", "balance", "odds"}
    BY DEF Report!Init
  <2>2. x4 \in [Report(k)!WithAmounts \cap ReportPages[k].Offered -> BOOLEAN]
    BY DEF Report!Init
  <2>3. \A r \in x11 : r.table \in Report(k)!TableNames /\ x7[r.table] # 0
    BY <1>2, <1>3, <1>5
  <2>. QED
    BY <1>1, <1>5, <1>6, <2>1, <2>2, <2>3 DEF Report!TypeOK
<1>9. Report(k)!Typed
  <2>1. x5 \in ReportPages[k].Days \cup {0} /\ x6 \in Report(k)!DayForms /\ x13 \in Report(k)!Clicks
    BY DEF Report!Init, Report!DayForms, Report!Clicks
  <2>. QED
    BY <1>3, <1>6, <1>7, <2>1 DEF Report!Typed
<1>10. Report(k)!DayInv /\ Report(k)!BetInv
  <2>1. Report(k)!Coming("betSummary") = {} /\ Report(k)!Coming("betDetails") = {}
    BY <1>2, <1>3 DEF Report!Coming, Report!Init
  <2>. QED
    BY <2>1 DEF Report!DayInv, Report!BetInv, Report!Init
<1>11. Report(k)!RangeInv
  BY DEF Report!RangeInv, Report!Init, Report!SendsAtFirst
<1>. QED
  BY <1>8, <1>9, <1>10, <1>11 DEF Report!IInv

(* A request names its table, a page of it and the form as it is then. *)
LEMMA ReportAskIs ==
  ASSUME NEW k \in DOMAIN ReportPages, Report(k)!MemberReportAssumption, Report(k)!TypeOK, Report(k)!Typed,
         NEW t \in Report(k)!TableNames, NEW p \in 1..ReportPages[k].Pages, NEW copied \in BOOLEAN,
         Report(k)!AskFor(t, p, copied), x5' \in ReportPages[k].Days \cup {0}, x6' \in Report(k)!DayForms,
           x3' \in [ReportPages[k].Offered -> Report(k)!Ranges]
  PROVE  /\ x7' = [x7 EXCEPT ![t] = p] /\ x7' \in [Report(k)!TableNames -> 0..ReportPages[k].Pages]
              /\ x7'[t] # 0
         /\ \A u \in Report(k)!TableNames : x7[u] # 0 => x7'[u] # 0
         /\ x11' \subseteq Report(k)!Requests /\ x12' \in BOOLEAN
         /\ \A r \in x11' \ x11 :
              /\ r.table = t
              /\ t = "betSummary" => r.form.day = x5'
              /\ t = "betDetails" => r.form = [day |-> x6'.day, game |-> x6'.game, range |-> Report(k)!Blank]
<1>1. x7' = [x7 EXCEPT ![t] = p] /\ x7' \in [Report(k)!TableNames -> 0..ReportPages[k].Pages] /\ p # 0
  BY DEF Report!AskFor, Report!TypeOK, Report!MemberReportAssumption
<1>2. Report(k)!Form(t)
        \in [day : ReportPages[k].Days \cup {0}, game : ReportPages[k].Games \cup {""},
          range : Report(k)!Ranges]
  <2>1. CASE t = "betSummary"
    BY <2>1, ReportRanged DEF Report!Form
  <2>2. CASE t = "betDetails"
    BY <2>2, ReportRanged, Zenon DEF Report!Form, Report!DayForms
  <2>3. CASE t \in ReportPages[k].Offered
    <3>1. t # "betSummary" /\ t # "betDetails"
      BY <2>3, ReportTablesAre
    <3>2. PICK w \in Report(k)!Ranges : x3'[t] = w
      BY <2>3
    <3>. QED
      BY <3>1, <3>2 DEF Report!Form
  <2>. QED
    BY <2>1, <2>2, <2>3, Zenon DEF Report!TableNames, Report!Modals
<1>3. /\ t = "betSummary" => Report(k)!Form(t).day = x5'
      /\ t = "betDetails"
           => Report(k)!Form(t) = [day |-> x6'.day, game |-> x6'.game, range |-> Report(k)!Blank]
  BY Zenon DEF Report!Form
<1>4. PICK q : q = [table |-> t, page |-> p, form |-> Report(k)!Form(t), copied |-> copied]
  OBVIOUS
<1>5. q \in Report(k)!Requests /\ q.table = t /\ q.form = Report(k)!Form(t)
  BY <1>2, <1>4 DEF Report!Requests
<1>6. (x11' = x11 /\ x12' = x12) \/ (x11' = x11 \cup {q} /\ x12' = TRUE)
  BY <1>4 DEF Report!AskFor, Report!Request, Report!netVars
<1>. QED
  BY <1>1, <1>3, <1>5, <1>6 DEF Report!TypeOK, Report!Typed

(* Searching a tab asks for a page of its table.                            *)
LEMMA ReportSearchIs ==
  ASSUME NEW k \in DOMAIN ReportPages, Report(k)!MemberReportAssumption, Report(k)!TypeOK,
         NEW t \in ReportPages[k].Offered, Report(k)!Search(t)
  PROVE  \E p \in 1..ReportPages[k].Pages : Report(k)!Ask(t, p)
<1>1. ASSUME Report(k)!Rebuilt(t) PROVE \E p \in 1..ReportPages[k].Pages : Report(k)!Ask(t, p)
  BY <1>1, ReportTablesAre DEF Report!Rebuilt
<1>2. ASSUME Report(k)!Redrawn(t),
             t \in Report(k)!DateOnly PROVE \E p \in 1..ReportPages[k].Pages : Report(k)!Ask(t, p)
  <2>. DEFINE p == IF x7[t] = 0 THEN 1 ELSE x7[t]
  <2>1. x7[t] \in 0..ReportPages[k].Pages
    BY ReportTablesAre DEF Report!TypeOK
  <2>2. p \in 1..ReportPages[k].Pages
    BY <2>1, ReportTablesAre DEF Report!MemberReportAssumption
  <2>. QED
    BY <1>2, <2>2 DEF Report!Redrawn
<1>. QED
  BY <1>1, <1>2 DEF Report!Search, Report!searchProfileLoginLog,
      Report!searchProfileUpdateLog, Report!searchProfileDepositRecord,
      Report!searchProfileWithdrawalRecord, Report!searchProfileAdjustmentRecord,
      Report!searchProfileReportBetUnsettled, Report!searchProfileReportBetSettled,
      Report!DateOnly

(* What is shown or comes grows less. *)
LEMMA ReportLessComes ==
  ASSUME NEW k \in DOMAIN ReportPages, Report(k)!DayInv, Report(k)!BetInv, UNCHANGED <<x5, x6, x9, x13, x14>>,
         (Report(k)!Coming("betSummary"))' \subseteq Report(k)!Coming("betSummary"),
           (Report(k)!Coming("betDetails"))' \subseteq Report(k)!Coming("betDetails")
  PROVE  Report(k)!DayInv' /\ Report(k)!BetInv'
BY DEF Report!DayInv, Report!BetInv, Report!OfBets, Report!ColumnsOf

(* A request of a tab, or of the modal on top, changes no form. *)
LEMMA ReportAskKeeps ==
  ASSUME NEW k \in DOMAIN ReportPages, Report(k)!MemberReportAssumption, Report(k)!IInv,
         NEW t \in Report(k)!TableNames, NEW p \in 1..ReportPages[k].Pages, Report(k)!Ask(t, p),
           x1' \in ReportPages[k].Offered,
         UNCHANGED <<Report(k)!formVars, Report(k)!detailVars, x8, x10>>,
           t = "betDetails" => "betDetails" \in x10
  PROVE  Report(k)!IInv'
<1>1. Report(k)!TypeOK /\ Report(k)!Typed /\ Report(k)!DayInv /\ Report(k)!BetInv /\ Report(k)!RangeInv
  BY DEF Report!IInv
<1>2. /\ x5' = x5 /\ x6' = x6 /\ x13' = x13 /\ x9' = x9 /\ x3' = x3 /\ x2' = x2
      /\ x4' = x4 /\ x8' = x8 /\ x10' = x10 /\ x14' = x14
  BY DEF Report!formVars, Report!detailVars
<1>3. x5' \in ReportPages[k].Days \cup {0} /\ x6' \in Report(k)!DayForms
        /\ x3' \in [ReportPages[k].Offered -> Report(k)!Ranges] /\ Report(k)!AskFor(t, p, FALSE)
             /\ FALSE \in BOOLEAN
  BY <1>1, <1>2 DEF Report!Typed, Report!Ask
<1>4. /\ x7' = [x7 EXCEPT ![t] = p] /\ x7' \in [Report(k)!TableNames -> 0..ReportPages[k].Pages] /\ x7'[t] # 0
      /\ \A u \in Report(k)!TableNames : x7[u] # 0 => x7'[u] # 0
      /\ x11' \subseteq Report(k)!Requests /\ x12' \in BOOLEAN
      /\ \A r \in x11' \ x11 :
           /\ r.table = t
           /\ t = "betSummary" => r.form.day = x5'
           /\ t = "betDetails" => r.form = [day |-> x6'.day, game |-> x6'.game, range |-> Report(k)!Blank]
  BY <1>1, <1>3, ReportAskIs
<1>b. \A r \in x11' : r.table \in Report(k)!TableNames /\ x7'[r.table] # 0
  BY <1>1, <1>2, <1>4, ReportTablesAre DEF Report!TypeOK
<1>c. /\ \A m \in x10' : x7'[m] # 0 /\ x8'[m] # Report(k)!Nothing
      /\ \A u \in Report(k)!TableNames : x8'[u] # Report(k)!Nothing => x8'[u].table = u /\ x7'[u] # 0
      /\ x10' \subseteq Report(k)!Modals
           /\ x4' \in [Report(k)!WithAmounts \cap ReportPages[k].Offered -> BOOLEAN]
  BY <1>1, <1>2, <1>4 DEF Report!TypeOK, Report!TableNames
<1>5. Report(k)!TypeOK'
  BY <1>1, <1>2, <1>4, <1>b, <1>c DEF Report!TypeOK
<1>6. Report(k)!Typed'
  BY <1>1, <1>2, <1>4 DEF Report!Typed
<1>7. Report(k)!DayInv'
  <2>1. \A r \in (Report(k)!Coming("betSummary"))' : r \in Report(k)!Coming("betSummary") \/ r.form.day = x5
    BY <1>2, <1>4 DEF Report!Coming
  <2>. QED
    BY <1>1, <1>2, <2>1 DEF Report!DayInv
<1>8. Report(k)!BetInv'
  <2>1. \A r \in (Report(k)!Coming("betDetails"))' :
          r \in Report(k)!Coming("betDetails") \/ (Report(k)!OfBets(r) /\ "betDetails" \in x10)
    BY <1>2, <1>4 DEF Report!Coming, Report!OfBets
  <2>2. "betDetails" \in x10 => \E r \in Report(k)!Coming("betDetails") : TRUE
    BY DEF Report!Coming
  <2>3. "betDetails" \notin x14 => x6 = [day |-> x13.of, game |-> x13.game]
    BY <1>1 DEF Report!BetInv
  <2>4. "betDetails" \notin x14 => \A r \in (Report(k)!Coming("betDetails"))' :
          Report(k)!OfBets(r) /\ x9 = Report(k)!ColumnsOf(x6.game)
    BY <1>1, <2>1, <2>2 DEF Report!BetInv
  <2>. QED
    BY <1>2, <2>3, <2>4 DEF Report!BetInv, Report!OfBets, Report!ColumnsOf
<1>9. Report(k)!RangeInv'
  BY <1>1, <1>2 DEF Report!RangeInv
<1>. QED
  BY <1>5, <1>6, <1>7, <1>8, <1>9 DEF Report!IInv

LEMMA ReportTopIs ==
  ASSUME NEW k \in DOMAIN ReportPages, Report(k)!MemberReportAssumption, Report(k)!IInv
  PROVE  /\ Report(k)!Top \in Report(k)!TableNames
         /\ Report(k)!Top = "betDetails" => "betDetails" \in x10
BY ReportTablesAre DEF Report!Top, Report!IInv, Report!TypeOK

(* The steps without a request. *)
LEMMA ReportFieldsKeep ==
  ASSUME NEW k \in DOMAIN ReportPages, Report(k)!MemberReportAssumption, Report(k)!IInv,
         NEW t \in ReportPages[k].Offered,
         (\E r \in ReportPages[k].Picks : Report(k)!ApplyDates(t, r)) \/ Report(k)!CancelDates(t)
           \/ Report(k)!EditAmounts(t)
  PROVE  Report(k)!IInv'
<1>1. Report(k)!TypeOK /\ Report(k)!Typed /\ Report(k)!DayInv /\ Report(k)!BetInv /\ Report(k)!RangeInv
  BY DEF Report!IInv
<1>2. UNCHANGED <<x1, x5, x6, x9, x13, x14, x7, x8, x10, x11, x12>>
  BY DEF Report!ApplyDates, Report!CancelDates, Report!EditAmounts, Report!detailVars,
      Report!netVars
<1>3. x3' \in [ReportPages[k].Offered -> Report(k)!Ranges]
        /\ x2' \in [ReportPages[k].Offered -> Report(k)!Ranges] /\ Report(k)!RangeInv'
  <2>1. ASSUME NEW r \in ReportPages[k].Picks, Report(k)!ApplyDates(t, r)
        PROVE  x3' \in [ReportPages[k].Offered -> Report(k)!Ranges]
                 /\ x2' \in [ReportPages[k].Offered -> Report(k)!Ranges] /\ Report(k)!RangeInv'
    <3>1. Report(k)!Periods(r) \in Report(k)!Ranges
            /\ Report(k)!Whole(Report(k)!Periods(r)) \in Report(k)!Ranges
      BY ReportRanged
    <3>. DEFINE s == Report(k)!Periods(r)
    <3>. DEFINE w == Report(k)!Whole(s)
    <3>2. x2' = [x2 EXCEPT ![t] = s] /\ x3' = [x3 EXCEPT ![t] = w]
      BY <2>1 DEF Report!ApplyDates
    <3>. HIDE DEF w
    <3>3. \A u \in ReportPages[k].Offered :
            x3'[u] # Report(k)!Blank => x3'[u] = IF u = t THEN w ELSE Report(k)!Whole(x2[u])
      BY <1>1, <3>2 DEF Report!Typed, Report!RangeInv
    <3>4. \A u \in ReportPages[k].Offered : x2'[u] = IF u = t THEN s ELSE x2[u]
      BY <1>1, <3>2 DEF Report!Typed
    <3>5. Report(k)!RangeInv'
      BY <3>3, <3>4 DEF Report!RangeInv, w
    <3>. HIDE DEF s
    <3>. QED
      BY <1>1, <3>1, <3>2, <3>5 DEF Report!Typed, s, w
  <2>2. CASE Report(k)!CancelDates(t)
    BY <1>1, <2>2, ReportRanged DEF Report!CancelDates, Report!Typed, Report!RangeInv
  <2>3. CASE Report(k)!EditAmounts(t)
    BY <1>1, <2>3 DEF Report!EditAmounts, Report!Typed, Report!RangeInv
  <2>. QED
    BY <2>1, <2>2, <2>3
<1>4. x4' \in [Report(k)!WithAmounts \cap ReportPages[k].Offered -> BOOLEAN]
  BY <1>1, Zenon DEF Report!ApplyDates, Report!CancelDates, Report!EditAmounts, Report!TypeOK
<1>5. Report(k)!TypeOK'
  BY <1>1, <1>2, <1>4 DEF Report!TypeOK
<1>6. Report(k)!Typed'
  BY <1>1, <1>2, <1>3 DEF Report!Typed
<1>7. Report(k)!DayInv' /\ Report(k)!BetInv'
  BY <1>1, <1>2, ReportLessComes DEF Report!Coming
<1>. QED
  BY <1>3, <1>5, <1>6, <1>7 DEF Report!IInv

(* A click on a day, and on a game of the day. *)
LEMMA ReportDayKeeps ==
  ASSUME NEW k \in DOMAIN ReportPages, Report(k)!MemberReportAssumption, Report(k)!IInv,
         NEW d \in ReportPages[k].Days, Report(k)!gotoBetSummaryDetails(d)
  PROVE  Report(k)!IInv'
<1>1. Report(k)!TypeOK /\ Report(k)!Typed /\ Report(k)!DayInv /\ Report(k)!BetInv /\ Report(k)!RangeInv
  BY DEF Report!IInv
<1>2. /\ x5' = d /\ x13' = [x13 EXCEPT !.day = d] /\ x10 = {} /\ x10' = {}
      /\ x6' = x6 /\ x9' = x9 /\ x3' = x3 /\ x2' = x2 /\ x4' = x4
      /\ x8' = x8 /\ x1' = x1
  BY Zenon DEF Report!gotoBetSummaryDetails, Report!formVars
<1>a. /\ x14' \subseteq Report(k)!Modals
      /\ "betDetails" \in x14' <=> "betDetails" \in x14
      /\ "betSummary" \notin x14' => \A r \in x11 : r.table = "betSummary" => r.form.day = d
  <2>1. x14' = Report(k)!Raced("betSummary", Report(k)!Form("betSummary"))
          /\ Report(k)!Form("betSummary").day = d
    BY <1>2 DEF Report!gotoBetSummaryDetails, Report!Form
  <2>2. x14 \subseteq Report(k)!Modals /\ "betSummary" \in Report(k)!Modals
    BY <1>1 DEF Report!TypeOK, Report!Modals
  <2>. QED
    BY <2>1, <2>2 DEF Report!Raced
<1>. DEFINE p == IF x7["betSummary"] = 0 THEN 1 ELSE x7["betSummary"]
<1>3. p \in 1..ReportPages[k].Pages
  <2>1. x7["betSummary"] \in 0..ReportPages[k].Pages
    BY <1>1, ReportTablesAre DEF Report!TypeOK
  <2>. QED
    BY <2>1, ReportTablesAre DEF Report!MemberReportAssumption
<1>4. Report(k)!AskFor("betSummary", p, FALSE)
  BY DEF Report!gotoBetSummaryDetails, Report!Redrawn, Report!Ask
<1>5. /\ x5' \in ReportPages[k].Days \cup {0} /\ x6' \in Report(k)!DayForms
           /\ x3' \in [ReportPages[k].Offered -> Report(k)!Ranges] /\ FALSE \in BOOLEAN
      /\ x13' \in Report(k)!Clicks /\ x13'.day = d /\ x13'.of = x13.of /\ x13'.game = x13.game
  BY <1>1, <1>2 DEF Report!Typed, Report!Clicks
<1>. HIDE DEF p
<1>6. /\ x7' \in [Report(k)!TableNames -> 0..ReportPages[k].Pages] /\ x7'["betSummary"] # 0
      /\ \A u \in Report(k)!TableNames : x7[u] # 0 => x7'[u] # 0
      /\ x11' \subseteq Report(k)!Requests /\ x12' \in BOOLEAN
      /\ \A r \in x11' \ x11 : r.table = "betSummary" /\ r.form.day = x5'
  BY <1>1, <1>3, <1>4, <1>5, ReportTablesAre, ReportAskIs
<1>7. Report(k)!TypeOK'
  BY <1>1, <1>2, <1>a, <1>6 DEF Report!TypeOK, Report!Requests
<1>8. Report(k)!Typed'
  BY <1>1, <1>2, <1>5, <1>6 DEF Report!Typed
<1>9. Report(k)!DayInv'
  <2>1. \A r \in (Report(k)!Coming("betSummary"))' : r.table = "betSummary" /\ r \in x11'
    BY <1>2 DEF Report!Coming
  <2>. QED
    BY <1>2, <1>a, <1>5, <1>6, <2>1 DEF Report!DayInv
<1>10. Report(k)!BetInv'
  <2>1. (Report(k)!Coming("betDetails"))' \subseteq Report(k)!Coming("betDetails")
    BY <1>2, <1>6 DEF Report!Coming
  <2>. QED
    BY <1>1, <1>2, <1>a, <1>5, <2>1 DEF Report!BetInv, Report!OfBets, Report!ColumnsOf
<1>11. Report(k)!RangeInv'
  BY <1>1, <1>2 DEF Report!RangeInv
<1>. QED
  BY <1>7, <1>8, <1>9, <1>10, <1>11 DEF Report!IInv

LEMMA ReportGameKeeps ==
  ASSUME NEW k \in DOMAIN ReportPages, Report(k)!MemberReportAssumption, Report(k)!IInv,
         NEW g \in ReportPages[k].Games, Report(k)!gotoBetDetails(g)
  PROVE  Report(k)!IInv'
<1>1. Report(k)!TypeOK /\ Report(k)!Typed /\ Report(k)!DayInv /\ Report(k)!BetInv /\ Report(k)!RangeInv
  BY DEF Report!IInv
<1>2. /\ x5' = x5 /\ x13' = [x13 EXCEPT !.of = x13.day, !.game = g]
      /\ x10 = {"betSummary"} /\ x10' = x10
      /\ x6' = [day |-> x8["betSummary"].form.day, game |-> g] /\ x9' = Report(k)!ColumnsOf(g)
      /\ x3' = x3 /\ x2' = x2 /\ x4' = x4 /\ x8' = x8 /\ x1' = x1
  BY DEF Report!gotoBetDetails, Report!OpenGame, Report!GameForm, Report!formVars
<1>3. /\ x8["betSummary"] \in Report(k)!Requests /\ x8["betSummary"].form.day \in ReportPages[k].Days \cup {0}
      /\ "betSummary" \notin x14 => x8["betSummary"].form.day = x13.day
  <2>1. x8["betSummary"] \in Report(k)!Requests
    BY <1>1, <1>2, ReportTablesAre DEF Report!TypeOK, Report!Typed
  <2>2. x8["betSummary"] \in Report(k)!Coming("betSummary")
    BY <1>2 DEF Report!Coming
  <2>. QED
    BY <1>1, <2>1, <2>2 DEF Report!DayInv, Report!Requests
<1>4. /\ x5' \in ReportPages[k].Days \cup {0} /\ x6' \in Report(k)!DayForms
           /\ x3' \in [ReportPages[k].Offered -> Report(k)!Ranges]
      /\ x13' \in Report(k)!Clicks /\ x13'.day = x13.day /\ x13'.of = x13.day /\ x13'.game = g
  <2>1. x13 = [day |-> x13.day, of |-> x13.of, game |-> x13.game] /\ x13.day \in ReportPages[k].Days \cup {0}
    BY <1>1 DEF Report!Typed, Report!Clicks
  <2>2. x13' = [day |-> x13.day, of |-> x13.day, game |-> g]
    BY <1>2, <2>1
  <2>3. x6' \in Report(k)!DayForms
    BY <1>2, <1>3 DEF Report!DayForms
  <2>. QED
    BY <1>1, <1>2, <2>1, <2>2, <2>3 DEF Report!Typed, Report!Clicks
<1>5. Report(k)!AskFor("betDetails", 1, x9' # x9) /\ (x9' # x9) \in BOOLEAN
  BY DEF Report!gotoBetDetails, Report!OpenGame
<1>6. PICK c \in BOOLEAN : Report(k)!AskFor("betDetails", 1, c)
  BY <1>5
<1>7. /\ x7' \in [Report(k)!TableNames -> 0..ReportPages[k].Pages] /\ x7'["betDetails"] # 0
      /\ \A u \in Report(k)!TableNames : x7[u] # 0 => x7'[u] # 0
      /\ x11' \subseteq Report(k)!Requests /\ x12' \in BOOLEAN
      /\ \A r \in x11' \ x11 : /\ r.table = "betDetails"
                               /\ r.form = [day |-> x6'.day, game |-> x6'.game, range |-> Report(k)!Blank]
  BY <1>1, <1>4, <1>6, ReportTablesAre, ReportAskIs
<1>a. /\ x14' \subseteq Report(k)!Modals
      /\ "betSummary" \in x14' <=> "betSummary" \in x14
      /\ "betDetails" \notin x14' =>
           /\ "betSummary" \notin x14
           /\ \A r \in x11 :
                r.table = "betDetails"
                  => r.form = [day |-> x6'.day, game |-> x6'.game, range |-> Report(k)!Blank]
  <2>1. /\ x14' = Report(k)!Raced("betDetails", Report(k)!Form("betDetails"))
             \cup (IF "betSummary" \in x14 THEN {"betDetails"} ELSE {})
        /\ Report(k)!Form("betDetails") = [day |-> x6'.day, game |-> x6'.game, range |-> Report(k)!Blank]
    BY DEF Report!gotoBetDetails, Report!OpenGame, Report!Form
  <2>2. x14 \subseteq Report(k)!Modals /\ "betDetails" \in Report(k)!Modals
    BY <1>1 DEF Report!TypeOK, Report!Modals
  <2>. QED
    BY <2>1, <2>2 DEF Report!Raced
<1>b. \A r \in x11' : r.table \in Report(k)!TableNames /\ x7'[r.table] # 0
  BY <1>1, <1>7, ReportTablesAre DEF Report!TypeOK
<1>c. /\ \A m \in x10' : x7'[m] # 0 /\ x8'[m] # Report(k)!Nothing
      /\ \A u \in Report(k)!TableNames : x8'[u] # Report(k)!Nothing => x8'[u].table = u /\ x7'[u] # 0
      /\ x10' \subseteq Report(k)!Modals
           /\ x4' \in [Report(k)!WithAmounts \cap ReportPages[k].Offered -> BOOLEAN]
  BY <1>1, <1>2, <1>7 DEF Report!TypeOK, Report!TableNames
<1>8. Report(k)!TypeOK'
  BY <1>1, <1>2, <1>a, <1>7, <1>b, <1>c DEF Report!TypeOK, Report!ColumnsOf
<1>9. Report(k)!Typed'
  BY <1>1, <1>2, <1>4, <1>7 DEF Report!Typed
<1>10. Report(k)!DayInv'
  <2>1. (Report(k)!Coming("betSummary"))' \subseteq Report(k)!Coming("betSummary")
    BY <1>2, <1>7 DEF Report!Coming
  <2>. QED
    BY <1>1, <1>2, <1>a, <1>4, <2>1 DEF Report!DayInv
<1>11. Report(k)!BetInv'
  <2>1. \A r \in (Report(k)!Coming("betDetails"))' : r.table = "betDetails" /\ r \in x11'
    BY <1>2 DEF Report!Coming
  <2>2. "betDetails" \notin x14' => \A r \in (Report(k)!Coming("betDetails"))' :
          r.form = [day |-> x6'.day, game |-> x6'.game, range |-> Report(k)!Blank]
    BY <1>a, <1>7, <2>1
  <2>3. "betDetails" \notin x14' => x6' = [day |-> x13'.of, game |-> x13'.game]
    BY <1>2, <1>3, <1>4, <1>a
  <2>4. x9' = Report(k)!ColumnsOf(x6'.game)
    BY <1>2
  <2>. QED
    BY <2>2, <2>3, <2>4 DEF Report!BetInv, Report!OfBets, Report!ColumnsOf
<1>12. Report(k)!RangeInv'
  BY <1>1, <1>2 DEF Report!RangeInv
<1>. QED
  BY <1>8, <1>9, <1>10, <1>11, <1>12 DEF Report!IInv

LEMMA ReportCloseKeeps ==
  ASSUME NEW k \in DOMAIN ReportPages, Report(k)!MemberReportAssumption, Report(k)!IInv, Report(k)!Close
  PROVE  Report(k)!IInv'
<1>1. Report(k)!TypeOK /\ Report(k)!Typed /\ Report(k)!DayInv /\ Report(k)!BetInv /\ Report(k)!RangeInv
  BY DEF Report!IInv
<1>2. UNCHANGED <<x1, x2, x3, x4, x5, x6, x9, x13, x14, x7, x8, x11, x12>>
  BY DEF Report!Close, Report!formVars, Report!detailVars, Report!netVars
<1>3. x10' \subseteq x10
  BY DEF Report!Close
<1>4. Report(k)!TypeOK' /\ Report(k)!Typed'
  BY <1>1, <1>2, <1>3 DEF Report!TypeOK, Report!Typed
<1>5. Report(k)!DayInv' /\ Report(k)!BetInv'
  BY <1>1, <1>2, <1>3, ReportLessComes DEF Report!Coming
<1>6. Report(k)!RangeInv'
  BY <1>1, <1>2 DEF Report!RangeInv
<1>. QED
  BY <1>4, <1>5, <1>6 DEF Report!IInv

(* An answer puts the rows that came into the table that asked, and shows  *)
(* the modal of that table.                                                *)
LEMMA ReportAnswerKeeps ==
  ASSUME NEW k \in DOMAIN ReportPages, Report(k)!MemberReportAssumption, Report(k)!IInv, NEW r \in x11,
         NEW refused \in BOOLEAN, NEW more \in BOOLEAN,
         Report(k)!Answered(r, refused, more)
  PROVE  Report(k)!IInv'
<1>1. Report(k)!TypeOK /\ Report(k)!Typed /\ Report(k)!DayInv /\ Report(k)!BetInv /\ Report(k)!RangeInv
  BY DEF Report!IInv
<1>2. /\ UNCHANGED <<x1, x2, x3, x4, x5, x6, x9, x13, x14, x7>>
      /\ x12' = FALSE /\ x11' \subseteq x11
  BY DEF Report!Answered, Report!formVars, Report!detailVars
<1>3. r \in Report(k)!Requests /\ r.table \in Report(k)!TableNames /\ r # Report(k)!Nothing /\ x7[r.table] # 0
  BY <1>1, ReportTablesAre DEF Report!Typed, Report!TypeOK
<1>4. /\ x8' \in [Report(k)!TableNames -> Report(k)!Requests \cup {Report(k)!Nothing}]
      /\ \A t \in Report(k)!TableNames : x8'[t] = x8[t] \/ (x8'[t] = r /\ t = r.table)
      /\ x10' \subseteq Report(k)!Modals
      /\ \A m \in x10' : (m \in x10 /\ x8'[m] = x8[m]) \/ (m = r.table /\ x8'[m] = r)
  <2>1. CASE refused
    BY <1>1, <2>1, ReportTablesAre DEF Report!Answered, Report!Shown, Report!Typed,
        Report!TypeOK
  <2>2. CASE ~refused
    <3>1. x8' = [x8 EXCEPT ![r.table] = r] /\ x10' = x10 \cup ({r.table} \cap Report(k)!Modals)
      BY <2>2 DEF Report!Answered, Report!Shown
    <3>2. Report(k)!Modals \subseteq Report(k)!TableNames
      BY DEF Report!TableNames
    <3>. QED
      BY <1>1, <1>3, <3>1, <3>2 DEF Report!Typed, Report!TypeOK
  <2>. QED
    BY <2>1, <2>2
<1>5. Report(k)!TypeOK'
  <2>1. \A m \in x10' : x7'[m] # 0 /\ x8'[m] # Report(k)!Nothing
    BY <1>1, <1>2, <1>3, <1>4 DEF Report!TypeOK
  <2>2. \A t \in Report(k)!TableNames : x8'[t] # Report(k)!Nothing => x8'[t].table = t /\ x7'[t] # 0
    BY <1>1, <1>2, <1>3, <1>4 DEF Report!TypeOK
  <2>. QED
    BY <1>1, <1>2, <1>4, <2>1, <2>2 DEF Report!TypeOK
<1>6. Report(k)!Typed'
  BY <1>1, <1>2, <1>4 DEF Report!Typed
<1>7. Report(k)!DayInv' /\ Report(k)!BetInv'
  <2>1. (Report(k)!Coming("betSummary"))' \subseteq Report(k)!Coming("betSummary")
          /\ (Report(k)!Coming("betDetails"))' \subseteq Report(k)!Coming("betDetails")
    BY <1>2, <1>4 DEF Report!Coming
  <2>. QED
    BY <1>1, <1>2, <2>1, ReportLessComes
<1>8. Report(k)!RangeInv'
  BY <1>1, <1>2 DEF Report!RangeInv
<1>. QED
  BY <1>5, <1>6, <1>7, <1>8 DEF Report!IInv

LEMMA ReportNextIInv ==
  ASSUME NEW k \in DOMAIN ReportPages, Report(k)!MemberReportAssumption, Report(k)!IInv,
         Report(k)!Next \/ UNCHANGED Report(k)!vars
  PROVE  Report(k)!IInv'
<1>1. Report(k)!TypeOK /\ x1 \in ReportPages[k].Offered /\ x1 \in Report(k)!TableNames
  BY ReportTablesAre DEF Report!IInv, Report!TypeOK
<1>2. ASSUME Report(k)!SearchClick PROVE Report(k)!IInv'
  <2>. PICK t \in ReportPages[k].Offered : t = x1
    BY <1>1
  <2>1. PICK p \in 1..ReportPages[k].Pages : Report(k)!Ask(t, p)
    BY <1>1, <1>2, ReportSearchIs DEF Report!SearchClick
  <2>2. t \in Report(k)!TableNames /\ t # "betDetails"
    BY ReportTablesAre
  <2>3. x1' \in ReportPages[k].Offered /\ UNCHANGED <<Report(k)!formVars, Report(k)!detailVars, x8, x10>>
    BY <1>1, <1>2 DEF Report!SearchClick
  <2>. QED
    BY <1>1, <2>1, <2>2, <2>3, ReportAskKeeps
<1>3. ASSUME NEW t \in ReportPages[k].Offered, Report(k)!toggleTab(t) PROVE Report(k)!IInv'
  <2>1. PICK p \in 1..ReportPages[k].Pages : Report(k)!Ask(t, p)
    BY <1>1, <1>3, ReportSearchIs DEF Report!toggleTab
  <2>2. t \in Report(k)!TableNames /\ t # "betDetails"
    BY ReportTablesAre
  <2>3. x1' \in ReportPages[k].Offered /\ UNCHANGED <<Report(k)!formVars, Report(k)!detailVars, x8, x10>>
    BY <1>3 DEF Report!toggleTab
  <2>. QED
    BY <2>1, <2>2, <2>3, ReportAskKeeps
<1>4. ASSUME NEW p \in 1..ReportPages[k].Pages, Report(k)!TurnPage(p) PROVE Report(k)!IInv'
  <2>1. x1' \in ReportPages[k].Offered /\ UNCHANGED <<Report(k)!formVars, Report(k)!detailVars, x8, x10>>
          /\ Report(k)!Ask(Report(k)!Top, p)
    BY <1>1, <1>4 DEF Report!TurnPage
  <2>. QED
    BY <2>1, ReportTopIs, ReportAskKeeps
<1>5. ASSUME UNCHANGED Report(k)!vars PROVE Report(k)!IInv'
  <2>1. UNCHANGED <<x1, x2, x3, x4, x5, x6, x9, x13, x14, x7, x8, x10, x11, x12>>
    BY <1>5 DEF Report!vars, Report!formVars, Report!detailVars, Report!netVars
  <2>2. Report(k)!TypeOK' /\ Report(k)!Typed' /\ Report(k)!RangeInv'
    BY <2>1 DEF Report!IInv, Report!TypeOK, Report!Typed, Report!RangeInv
  <2>3. Report(k)!DayInv' /\ Report(k)!BetInv'
    BY <2>1, ReportLessComes DEF Report!IInv, Report!Coming
  <2>. QED
    BY <2>2, <2>3 DEF Report!IInv
<1>. QED
  BY <1>2, <1>3, <1>4, <1>5, ReportFieldsKeep, ReportDayKeeps, ReportGameKeeps, ReportCloseKeeps,
     ReportAnswerKeeps DEF
      Report!Next

LEMMA ReportIInvImplies ==
  ASSUME NEW k \in DOMAIN ReportPages, Report(k)!MemberReportAssumption, Report(k)!IInv
  PROVE  Report(k)!TypeOK /\ Report(k)!ModalsShowRowClicked /\ Report(k)!ColumnsFitBets
           /\ Report(k)!SendsWhatIsShown
<1>1. Report(k)!TypeOK /\ Report(k)!Typed /\ Report(k)!DayInv /\ Report(k)!BetInv /\ Report(k)!RangeInv
  BY DEF Report!IInv
<1>2. Report(k)!ModalsShowRowClicked
  BY <1>1 DEF Report!ModalsShowRowClicked, Report!DayInv, Report!BetInv, Report!OfBets,
      Report!Coming
<1>3. Report(k)!ColumnsFitBets
  BY <1>1 DEF Report!ColumnsFitBets, Report!BetInv, Report!OfBets, Report!ColumnsOf,
      Report!Coming
<1>4. ASSUME NEW t \in ReportPages[k].Offered, x3[t] # Report(k)!Blank
      PROVE  /\ {i \div ReportPages[k].Period : i \in x3[t].from..x3[t].to} = x2[t].from..x2[t].to
             /\ Cardinality(x3[t].from..x3[t].to) = ReportPages[k].Period * Cardinality(x2[t].from..x2[t].to)
  <2>1. ReportPages[k].Period \in Nat \ {0} /\ x2[t].from \in Int /\ x2[t].to \in Int
    BY <1>1 DEF Report!MemberReportAssumption, Report!Typed, Report!Ranges
  <2>2. x3[t] = Report(k)!Whole(x2[t])
    BY <1>1, <1>4 DEF Report!RangeInv
  <2>3. x3[t].from = x2[t].from * ReportPages[k].Period
          /\ x3[t].to = x2[t].to * ReportPages[k].Period + ReportPages[k].Period - 1
    BY <2>2 DEF Report!Whole
  <2>4. /\ {i \div ReportPages[k].Period :
             i \in (x2[t].from * ReportPages[k].Period)..(x2[t].to * ReportPages[k].Period + ReportPages[k].Period - 1)}
             = x2[t].from..x2[t].to
        /\ Cardinality((x2[t].from * ReportPages[k].Period)..(x2[t].to * ReportPages[k].Period + ReportPages[k].Period - 1))
             = ReportPages[k].Period * Cardinality(x2[t].from..x2[t].to)
    <3>1. PICK a \in Int, b \in Int : a = x2[t].from /\ b = x2[t].to
      BY <2>1
    <3>2. PICK P \in Nat \ {0} : P = ReportPages[k].Period
      BY <2>1
    <3>3. {i \div P : i \in (a * P)..(b * P + P - 1)} = a..b
      BY ReportInstantsOf, Zenon
    <3>4. Cardinality((a * P)..(b * P + P - 1)) = P * Cardinality(a..b)
      BY ReportInstantsCount
    <3>. QED
      BY <3>1, <3>2, <3>3, <3>4
  <2>. QED
    BY <2>3, <2>4
<1>5. Report(k)!SendsWhatIsShown
  BY <1>4, Zenon DEF Report!SendsWhatIsShown, Report!Cardinality, Cardinality
<1>. QED
  BY <1>1, <1>2, <1>3, <1>5

(* The invariant of the pages of this script. *)
ReportInv == \A k \in On("report", ReportPages) : Report(k)!IInv

LEMMA ReportBegins ==
  ASSUME MemberInit
  PROVE  ReportInv
<1>. SUFFICES ASSUME NEW k \in On("report", ReportPages)
         PROVE  Report(k)!IInv
  BY DEF ReportInv
<1>1. k \in DOMAIN ReportPages /\ script = "report" /\ page = k
  BY DEF On
<1>2. Report(k)!Init
  BY <1>1 DEF MemberInit
<1>3. Report(k)!MemberReportAssumption
  BY <1>1, MemberPagesAreSound DEF MemberPagesAssumption
<1>. QED
  BY <1>1, <1>2, ReportInitIInv, <1>3

LEMMA ReportGoesOn ==
  ASSUME ReportInv, MemberStep
  PROVE  ReportInv'
<1>1. script' = script /\ page' = page
  BY MemberStays
<1>2. ASSUME NEW k \in On("report", ReportPages)
      PROVE  Report(k)!IInv'
  <2>1. k \in DOMAIN ReportPages /\ script = "report" /\ page = k
    BY DEF On
  <2>2. Report(k)!Next \/ UNCHANGED Report(k)!vars
    BY <2>1 DEF MemberStep, MemberNext, On, vars, Report!vars,
      Report!formVars, Report!detailVars, Report!netVars
  <2>3. Report(k)!MemberReportAssumption
    BY <2>1, MemberPagesAreSound DEF MemberPagesAssumption
  <2>4. Report(k)!IInv
    BY DEF ReportInv
  <2>. QED
    BY <2>1, <2>2, ReportNextIInv, <2>3, <2>4
<1>3. On("report", ReportPages)' = On("report", ReportPages)
  BY <1>1 DEF On
<1>. QED
  BY <1>2, <1>3 DEF ReportInv

LEMMA ReportShows ==
  ASSUME ReportInv
  PROVE  /\ \A k \in On("report", ReportPages) : Report(k)!TypeOK
         /\ \A k \in On("report", ReportPages) : Report(k)!ModalsShowRowClicked
         /\ \A k \in On("report", ReportPages) : Report(k)!ColumnsFitBets
         /\ \A k \in On("report", ReportPages) : Report(k)!SendsWhatIsShown
<1>. SUFFICES ASSUME NEW k \in On("report", ReportPages)
         PROVE  Report(k)!TypeOK /\ Report(k)!ModalsShowRowClicked /\ Report(k)!ColumnsFitBets
                  /\ Report(k)!SendsWhatIsShown
  OBVIOUS
<1>1. k \in DOMAIN ReportPages /\ Report(k)!IInv
  BY DEF On, ReportInv
<1>2. Report(k)!MemberReportAssumption
  BY <1>1, MemberPagesAreSound DEF MemberPagesAssumption
<1>. QED
  BY <1>1, ReportIInvImplies, <1>2

-----------------------------------------------------------------------------
(***************************************************************************)
(* DocumentEdit (Photo): x1 is stored, x2 is input, x3 is preview, x4 is   *)
(* cached, x5 is changed, x6 is original, x7 is open, x8 is views, x9 is   *)
(* readers, x10 is post, x11 is touched, x12 is vanished.                  *)
(***************************************************************************)
(* The values of the inputs, the previews and the cached files. *)
LEMMA PhotoFilesAre ==
  ASSUME NEW k \in DOMAIN PhotoDialogs, Photo(k)!DocumentEditAssumption
  PROVE  /\ PhotoDialogs[k].None \in Photo(k)!Files /\ PhotoDialogs[k].Photos \subseteq Photo(k)!Files
              /\ Photo(k)!Keep # PhotoDialogs[k].None
         /\ Photo(k)!All(PhotoDialogs[k].None) \in [PhotoDialogs[k].Fields -> Photo(k)!Files]
              /\ Photo(k)!All(FALSE) \in [PhotoDialogs[k].Fields -> BOOLEAN]
         /\ Photo(k)!NoView
              \in [state : {Photo(k)!Idle, "asked", "served"},
                got : [PhotoDialogs[k].Fields -> Photo(k)!Files]]
         /\ Photo(k)!Unsent \in Photo(k)!Posts /\ Photo(k)!Unsent.state # "sent"
<1>1. /\ PhotoDialogs[k].None \in Photo(k)!Files /\ PhotoDialogs[k].Photos \subseteq Photo(k)!Files
           /\ Photo(k)!Keep # PhotoDialogs[k].None
      /\ Photo(k)!All(PhotoDialogs[k].None) \in [PhotoDialogs[k].Fields -> Photo(k)!Files]
           /\ Photo(k)!All(FALSE) \in [PhotoDialogs[k].Fields -> BOOLEAN]
  BY DEF Photo!DocumentEditAssumption, Photo!Files, Photo!All
<1>2. Photo(k)!NoView
        \in [state : {Photo(k)!Idle, "asked", "served"}, got : [PhotoDialogs[k].Fields -> Photo(k)!Files]]
  BY <1>1 DEF Photo!NoView
<1>3. Photo(k)!Unsent \in Photo(k)!Posts /\ Photo(k)!Unsent.state # "sent"
  BY DEF Photo!Unsent, Photo!Posts, Photo!Idle
<1>. QED
  BY <1>1, <1>2, <1>3, Zenon

LEMMA PhotoInitIInv ==
  ASSUME NEW k \in DOMAIN PhotoDialogs, Photo(k)!DocumentEditAssumption, Photo(k)!Init
  PROVE  Photo(k)!IInv
<1>1. x1 \in [PhotoDialogs[k].Fields -> Photo(k)!Files]
  BY DEF Photo!DocumentEditAssumption, Photo!Init, Photo!Files
<1>2. Photo(k)!TypeOK
  BY <1>1, PhotoFilesAre, Zenon DEF Photo!Init, Photo!TypeOK, Photo!Unsent
<1>3. x10 \in Photo(k)!Posts /\ Photo(k)!PostInv
  BY PhotoFilesAre, Zenon DEF Photo!Init, Photo!PostInv
<1>4. Photo(k)!CancelGivesBack /\ Photo(k)!FlagsInv
  BY DEF Photo!Init, Photo!CancelGivesBack, Photo!FlagsInv, Photo!All
<1>. QED
  BY <1>2, <1>3, <1>4 DEF Photo!IInv

(* The requests for a view change nothing but the views. *)
LEMMA PhotoViewsTyped ==
  ASSUME NEW k \in DOMAIN PhotoDialogs, Photo(k)!DocumentEditAssumption, Photo(k)!TypeOK, NEW v \in DOMAIN x8,
         NEW w,
         w \in [state : {Photo(k)!Idle, "asked", "served"}, got : [PhotoDialogs[k].Fields -> Photo(k)!Files]],
           x8' = [x8 EXCEPT ![v] = w]
  PROVE  x8' \in [1..PhotoDialogs[k].Views -> [state : {Photo(k)!Idle, "asked", "served"},
           got : [PhotoDialogs[k].Fields -> Photo(k)!Files]]]
BY DEF Photo!TypeOK

LEMMA PhotoAsked ==
  ASSUME NEW k \in DOMAIN PhotoDialogs, Photo(k)!DocumentEditAssumption, Photo(k)!TypeOK,
         Photo(k)!viewDocumentAtEditDocument
  PROVE  x8' \in [1..PhotoDialogs[k].Views -> [state : {Photo(k)!Idle, "asked", "served"},
           got : [PhotoDialogs[k].Fields -> Photo(k)!Files]]]
<1>1. PICK v \in DOMAIN x8 : x8' = [x8 EXCEPT ![v].state = "asked"]
  BY Zenon DEF Photo!viewDocumentAtEditDocument
<1>. DEFINE w == [x8[v] EXCEPT !.state = "asked"]
<1>2. w \in [state : {Photo(k)!Idle, "asked", "served"}, got : [PhotoDialogs[k].Fields -> Photo(k)!Files]]
  BY DEF Photo!TypeOK
<1>3. x8' = [x8 EXCEPT ![v] = w]
  BY <1>1
<1>. HIDE DEF w
<1>. QED
  BY <1>2, <1>3, PhotoViewsTyped, Zenon

(* What is typed stays typed. *)
LEMMA PhotoStepTyped ==
  ASSUME NEW k \in DOMAIN PhotoDialogs, Photo(k)!DocumentEditAssumption, Photo(k)!TypeOK,
         x10 \in Photo(k)!Posts, Photo(k)!Next \/ UNCHANGED Photo(k)!vars
  PROVE  Photo(k)!TypeOK' /\ x10' \in Photo(k)!Posts
<1>1. CASE Photo(k)!goToEditDocument
  BY <1>1, PhotoAsked DEF Photo!goToEditDocument, Photo!TypeOK, Photo!fieldVars
<1>2. CASE Photo(k)!resetEditDocument
  BY <1>2, PhotoAsked, PhotoFilesAre, Zenon DEF Photo!resetEditDocument, Photo!TypeOK
<1>3. CASE Photo(k)!Close
  BY <1>3, PhotoFilesAre, Zenon DEF Photo!Close, Photo!Hidden, Photo!TypeOK
<1>4. ASSUME NEW f \in PhotoDialogs[k].Fields,
             Photo(k)!CancelBrowse(f) PROVE Photo(k)!TypeOK' /\ x10' \in Photo(k)!Posts
  BY <1>4 DEF Photo!CancelBrowse, Photo!TypeOK
<1>5. ASSUME NEW f \in PhotoDialogs[k].Fields,
             Photo(k)!PickTooLarge(f) PROVE Photo(k)!TypeOK' /\ x10' \in Photo(k)!Posts
  BY <1>5, PhotoFilesAre, Zenon DEF Photo!PickTooLarge, Photo!Touch, Photo!TypeOK
<1>6. ASSUME NEW f \in PhotoDialogs[k].Fields,
             Photo(k)!clearImage(f) PROVE Photo(k)!TypeOK' /\ x10' \in Photo(k)!Posts
  BY <1>6, PhotoFilesAre, Zenon DEF Photo!clearImage, Photo!Touch, Photo!TypeOK
<1>7. ASSUME NEW f \in PhotoDialogs[k].Fields, NEW p \in PhotoDialogs[k].Photos,
             Photo(k)!previewImage(f, p) PROVE Photo(k)!TypeOK' /\ x10' \in Photo(k)!Posts
  <2>1. p \in Photo(k)!Files
    BY PhotoFilesAre, Zenon
  <2>2. /\ x2' \in [PhotoDialogs[k].Fields -> Photo(k)!Files]
             /\ x4' \in [PhotoDialogs[k].Fields -> Photo(k)!Files]
        /\ x5' \in [PhotoDialogs[k].Fields -> BOOLEAN]
    BY <1>7, <2>1 DEF Photo!previewImage, Photo!TypeOK
  <2>3. x9' \subseteq PhotoDialogs[k].Fields \X PhotoDialogs[k].Photos
          /\ x11' \subseteq PhotoDialogs[k].Fields
    BY <1>7 DEF Photo!previewImage, Photo!Touch, Photo!TypeOK
  <2>. QED
    BY <1>7, <2>2, <2>3 DEF Photo!previewImage, Photo!TypeOK
<1>8. ASSUME NEW f \in PhotoDialogs[k].Fields, NEW p \in PhotoDialogs[k].Photos,
             Photo(k)!ReaderLoads(f, p) PROVE Photo(k)!TypeOK' /\ x10' \in Photo(k)!Posts
  BY <1>8, PhotoFilesAre, Zenon DEF Photo!ReaderLoads, Photo!TypeOK, Photo!fieldVars
<1>9. ASSUME NEW v \in DOMAIN x8, Photo(k)!ServeView(v) PROVE Photo(k)!TypeOK' /\ x10' \in Photo(k)!Posts
  <2>. DEFINE w == [state |-> "served", got |-> x1]
  <2>1. w \in [state : {Photo(k)!Idle, "asked", "served"}, got : [PhotoDialogs[k].Fields -> Photo(k)!Files]]
    BY DEF Photo!TypeOK
  <2>2. x8' = [x8 EXCEPT ![v] = w]
    BY <1>9 DEF Photo!ServeView
  <2>. HIDE DEF w
  <2>3. x8' \in [1..PhotoDialogs[k].Views -> [state : {Photo(k)!Idle, "asked", "served"},
          got : [PhotoDialogs[k].Fields -> Photo(k)!Files]]]
    BY <2>1, <2>2, PhotoViewsTyped, Zenon
  <2>. QED
    BY <1>9, <2>3 DEF Photo!ServeView, Photo!TypeOK, Photo!fieldVars
<1>10. ASSUME NEW v \in DOMAIN x8, Photo(k)!ViewFails(v) PROVE Photo(k)!TypeOK' /\ x10' \in Photo(k)!Posts
  BY <1>10, PhotoFilesAre, PhotoViewsTyped, Zenon DEF Photo!ViewFails, Photo!TypeOK, Photo!fieldVars
<1>11. ASSUME NEW v \in DOMAIN x8, Photo(k)!AnswerView(v) PROVE Photo(k)!TypeOK' /\ x10' \in Photo(k)!Posts
  <2>1. x8[v].got \in [PhotoDialogs[k].Fields -> Photo(k)!Files]
    BY DEF Photo!TypeOK
  <2>2. x8' \in [1..PhotoDialogs[k].Views -> [state : {Photo(k)!Idle, "asked", "served"},
          got : [PhotoDialogs[k].Fields -> Photo(k)!Files]]]
    BY <1>11, PhotoFilesAre, PhotoViewsTyped, Zenon DEF Photo!AnswerView
  <2>3. /\ x2' \in [PhotoDialogs[k].Fields -> Photo(k)!Files]
             /\ x4' \in [PhotoDialogs[k].Fields -> Photo(k)!Files]
                  /\ x3' \in [PhotoDialogs[k].Fields -> Photo(k)!Files]
        /\ x12' \subseteq PhotoDialogs[k].Fields
    BY <1>11, <2>1 DEF Photo!AnswerView, Photo!loadBase64Preview, Photo!TypeOK
  <2>4. x6' \in [PhotoDialogs[k].Fields -> BOOLEAN]
    BY <1>11 DEF Photo!AnswerView, Photo!loadBase64Preview
  <2>5. x5' \in [PhotoDialogs[k].Fields -> BOOLEAN]
    <3>1. \A f \in PhotoDialogs[k].Fields :
            (IF x8[v].got[f] = PhotoDialogs[k].None THEN x6[f] ELSE x5[f]) \in BOOLEAN
      BY DEF Photo!TypeOK
    <3>. QED
      BY <1>11, <3>1 DEF Photo!AnswerView, Photo!loadBase64Preview
  <2>. QED
    BY <1>11, <2>2, <2>3, <2>4, <2>5 DEF Photo!AnswerView, Photo!TypeOK
<1>12. CASE Photo(k)!updateDocument
  <2>1. \A f \in PhotoDialogs[k].Fields :
          (IF x5[f] THEN x2[f] ELSE Photo(k)!Keep) \in Photo(k)!Files \cup {Photo(k)!Keep}
    BY DEF Photo!TypeOK
  <2>2. x10' \in Photo(k)!Posts
    BY <1>12, <2>1 DEF Photo!updateDocument, Photo!Posts, Photo!TypeOK
  <2>. QED
    BY <1>12, <2>2 DEF Photo!updateDocument, Photo!TypeOK, Photo!fieldVars
<1>13. CASE Photo(k)!editIdDocument
  <2>1. x10.file \in [PhotoDialogs[k].Fields -> Photo(k)!Files \cup {Photo(k)!Keep}]
          /\ [x10 EXCEPT !.state = "done"] \in Photo(k)!Posts
    BY DEF Photo!Posts
  <2>2. \A f \in PhotoDialogs[k].Fields :
          (IF x10.file[f] = Photo(k)!Keep THEN x1[f] ELSE x10.file[f]) \in Photo(k)!Files
    BY <2>1 DEF Photo!TypeOK
  <2>. QED
    BY <1>13, <2>1, <2>2 DEF Photo!editIdDocument, Photo!TypeOK, Photo!fieldVars
<1>14. CASE Photo(k)!SaveFails
  BY <1>14 DEF Photo!SaveFails, Photo!Posts, Photo!TypeOK, Photo!fieldVars
<1>15. CASE Photo(k)!Saved
  BY <1>15, PhotoFilesAre, Zenon DEF Photo!Saved, Photo!Hidden, Photo!Posts, Photo!TypeOK
<1>16. CASE Photo(k)!SaveRefused
  BY <1>16, PhotoFilesAre, Zenon DEF Photo!SaveRefused, Photo!Posts, Photo!TypeOK, Photo!fieldVars
<1>17. CASE UNCHANGED Photo(k)!vars
  BY <1>17 DEF Photo!vars, Photo!fieldVars, Photo!TypeOK
<1>. QED
  BY <1>1, <1>2, <1>3, <1>4, <1>5, <1>6, <1>7, <1>8, <1>9, <1>10, <1>11, <1>12, <1>13, <1>14, <1>15, <1>16,
     <1>17 DEF
      Photo!Next, Photo!Gesture

(* Every writer of an input puts into the cached file what it puts there,  *)
(* or empties the input.                                                   *)
LEMMA PhotoStepGivesBack ==
  ASSUME NEW k \in DOMAIN PhotoDialogs, Photo(k)!DocumentEditAssumption, Photo(k)!TypeOK,
         Photo(k)!CancelGivesBack, Photo(k)!Next \/ UNCHANGED Photo(k)!vars
  PROVE  Photo(k)!CancelGivesBack'
<1>1. CASE Photo(k)!goToEditDocument
  BY <1>1 DEF Photo!goToEditDocument, Photo!fieldVars, Photo!CancelGivesBack
<1>2. CASE Photo(k)!resetEditDocument
  BY <1>2 DEF Photo!resetEditDocument, Photo!All, Photo!CancelGivesBack
<1>3. CASE Photo(k)!Close \/ Photo(k)!Saved
  BY <1>3, Zenon DEF Photo!Close, Photo!Saved, Photo!Hidden, Photo!CancelGivesBack
<1>4. ASSUME NEW f \in PhotoDialogs[k].Fields, Photo(k)!CancelBrowse(f) PROVE Photo(k)!CancelGivesBack'
  BY <1>4 DEF Photo!CancelBrowse, Photo!TypeOK, Photo!CancelGivesBack
<1>5. ASSUME NEW f \in PhotoDialogs[k].Fields, Photo(k)!PickTooLarge(f) PROVE Photo(k)!CancelGivesBack'
  BY <1>5 DEF Photo!PickTooLarge, Photo!TypeOK, Photo!CancelGivesBack
<1>6. ASSUME NEW f \in PhotoDialogs[k].Fields, Photo(k)!clearImage(f) PROVE Photo(k)!CancelGivesBack'
  BY <1>6 DEF Photo!clearImage, Photo!TypeOK, Photo!CancelGivesBack
<1>7. ASSUME NEW f \in PhotoDialogs[k].Fields, NEW p \in PhotoDialogs[k].Photos,
             Photo(k)!previewImage(f, p) PROVE Photo(k)!CancelGivesBack'
  BY <1>7 DEF Photo!previewImage, Photo!TypeOK, Photo!CancelGivesBack
<1>8. ASSUME NEW f \in PhotoDialogs[k].Fields, NEW p \in PhotoDialogs[k].Photos,
             Photo(k)!ReaderLoads(f, p) PROVE Photo(k)!CancelGivesBack'
  BY <1>8 DEF Photo!ReaderLoads, Photo!fieldVars, Photo!CancelGivesBack
<1>9. ASSUME NEW v \in DOMAIN x8,
             Photo(k)!ServeView(v) \/ Photo(k)!ViewFails(v) PROVE Photo(k)!CancelGivesBack'
  BY <1>9 DEF Photo!ServeView, Photo!ViewFails, Photo!fieldVars, Photo!CancelGivesBack
<1>10. ASSUME NEW v \in DOMAIN x8, Photo(k)!AnswerView(v) PROVE Photo(k)!CancelGivesBack'
  BY <1>10 DEF Photo!AnswerView, Photo!loadBase64Preview, Photo!CancelGivesBack
<1>11. CASE Photo(k)!updateDocument \/ Photo(k)!editIdDocument \/ Photo(k)!SaveFails \/ Photo(k)!SaveRefused
              \/ UNCHANGED Photo(k)!vars
  BY <1>11 DEF Photo!updateDocument, Photo!editIdDocument, Photo!SaveFails,
      Photo!SaveRefused, Photo!vars, Photo!fieldVars, Photo!CancelGivesBack
<1>. QED
  BY <1>1, <1>2, <1>3, <1>4, <1>5, <1>6, <1>7, <1>8, <1>9, <1>10, <1>11 DEF Photo!Next,
      Photo!Gesture

(* A flag that is set has a gesture or an answer that set it. *)
LEMMA PhotoStepFlags ==
  ASSUME NEW k \in DOMAIN PhotoDialogs, Photo(k)!DocumentEditAssumption, Photo(k)!TypeOK, Photo(k)!FlagsInv,
         Photo(k)!Next \/ UNCHANGED Photo(k)!vars
  PROVE  Photo(k)!FlagsInv'
<1>1. CASE Photo(k)!goToEditDocument
  BY <1>1 DEF Photo!goToEditDocument, Photo!fieldVars, Photo!FlagsInv
<1>2. CASE Photo(k)!resetEditDocument
  BY <1>2 DEF Photo!resetEditDocument, Photo!FlagsInv
<1>3. CASE Photo(k)!Close \/ Photo(k)!Saved
  BY <1>3 DEF Photo!Close, Photo!Saved, Photo!Hidden, Photo!All, Photo!FlagsInv
<1>4. ASSUME NEW f \in PhotoDialogs[k].Fields, Photo(k)!CancelBrowse(f) PROVE Photo(k)!FlagsInv'
  BY <1>4 DEF Photo!CancelBrowse, Photo!FlagsInv
<1>5. ASSUME NEW f \in PhotoDialogs[k].Fields, Photo(k)!PickTooLarge(f) PROVE Photo(k)!FlagsInv'
  BY <1>5 DEF Photo!PickTooLarge, Photo!Touch, Photo!FlagsInv
<1>6. ASSUME NEW f \in PhotoDialogs[k].Fields, Photo(k)!clearImage(f) PROVE Photo(k)!FlagsInv'
  <2>1. \A g \in PhotoDialogs[k].Fields : x5'[g] => g = f \/ x5[g]
    BY <1>6 DEF Photo!clearImage, Photo!TypeOK
  <2>2. x7' /\ x11' = x11 \cup {f} /\ x12' = x12
    BY <1>6 DEF Photo!clearImage, Photo!Touch
  <2>. QED
    BY <2>1, <2>2 DEF Photo!FlagsInv
<1>7. ASSUME NEW f \in PhotoDialogs[k].Fields, NEW p \in PhotoDialogs[k].Photos,
             Photo(k)!previewImage(f, p) PROVE Photo(k)!FlagsInv'
  <2>1. \A g \in PhotoDialogs[k].Fields : x5'[g] => g = f \/ x5[g]
    BY <1>7 DEF Photo!previewImage, Photo!TypeOK
  <2>2. x7' /\ x11' = x11 \cup {f} /\ x12' = x12
    BY <1>7 DEF Photo!previewImage, Photo!Touch
  <2>. QED
    BY <2>1, <2>2 DEF Photo!FlagsInv
<1>8. ASSUME NEW f \in PhotoDialogs[k].Fields, NEW p \in PhotoDialogs[k].Photos,
             Photo(k)!ReaderLoads(f, p) PROVE Photo(k)!FlagsInv'
  BY <1>8 DEF Photo!ReaderLoads, Photo!fieldVars, Photo!FlagsInv
<1>9. ASSUME NEW v \in DOMAIN x8, Photo(k)!ServeView(v) \/ Photo(k)!ViewFails(v) PROVE Photo(k)!FlagsInv'
  BY <1>9 DEF Photo!ServeView, Photo!ViewFails, Photo!fieldVars, Photo!FlagsInv
<1>10. ASSUME NEW v \in DOMAIN x8, Photo(k)!AnswerView(v) PROVE Photo(k)!FlagsInv'
  <2>1. \A f \in PhotoDialogs[k].Fields : x5'[f] => x5[f] \/ f \in x12'
    BY <1>10 DEF Photo!AnswerView, Photo!loadBase64Preview
  <2>2. x12 \subseteq x12' /\ x11' = x11 /\ x7' = x7
    BY <1>10 DEF Photo!AnswerView, Photo!loadBase64Preview
  <2>. QED
    BY <2>1, <2>2 DEF Photo!FlagsInv
<1>11. CASE Photo(k)!updateDocument \/ Photo(k)!editIdDocument \/ Photo(k)!SaveFails \/ Photo(k)!SaveRefused
              \/ UNCHANGED Photo(k)!vars
  BY <1>11 DEF Photo!updateDocument, Photo!editIdDocument, Photo!SaveFails,
      Photo!SaveRefused, Photo!vars, Photo!fieldVars, Photo!FlagsInv
<1>. QED
  BY <1>1, <1>2, <1>3, <1>4, <1>5, <1>6, <1>7, <1>8, <1>9, <1>10, <1>11 DEF Photo!Next,
      Photo!Gesture

(* What is posted is what the flags said when it was posted. *)
LEMMA PhotoStepPost ==
  ASSUME NEW k \in DOMAIN PhotoDialogs, Photo(k)!DocumentEditAssumption, Photo(k)!TypeOK,
         x10 \in Photo(k)!Posts, Photo(k)!FlagsInv, Photo(k)!PostInv, Photo(k)!Next \/ UNCHANGED Photo(k)!vars
  PROVE  Photo(k)!PostInv'
<1>1. CASE x10' = x10
  BY <1>1 DEF Photo!PostInv
<1>2. CASE Photo(k)!updateDocument
  <2>1. \A f \in PhotoDialogs[k].Fields : x10'.file[f] = IF x5[f] THEN x2[f] ELSE Photo(k)!Keep
    BY <1>2 DEF Photo!updateDocument
  <2>2. x10'.touched = x11 /\ x10'.vanished = x12
    BY <1>2 DEF Photo!updateDocument
  <2>3. ASSUME NEW f \in PhotoDialogs[k].Fields,
               x10'.file[f] # Photo(k)!Keep PROVE f \in x10'.touched \cup x10'.vanished
    BY <2>1, <2>2, <2>3 DEF Photo!FlagsInv
  <2>4. ASSUME NEW f \in PhotoDialogs[k].Required PROVE x10'.file[f] # PhotoDialogs[k].None
    <3>1. f \in PhotoDialogs[k].Fields /\ x2[f] # PhotoDialogs[k].None
      BY <1>2, <2>4 DEF Photo!updateDocument, Photo!Valid, Photo!DocumentEditAssumption
    <3>. QED
      BY <2>1, <3>1, PhotoFilesAre, Zenon
  <2>. QED
    BY <2>3, <2>4 DEF Photo!PostInv
<1>3. CASE Photo(k)!editIdDocument \/ Photo(k)!SaveFails
  BY <1>3 DEF Photo!editIdDocument, Photo!SaveFails, Photo!Posts, Photo!PostInv
<1>4. CASE Photo(k)!Saved \/ Photo(k)!SaveRefused
  BY <1>4, PhotoFilesAre, Zenon DEF Photo!Saved, Photo!SaveRefused, Photo!PostInv
<1>5. x10' = x10 \/ Photo(k)!updateDocument \/ Photo(k)!editIdDocument \/ Photo(k)!SaveFails
        \/ Photo(k)!Saved \/ Photo(k)!SaveRefused
  BY Zenon DEF Photo!Next, Photo!Gesture, Photo!goToEditDocument, Photo!resetEditDocument, Photo!Close,
     Photo!CancelBrowse, Photo!PickTooLarge, Photo!clearImage, Photo!previewImage, Photo!ReaderLoads,
     Photo!ServeView, Photo!ViewFails, Photo!AnswerView, Photo!vars
<1>. QED
  BY <1>1, <1>2, <1>3, <1>4, <1>5

(* Only the server's save changes what is stored. *)
LEMMA PhotoStepStores ==
  ASSUME NEW k \in DOMAIN PhotoDialogs, Photo(k)!DocumentEditAssumption, Photo(k)!TypeOK,
         x10 \in Photo(k)!Posts, Photo(k)!PostInv, Photo(k)!Next \/ UNCHANGED Photo(k)!vars
  PROVE  Photo(k)!OnlyTouchedPhotosChange /\ Photo(k)!RequiredPhotosStay
<1>1. CASE x1' = x1
  BY <1>1 DEF Photo!OnlyTouchedPhotosChange, Photo!RequiredPhotosStay
<1>2. CASE Photo(k)!editIdDocument
  <2>1. x10.state = "sent"
    BY <1>2 DEF Photo!editIdDocument
  <2>2. \A f \in PhotoDialogs[k].Fields : x1'[f] = IF x10.file[f] = Photo(k)!Keep THEN x1[f] ELSE x10.file[f]
    BY <1>2 DEF Photo!editIdDocument
  <2>3. Photo(k)!OnlyTouchedPhotosChange
    BY <2>1, <2>2 DEF Photo!PostInv, Photo!OnlyTouchedPhotosChange
  <2>4. \A f \in PhotoDialogs[k].Required : f \in PhotoDialogs[k].Fields /\ x10.file[f] # PhotoDialogs[k].None
    BY <2>1 DEF Photo!PostInv, Photo!DocumentEditAssumption
  <2>. QED
    BY <2>2, <2>3, <2>4 DEF Photo!RequiredPhotosStay
<1>3. x1' = x1 \/ Photo(k)!editIdDocument
  BY Zenon DEF Photo!Next, Photo!Gesture, Photo!goToEditDocument, Photo!resetEditDocument, Photo!Close,
     Photo!CancelBrowse, Photo!PickTooLarge, Photo!clearImage, Photo!previewImage, Photo!ReaderLoads,
     Photo!ServeView, Photo!ViewFails, Photo!AnswerView, Photo!updateDocument, Photo!SaveFails, Photo!Saved,
     Photo!SaveRefused, Photo!vars
<1>. QED
  BY <1>1, <1>2, <1>3

LEMMA PhotoNextIInv ==
  ASSUME NEW k \in DOMAIN PhotoDialogs, Photo(k)!DocumentEditAssumption, Photo(k)!IInv,
         Photo(k)!Next \/ UNCHANGED Photo(k)!vars
  PROVE  Photo(k)!IInv' /\ Photo(k)!OnlyTouchedPhotosChange /\ Photo(k)!RequiredPhotosStay
<1>1. Photo(k)!TypeOK /\ x10 \in Photo(k)!Posts /\ Photo(k)!CancelGivesBack /\ Photo(k)!FlagsInv
        /\ Photo(k)!PostInv
  BY DEF Photo!IInv
<1>2. Photo(k)!TypeOK' /\ x10' \in Photo(k)!Posts
  BY <1>1, PhotoStepTyped
<1>3. Photo(k)!CancelGivesBack' /\ Photo(k)!FlagsInv' /\ Photo(k)!PostInv'
  BY <1>1, PhotoStepGivesBack, PhotoStepFlags, PhotoStepPost
<1>4. Photo(k)!OnlyTouchedPhotosChange /\ Photo(k)!RequiredPhotosStay
  BY <1>1, PhotoStepStores
<1>5. Photo(k)!IInv'
  BY <1>2, <1>3 DEF Photo!IInv, Photo!Posts, Photo!Files
<1>. QED
  BY <1>4, <1>5

LEMMA PhotoIInvImplies ==
  ASSUME NEW k \in DOMAIN PhotoDialogs, Photo(k)!IInv
  PROVE  Photo(k)!TypeOK /\ Photo(k)!CancelGivesBack
BY DEF Photo!IInv

(* The invariant of the pages of this script. *)
PhotoInv == \A k \in On("photo", PhotoDialogs) : Photo(k)!IInv

LEMMA PhotoBegins ==
  ASSUME MemberInit
  PROVE  PhotoInv
<1>. SUFFICES ASSUME NEW k \in On("photo", PhotoDialogs)
         PROVE  Photo(k)!IInv
  BY DEF PhotoInv
<1>1. k \in DOMAIN PhotoDialogs /\ script = "photo" /\ page = k
  BY DEF On
<1>2. Photo(k)!Init
  BY <1>1 DEF MemberInit
<1>3. Photo(k)!DocumentEditAssumption
  BY <1>1, MemberPagesAreSound DEF MemberPagesAssumption
<1>. QED
  BY <1>1, <1>2, PhotoInitIInv, <1>3

LEMMA PhotoGoesOn ==
  ASSUME PhotoInv, MemberStep
  PROVE  /\ PhotoInv'
         /\ \A k \in On("photo", PhotoDialogs) : Photo(k)!OnlyTouchedPhotosChange
         /\ \A k \in On("photo", PhotoDialogs) : Photo(k)!RequiredPhotosStay
<1>1. script' = script /\ page' = page
  BY MemberStays
<1>2. ASSUME NEW k \in On("photo", PhotoDialogs)
      PROVE  Photo(k)!IInv' /\ Photo(k)!OnlyTouchedPhotosChange /\ Photo(k)!RequiredPhotosStay
  <2>1. k \in DOMAIN PhotoDialogs /\ script = "photo" /\ page = k
    BY DEF On
  <2>2. Photo(k)!Next \/ UNCHANGED Photo(k)!vars
    BY <2>1 DEF MemberStep, MemberNext, On, vars, Photo!vars, Photo!fieldVars
  <2>3. Photo(k)!DocumentEditAssumption
    BY <2>1, MemberPagesAreSound DEF MemberPagesAssumption
  <2>4. Photo(k)!IInv
    BY DEF PhotoInv
  <2>. QED
    BY <2>1, <2>2, PhotoNextIInv, <2>3, <2>4
<1>3. On("photo", PhotoDialogs)' = On("photo", PhotoDialogs)
  BY <1>1 DEF On
<1>. QED
  BY <1>2, <1>3 DEF PhotoInv

LEMMA PhotoShows ==
  ASSUME PhotoInv
  PROVE  /\ \A k \in On("photo", PhotoDialogs) : Photo(k)!TypeOK
         /\ \A k \in On("photo", PhotoDialogs) : Photo(k)!CancelGivesBack
<1>. SUFFICES ASSUME NEW k \in On("photo", PhotoDialogs)
         PROVE  Photo(k)!TypeOK /\ Photo(k)!CancelGivesBack
  OBVIOUS
<1>1. k \in DOMAIN PhotoDialogs /\ Photo(k)!IInv
  BY DEF On, PhotoInv
<1>. QED
  BY <1>1, PhotoIInvImplies

-----------------------------------------------------------------------------
(***************************************************************************)
(* MemberProfile (Profile): x1 is server, x2 is cacheData, x3 is marks, x4 *)
(* is dialog, x5 is busy, x6 is flight, x7 is disturbed.                   *)
(***************************************************************************)
(* A save that is posted is well formed.                                   *)
LEMMA ProfilePostKeeps ==
  ASSUME NEW k \in DOMAIN ProfilePages, Profile(k)!Typed, NEW d \in Profile(k)!Dialogs,
         d.item \in ProfilePages[k].Items, Profile(k)!Post(d)
  PROVE  Profile(k)!Typed'
<1>1. PICK s \in ProfilePages[k].Slots : x6' = [x6 EXCEPT ![s] = [Profile(k)!Ask("save") EXCEPT !.from = d]]
  BY Zenon DEF Profile!Post
<1>. DEFINE q == [Profile(k)!Ask("save") EXCEPT !.from = d]
<1>2. Profile(k)!AllBlank \in [ProfilePages[k].Items -> ProfilePages[k].Values \cup {ProfilePages[k].Blank}]
  BY DEF Profile!AllBlank
<1>3. q \in Profile(k)!Requests /\ q.op = "save" /\ q.from = d
  BY <1>2, Zenon DEF Profile!Ask, Profile!Free, Profile!Requests
<1>. QED
  BY <1>1, <1>3 DEF Profile!Post, Profile!Typed

LEMMA ProfileSaveKeeps ==
  ASSUME NEW k \in DOMAIN ProfilePages, Profile(k)!MemberProfileAssumption, Profile(k)!Typed,
         NEW i \in Profile(k)!Guarded \cup {"removeBank", "accountCard"}, Profile(k)!Save(i)
  PROVE  Profile(k)!Typed'
<1>1. x4 \in Profile(k)!Dialogs /\ x4.item \in ProfilePages[k].Items
  BY DEF Profile!Typed, Profile!Save, Profile!Dialogs, Profile!NoItem, Profile!Guarded,
      Profile!FromCache
<1>. QED
  BY <1>1, ProfilePostKeeps DEF Profile!Save

(* Every action keeps dialogs and requests well formed. *)
LEMMA ProfileStepTyped ==
  ASSUME NEW k \in DOMAIN ProfilePages, Profile(k)!MemberProfileAssumption, Profile(k)!Typed,
         Profile(k)!Next \/ UNCHANGED Profile(k)!vars
  PROVE  Profile(k)!Typed'
<1>1. ASSUME NEW s \in ProfilePages[k].Slots, Profile(k)!Serve(s) PROVE Profile(k)!Typed'
  <2>1. /\ x6[s] \in Profile(k)!Requests
             /\ x1 \in [ProfilePages[k].Items -> ProfilePages[k].Values \cup {ProfilePages[k].Blank}]
        /\ x6' = [x6 EXCEPT ![s] = [x6[s] EXCEPT !.state = "served", !.data = x1]]
    BY <1>1, Zenon DEF Profile!Serve, Profile!Typed
  <2>2. /\ [x6[s] EXCEPT !.state = "served", !.data = x1] \in Profile(k)!Requests
        /\ [x6[s] EXCEPT !.state = "served", !.data = x1].op = x6[s].op
        /\ [x6[s] EXCEPT !.state = "served", !.data = x1].from = x6[s].from
    BY <2>1, Zenon DEF Profile!Requests
  <2>. QED
    BY <1>1, <2>1, <2>2 DEF Profile!Serve, Profile!Typed
<1>2. ASSUME NEW s \in ProfilePages[k].Slots, Profile(k)!Fail(s) PROVE Profile(k)!Typed'
  BY <1>2 DEF Profile!Fail, Profile!Typed, Profile!Requests
<1>3. ASSUME NEW s \in ProfilePages[k].Slots, Profile(k)!ServeSave(s) PROVE Profile(k)!Typed'
  <2>. DEFINE q == [x6[s] EXCEPT !.state = "served"]
              d == x6[s].from
  <2>1. x6[s] \in Profile(k)!Requests /\ x6[s].op = "save" /\ d.item \in ProfilePages[k].Items
          /\ d.val # ProfilePages[k].Blank
    BY <1>3 DEF Profile!ServeSave, Profile!Typed
  <2>2. q \in Profile(k)!Requests /\ q.op = "save" /\ q.from = d
    BY <2>1 DEF Profile!Requests
  <2>3. d.val \in ProfilePages[k].Values
    BY <2>1 DEF Profile!Requests, Profile!Dialogs
  <2>4. x1' = [x1 EXCEPT ![d.item] = d.val] /\ x6' = [x6 EXCEPT ![s] = q]
        /\ UNCHANGED <<x2, x3, x4, x5, x7>>
    BY <1>3 DEF Profile!ServeSave
  <2>. HIDE DEF q, d
  <2>5. x1' \in [ProfilePages[k].Items -> ProfilePages[k].Values]
          /\ x6' \in [ProfilePages[k].Slots -> Profile(k)!Requests]
    BY <2>1, <2>2, <2>3, <2>4 DEF Profile!Typed
  <2>6. \A t \in ProfilePages[k].Slots : x6'[t].op = "save" => x6'[t].from.item \in ProfilePages[k].Items
    BY <2>1, <2>2, <2>4 DEF Profile!Typed
  <2>. QED
    BY <2>4, <2>5, <2>6 DEF Profile!Typed
<1>4. ASSUME NEW s \in ProfilePages[k].Slots, Profile(k)!getProfileOverview(s) PROVE Profile(k)!Typed'
  BY <1>4, Zenon DEF Profile!getProfileOverview, Profile!Ask, Profile!Free, Profile!NoDialog,
     Profile!AllBlank, Profile!Typed, Profile!Dialogs, Profile!Requests
<1>5. ASSUME NEW s \in ProfilePages[k].Slots, Profile(k)!getAccountContactVerify(s) PROVE Profile(k)!Typed'
  BY <1>5 DEF Profile!getAccountContactVerify, Profile!Free, Profile!NoDialog,
      Profile!AllBlank, Profile!Typed, Profile!Dialogs, Profile!Requests
<1>6. ASSUME NEW s \in ProfilePages[k].Slots, Profile(k)!Errored(s) PROVE Profile(k)!Typed'
  BY <1>6 DEF Profile!Errored, Profile!Free, Profile!NoDialog, Profile!AllBlank,
      Profile!Typed, Profile!Dialogs, Profile!Requests
<1>7. ASSUME NEW s \in ProfilePages[k].Slots, Profile(k)!Saved(s) PROVE Profile(k)!Typed'
  BY <1>7, Zenon DEF Profile!Saved, Profile!Hide, Profile!NoDialog, Profile!Complete, Profile!Ask,
     Profile!Free, Profile!AllBlank, Profile!Typed, Profile!Dialogs, Profile!Requests
<1>8. ASSUME NEW s \in ProfilePages[k].Slots, Profile(k)!SaveFailed(s) PROVE Profile(k)!Typed'
  BY <1>8 DEF Profile!SaveFailed, Profile!Complete, Profile!Free, Profile!NoDialog,
      Profile!AllBlank, Profile!Typed, Profile!Dialogs, Profile!Requests
<1>9. ASSUME NEW s \in ProfilePages[k].Slots, Profile(k)!SaveLost(s) PROVE Profile(k)!Typed'
  BY <1>9 DEF Profile!SaveLost, Profile!Complete, Profile!Free, Profile!NoDialog,
      Profile!AllBlank, Profile!Typed, Profile!Dialogs, Profile!Requests
<1>10. ASSUME NEW v \in ProfilePages[k].Values, Profile(k)!EditDialog(v) PROVE Profile(k)!Typed'
  BY <1>10, Zenon DEF Profile!EditDialog, Profile!Typed, Profile!Dialogs
<1>11. ASSUME NEW v \in ProfilePages[k].Values, Profile(k)!gotoVerifyContact(v) PROVE Profile(k)!Typed'
  <2>. DEFINE d == [item |-> "contact", val |-> v, edited |-> TRUE, fresh |-> FALSE]
  <2>1. d \in Profile(k)!Dialogs /\ d.item \in ProfilePages[k].Items
    BY <1>11 DEF Profile!gotoVerifyContact, Profile!Dialogs
  <2>. QED
    BY <1>11, <2>1, ProfilePostKeeps DEF Profile!gotoVerifyContact
<1>12. CASE Profile(k)!getEditStatus
  BY <1>12 DEF Profile!getEditStatus, Profile!Open, Profile!Fresh, Profile!Typed,
      Profile!Dialogs
<1>13. CASE Profile(k)!goToEditUserRemark
  BY <1>13 DEF Profile!goToEditUserRemark, Profile!Open, Profile!Fresh, Profile!Typed,
      Profile!Dialogs
<1>14. CASE Profile(k)!openUpdateKycStatusModal
  BY <1>14 DEF Profile!openUpdateKycStatusModal, Profile!Open, Profile!Fresh,
      Profile!Typed, Profile!Dialogs
<1>15. CASE Profile(k)!openAddBankModal
  BY <1>15 DEF Profile!openAddBankModal, Profile!Open, Profile!Fresh, Profile!Typed,
      Profile!Dialogs
<1>16. CASE Profile(k)!openRemoveAccountBankModal
  BY <1>16 DEF Profile!openRemoveAccountBankModal, Profile!Open, Profile!Fresh,
      Profile!Typed, Profile!Dialogs
<1>17. CASE Profile(k)!openRemoveAccountCardModal
  BY <1>17 DEF Profile!openRemoveAccountCardModal, Profile!Open, Profile!Fresh,
      Profile!Typed, Profile!Dialogs
<1>18. CASE Profile(k)!resetStatus
  BY <1>18 DEF Profile!resetStatus, Profile!Reset, Profile!Fresh, Profile!NoItem,
      Profile!Typed, Profile!Dialogs
<1>19. CASE Profile(k)!resetUserRemark
  BY <1>19 DEF Profile!resetUserRemark, Profile!Reset, Profile!Fresh, Profile!NoItem,
      Profile!Typed, Profile!Dialogs
<1>20. CASE Profile(k)!resetKycStatus
  BY <1>20 DEF Profile!resetKycStatus, Profile!Reset, Profile!Fresh, Profile!NoItem,
      Profile!Typed, Profile!Dialogs
<1>21. CASE Profile(k)!resetBank
  BY <1>21 DEF Profile!resetBank, Profile!Reset, Profile!Fresh, Profile!NoItem,
      Profile!Typed, Profile!Dialogs
<1>22. CASE Profile(k)!CloseDialog
  BY <1>22 DEF Profile!CloseDialog, Profile!NoDialog, Profile!Typed, Profile!Dialogs
<1>23. CASE Profile(k)!updateStatus
  BY <1>23, ProfileSaveKeeps DEF Profile!updateStatus, Profile!Guarded, Profile!FromCache
<1>24. CASE Profile(k)!updateUserRemark
  BY <1>24, ProfileSaveKeeps DEF Profile!updateUserRemark, Profile!Guarded,
      Profile!FromCache
<1>25. CASE Profile(k)!updateKycStatus
  BY <1>25, ProfileSaveKeeps DEF Profile!updateKycStatus, Profile!Guarded,
      Profile!FromCache
<1>26. CASE Profile(k)!saveBank
  BY <1>26, ProfileSaveKeeps DEF Profile!saveBank, Profile!Guarded, Profile!FromCache
<1>27. CASE Profile(k)!removeAccountBank
  BY <1>27, ProfileSaveKeeps DEF Profile!removeAccountBank
<1>28. CASE Profile(k)!removeAccountCard
  BY <1>28, ProfileSaveKeeps DEF Profile!removeAccountCard
<1>29. CASE UNCHANGED Profile(k)!vars
  BY <1>29 DEF Profile!vars, Profile!Typed
<1>. QED
  BY <1>1, <1>2, <1>3, <1>4, <1>5, <1>6, <1>7, <1>8, <1>9, <1>10, <1>11, <1>12, <1>13, <1>14, <1>15, <1>16,
     <1>17, <1>18, <1>19, <1>20, <1>21, <1>22, <1>23, <1>24, <1>25, <1>26, <1>27, <1>28, <1>29 DEF
      Profile!Next, Profile!Answer, Profile!OpenDialog, Profile!ResetDialog,
      Profile!SaveDialog

(* No second save starts while the buttons of its dialog are disabled. *)
LEMMA ProfileStepBusy ==
  ASSUME NEW k \in DOMAIN ProfilePages, Profile(k)!MemberProfileAssumption, Profile(k)!Typed,
         Profile(k)!BusyInv, Profile(k)!Next \/ UNCHANGED Profile(k)!vars
  PROVE  Profile(k)!BusyInv'
<1>1. ASSUME NEW s \in ProfilePages[k].Slots, Profile(k)!Serve(s) PROVE Profile(k)!BusyInv'
  BY <1>1 DEF Profile!Serve, Profile!BusyInv, Profile!Saves, Profile!Typed
<1>2. ASSUME NEW s \in ProfilePages[k].Slots, Profile(k)!Fail(s) PROVE Profile(k)!BusyInv'
  BY <1>2 DEF Profile!Fail, Profile!BusyInv, Profile!Saves
<1>3. ASSUME NEW s \in ProfilePages[k].Slots, Profile(k)!ServeSave(s) PROVE Profile(k)!BusyInv'
  BY <1>3 DEF Profile!ServeSave, Profile!BusyInv, Profile!Saves
<1>4. ASSUME NEW s \in ProfilePages[k].Slots, Profile(k)!getProfileOverview(s) PROVE Profile(k)!BusyInv'
  BY <1>4 DEF Profile!getProfileOverview, Profile!Ask, Profile!BusyInv, Profile!Saves
<1>5. ASSUME NEW s \in ProfilePages[k].Slots, Profile(k)!getAccountContactVerify(s) PROVE Profile(k)!BusyInv'
  BY <1>5 DEF Profile!getAccountContactVerify, Profile!Free, Profile!BusyInv,
      Profile!Saves
<1>6. ASSUME NEW s \in ProfilePages[k].Slots, Profile(k)!Errored(s) PROVE Profile(k)!BusyInv'
  BY <1>6 DEF Profile!Errored, Profile!Free, Profile!BusyInv, Profile!Saves
<1>7. ASSUME NEW s \in ProfilePages[k].Slots, Profile(k)!Saved(s) PROVE Profile(k)!BusyInv'
  BY <1>7 DEF Profile!Saved, Profile!Complete, Profile!Ask, Profile!BusyInv,
      Profile!Saves, Profile!Typed
<1>8. ASSUME NEW s \in ProfilePages[k].Slots, Profile(k)!SaveFailed(s) PROVE Profile(k)!BusyInv'
  BY <1>8 DEF Profile!SaveFailed, Profile!Complete, Profile!Free, Profile!BusyInv,
      Profile!Saves, Profile!Typed
<1>9. ASSUME NEW s \in ProfilePages[k].Slots, Profile(k)!SaveLost(s) PROVE Profile(k)!BusyInv'
  BY <1>9 DEF Profile!SaveLost, Profile!Complete, Profile!Free, Profile!BusyInv,
      Profile!Saves, Profile!Typed
<1>10. ASSUME NEW v \in ProfilePages[k].Values, Profile(k)!EditDialog(v) PROVE Profile(k)!BusyInv'
  BY <1>10 DEF Profile!EditDialog, Profile!BusyInv, Profile!Saves
<1>11. ASSUME NEW v \in ProfilePages[k].Values, Profile(k)!gotoVerifyContact(v) PROVE Profile(k)!BusyInv'
  BY <1>11 DEF Profile!gotoVerifyContact, Profile!Post, Profile!Guarded,
      Profile!FromCache, Profile!BusyInv, Profile!Saves
<1>12. CASE Profile(k)!getEditStatus
  BY <1>12 DEF Profile!getEditStatus, Profile!Open, Profile!BusyInv, Profile!Saves
<1>13. CASE Profile(k)!goToEditUserRemark
  BY <1>13 DEF Profile!goToEditUserRemark, Profile!Open, Profile!BusyInv, Profile!Saves
<1>14. CASE Profile(k)!openUpdateKycStatusModal
  BY <1>14 DEF Profile!openUpdateKycStatusModal, Profile!Open, Profile!BusyInv,
      Profile!Saves
<1>15. CASE Profile(k)!openAddBankModal
  BY <1>15 DEF Profile!openAddBankModal, Profile!Open, Profile!BusyInv, Profile!Saves
<1>16. CASE Profile(k)!openRemoveAccountBankModal
  BY <1>16 DEF Profile!openRemoveAccountBankModal, Profile!Open, Profile!BusyInv,
      Profile!Saves
<1>17. CASE Profile(k)!openRemoveAccountCardModal
  BY <1>17 DEF Profile!openRemoveAccountCardModal, Profile!Open, Profile!BusyInv,
      Profile!Saves
<1>18. CASE Profile(k)!resetStatus
  BY <1>18 DEF Profile!resetStatus, Profile!Reset, Profile!BusyInv, Profile!Saves
<1>19. CASE Profile(k)!resetUserRemark
  BY <1>19 DEF Profile!resetUserRemark, Profile!Reset, Profile!BusyInv, Profile!Saves
<1>20. CASE Profile(k)!resetKycStatus
  BY <1>20 DEF Profile!resetKycStatus, Profile!Reset, Profile!BusyInv, Profile!Saves
<1>21. CASE Profile(k)!resetBank
  BY <1>21 DEF Profile!resetBank, Profile!Reset, Profile!BusyInv, Profile!Saves
<1>22. CASE Profile(k)!CloseDialog
  BY <1>22 DEF Profile!CloseDialog, Profile!BusyInv, Profile!Saves
<1>23. CASE Profile(k)!updateStatus
  BY <1>23 DEF Profile!updateStatus, Profile!Save, Profile!Post, Profile!BusyInv,
      Profile!Saves
<1>24. CASE Profile(k)!updateUserRemark
  BY <1>24 DEF Profile!updateUserRemark, Profile!Save, Profile!Post, Profile!BusyInv,
      Profile!Saves
<1>25. CASE Profile(k)!updateKycStatus
  BY <1>25 DEF Profile!updateKycStatus, Profile!Save, Profile!Post, Profile!BusyInv,
      Profile!Saves
<1>26. CASE Profile(k)!saveBank
  BY <1>26 DEF Profile!saveBank, Profile!Save, Profile!Post, Profile!BusyInv,
      Profile!Saves
<1>27. CASE Profile(k)!removeAccountBank
  BY <1>27 DEF Profile!removeAccountBank, Profile!Save, Profile!Post, Profile!BusyInv,
      Profile!Saves
<1>28. CASE Profile(k)!removeAccountCard
  BY <1>28 DEF Profile!removeAccountCard, Profile!Save, Profile!Post, Profile!BusyInv,
      Profile!Saves
<1>29. CASE UNCHANGED Profile(k)!vars
  BY <1>29 DEF Profile!vars, Profile!BusyInv, Profile!Saves
<1>. QED
  BY <1>1, <1>2, <1>3, <1>4, <1>5, <1>6, <1>7, <1>8, <1>9, <1>10, <1>11, <1>12, <1>13, <1>14, <1>15, <1>16,
     <1>17, <1>18, <1>19, <1>20, <1>21, <1>22, <1>23, <1>24, <1>25, <1>26, <1>27, <1>28, <1>29 DEF
      Profile!Next, Profile!Answer, Profile!OpenDialog, Profile!ResetDialog,
      Profile!SaveDialog

(* The overview that is missing stays on its way. *)
LEMMA ProfileStepOverview ==
  ASSUME NEW k \in DOMAIN ProfilePages, Profile(k)!MemberProfileAssumption, Profile(k)!Typed,
         Profile(k)!OverviewInv, Profile(k)!Next \/ UNCHANGED Profile(k)!vars
  PROVE  Profile(k)!OverviewInv'
<1>1. ASSUME NEW s \in ProfilePages[k].Slots, Profile(k)!Serve(s) PROVE Profile(k)!OverviewInv'
  BY <1>1 DEF Profile!Serve, Profile!OverviewInv, Profile!Out, Profile!Renews,
      Profile!Typed
<1>2. ASSUME NEW s \in ProfilePages[k].Slots, Profile(k)!Fail(s) PROVE Profile(k)!OverviewInv'
  BY <1>2 DEF Profile!Fail, Profile!OverviewInv, Profile!Out, Profile!Renews
<1>3. ASSUME NEW s \in ProfilePages[k].Slots, Profile(k)!ServeSave(s) PROVE Profile(k)!OverviewInv'
  BY <1>3 DEF Profile!ServeSave, Profile!OverviewInv, Profile!Renews, Profile!Typed
<1>4. ASSUME NEW s \in ProfilePages[k].Slots, Profile(k)!getProfileOverview(s) PROVE Profile(k)!OverviewInv'
  <2>. SUFFICES ASSUME ~x7'
                PROVE  (x2' = x1' /\ Profile(k)!Out("overview")' = {}) \/ \E t \in ProfilePages[k].Slots :
                         Profile(k)!Renews(t)'
    BY DEF Profile!OverviewInv
  <2>1. /\ ~x7 /\ Profile(k)!Out("overview") = {s} /\ x2' = x6[s].data /\ x1' = x1
        /\ x6[s].state = "served" /\ x6[s].op = "overview"
        /\ x6' = [x6 EXCEPT ![s] = Profile(k)!Ask("contacts")]
    BY <1>4, Zenon DEF Profile!getProfileOverview
  <2>2. PICK t \in ProfilePages[k].Slots : Profile(k)!Renews(t)
    BY <2>1 DEF Profile!OverviewInv
  <2>3. CASE t = s
    <3>1. x2' = x1'
      BY <2>1, <2>2, <2>3 DEF Profile!Renews
    <3>2. Profile(k)!Out("overview")' = {}
      BY <2>1 DEF Profile!Out, Profile!Ask, Profile!Typed
    <3>. QED
      BY <3>1, <3>2
  <2>4. CASE t # s
    <3>1. x6[t].op = "save" /\ x6[t].state = "served"
      BY <2>1, <2>2, <2>4 DEF Profile!Renews, Profile!Out
    <3>. QED
      BY <2>1, <2>4, <3>1 DEF Profile!Renews, Profile!Typed
  <2>. QED
    BY <2>3, <2>4
<1>5. ASSUME NEW s \in ProfilePages[k].Slots,
             Profile(k)!getAccountContactVerify(s) PROVE Profile(k)!OverviewInv'
  BY <1>5 DEF Profile!getAccountContactVerify, Profile!Free, Profile!OverviewInv,
      Profile!Out, Profile!Renews
<1>6. ASSUME NEW s \in ProfilePages[k].Slots, Profile(k)!Errored(s) PROVE Profile(k)!OverviewInv'
  BY <1>6 DEF Profile!Errored, Profile!OverviewInv
<1>7. ASSUME NEW s \in ProfilePages[k].Slots, Profile(k)!Saved(s) PROVE Profile(k)!OverviewInv'
  BY <1>7 DEF Profile!Saved, Profile!Ask, Profile!OverviewInv, Profile!Renews
<1>8. ASSUME NEW s \in ProfilePages[k].Slots, Profile(k)!SaveFailed(s) PROVE Profile(k)!OverviewInv'
  BY <1>8 DEF Profile!SaveFailed, Profile!Free, Profile!OverviewInv, Profile!Out,
      Profile!Renews
<1>9. ASSUME NEW s \in ProfilePages[k].Slots, Profile(k)!SaveLost(s) PROVE Profile(k)!OverviewInv'
  BY <1>9 DEF Profile!SaveLost, Profile!OverviewInv
<1>10. ASSUME NEW v \in ProfilePages[k].Values, Profile(k)!EditDialog(v) PROVE Profile(k)!OverviewInv'
  BY <1>10 DEF Profile!EditDialog, Profile!OverviewInv, Profile!Out, Profile!Renews
<1>11. ASSUME NEW v \in ProfilePages[k].Values, Profile(k)!gotoVerifyContact(v) PROVE Profile(k)!OverviewInv'
  BY <1>11 DEF Profile!gotoVerifyContact, Profile!Post, Profile!Free, Profile!Ask,
      Profile!OverviewInv, Profile!Out, Profile!Renews
<1>12. CASE Profile(k)!getEditStatus
  BY <1>12 DEF Profile!getEditStatus, Profile!Open, Profile!OverviewInv, Profile!Out,
      Profile!Renews
<1>13. CASE Profile(k)!goToEditUserRemark
  BY <1>13 DEF Profile!goToEditUserRemark, Profile!Open, Profile!OverviewInv,
      Profile!Out, Profile!Renews
<1>14. CASE Profile(k)!openUpdateKycStatusModal
  BY <1>14 DEF Profile!openUpdateKycStatusModal, Profile!Open, Profile!OverviewInv,
      Profile!Out, Profile!Renews
<1>15. CASE Profile(k)!openAddBankModal
  BY <1>15 DEF Profile!openAddBankModal, Profile!Open, Profile!OverviewInv, Profile!Out,
      Profile!Renews
<1>16. CASE Profile(k)!openRemoveAccountBankModal
  BY <1>16 DEF Profile!openRemoveAccountBankModal, Profile!Open, Profile!OverviewInv,
      Profile!Out, Profile!Renews
<1>17. CASE Profile(k)!openRemoveAccountCardModal
  BY <1>17 DEF Profile!openRemoveAccountCardModal, Profile!Open, Profile!OverviewInv,
      Profile!Out, Profile!Renews
<1>18. CASE Profile(k)!resetStatus
  BY <1>18 DEF Profile!resetStatus, Profile!Reset, Profile!OverviewInv, Profile!Out,
      Profile!Renews
<1>19. CASE Profile(k)!resetUserRemark
  BY <1>19 DEF Profile!resetUserRemark, Profile!Reset, Profile!OverviewInv, Profile!Out,
      Profile!Renews
<1>20. CASE Profile(k)!resetKycStatus
  BY <1>20 DEF Profile!resetKycStatus, Profile!Reset, Profile!OverviewInv, Profile!Out,
      Profile!Renews
<1>21. CASE Profile(k)!resetBank
  BY <1>21 DEF Profile!resetBank, Profile!Reset, Profile!OverviewInv, Profile!Out,
      Profile!Renews
<1>22. CASE Profile(k)!CloseDialog
  BY <1>22 DEF Profile!CloseDialog, Profile!OverviewInv, Profile!Out, Profile!Renews
<1>23. CASE Profile(k)!updateStatus
  BY <1>23 DEF Profile!updateStatus, Profile!Save, Profile!Post, Profile!Free,
      Profile!Ask, Profile!OverviewInv, Profile!Out, Profile!Renews
<1>24. CASE Profile(k)!updateUserRemark
  BY <1>24 DEF Profile!updateUserRemark, Profile!Save, Profile!Post, Profile!Free,
      Profile!Ask, Profile!OverviewInv, Profile!Out, Profile!Renews
<1>25. CASE Profile(k)!updateKycStatus
  BY <1>25 DEF Profile!updateKycStatus, Profile!Save, Profile!Post, Profile!Free,
      Profile!Ask, Profile!OverviewInv, Profile!Out, Profile!Renews
<1>26. CASE Profile(k)!saveBank
  BY <1>26 DEF Profile!saveBank, Profile!Save, Profile!Post, Profile!Free, Profile!Ask,
      Profile!OverviewInv, Profile!Out, Profile!Renews
<1>27. CASE Profile(k)!removeAccountBank
  BY <1>27 DEF Profile!removeAccountBank, Profile!Save, Profile!Post, Profile!Free,
      Profile!Ask, Profile!OverviewInv, Profile!Out, Profile!Renews
<1>28. CASE Profile(k)!removeAccountCard
  BY <1>28 DEF Profile!removeAccountCard, Profile!Save, Profile!Post, Profile!Free,
      Profile!Ask, Profile!OverviewInv, Profile!Out, Profile!Renews
<1>29. CASE UNCHANGED Profile(k)!vars
  BY <1>29 DEF Profile!vars, Profile!OverviewInv, Profile!Out, Profile!Renews
<1>. QED
  BY <1>1, <1>2, <1>3, <1>4, <1>5, <1>6, <1>7, <1>8, <1>9, <1>10, <1>11, <1>12, <1>13, <1>14, <1>15, <1>16,
     <1>17, <1>18, <1>19, <1>20, <1>21, <1>22, <1>23, <1>24, <1>25, <1>26, <1>27, <1>28, <1>29 DEF
      Profile!Next, Profile!Answer, Profile!OpenDialog, Profile!ResetDialog,
      Profile!SaveDialog

(* So do the contacts. *)
LEMMA ProfileStepContacts ==
  ASSUME NEW k \in DOMAIN ProfilePages, Profile(k)!MemberProfileAssumption, Profile(k)!Typed,
         Profile(k)!ContactsInv, Profile(k)!Next \/ UNCHANGED Profile(k)!vars
  PROVE  Profile(k)!ContactsInv'
<1>1. ASSUME NEW s \in ProfilePages[k].Slots, Profile(k)!Serve(s) PROVE Profile(k)!ContactsInv'
  BY <1>1 DEF Profile!Serve, Profile!ContactsInv, Profile!Out, Profile!Remarks,
      Profile!Typed
<1>2. ASSUME NEW s \in ProfilePages[k].Slots, Profile(k)!Fail(s) PROVE Profile(k)!ContactsInv'
  BY <1>2 DEF Profile!Fail, Profile!ContactsInv, Profile!Out, Profile!Remarks
<1>3. ASSUME NEW s \in ProfilePages[k].Slots, Profile(k)!ServeSave(s) PROVE Profile(k)!ContactsInv'
  BY <1>3 DEF Profile!ServeSave, Profile!ContactsInv, Profile!Out, Profile!Remarks,
      Profile!Typed
<1>4. ASSUME NEW s \in ProfilePages[k].Slots, Profile(k)!getProfileOverview(s) PROVE Profile(k)!ContactsInv'
  <2>. SUFFICES ASSUME ~x7'
                PROVE  /\ \A r, t \in Profile(k)!Out("contacts")' : r = t
                       /\ Profile(k)!Remarks(s)'
    BY DEF Profile!ContactsInv
  <2>1. Profile(k)!Out("contacts") = {} /\ x6' = [x6 EXCEPT ![s] = Profile(k)!Ask("contacts")]
    BY <1>4, Zenon DEF Profile!getProfileOverview
  <2>2. x6'[s].op = "contacts" /\ x6'[s].state = "asked" /\ \A t \in ProfilePages[k].Slots \ {s} :
          x6'[t] = x6[t]
    BY <2>1 DEF Profile!Typed, Profile!Ask, Profile!Free
  <2>. QED
    BY <2>1, <2>2 DEF Profile!Out, Profile!Remarks
<1>5. ASSUME NEW s \in ProfilePages[k].Slots,
             Profile(k)!getAccountContactVerify(s) PROVE Profile(k)!ContactsInv'
  BY <1>5 DEF Profile!getAccountContactVerify, Profile!Free, Profile!ContactsInv,
      Profile!Out, Profile!Remarks
<1>6. ASSUME NEW s \in ProfilePages[k].Slots, Profile(k)!Errored(s) PROVE Profile(k)!ContactsInv'
  BY <1>6 DEF Profile!Errored, Profile!ContactsInv
<1>7. ASSUME NEW s \in ProfilePages[k].Slots, Profile(k)!Saved(s) PROVE Profile(k)!ContactsInv'
  BY <1>7 DEF Profile!Saved, Profile!Ask, Profile!ContactsInv, Profile!Out,
      Profile!Remarks
<1>8. ASSUME NEW s \in ProfilePages[k].Slots, Profile(k)!SaveFailed(s) PROVE Profile(k)!ContactsInv'
  BY <1>8 DEF Profile!SaveFailed, Profile!Free, Profile!ContactsInv, Profile!Out,
      Profile!Remarks
<1>9. ASSUME NEW s \in ProfilePages[k].Slots, Profile(k)!SaveLost(s) PROVE Profile(k)!ContactsInv'
  BY <1>9 DEF Profile!SaveLost, Profile!ContactsInv
<1>10. ASSUME NEW v \in ProfilePages[k].Values, Profile(k)!EditDialog(v) PROVE Profile(k)!ContactsInv'
  BY <1>10 DEF Profile!EditDialog, Profile!ContactsInv, Profile!Out, Profile!Remarks
<1>11. ASSUME NEW v \in ProfilePages[k].Values, Profile(k)!gotoVerifyContact(v) PROVE Profile(k)!ContactsInv'
  BY <1>11 DEF Profile!gotoVerifyContact, Profile!Post, Profile!Free, Profile!Ask,
      Profile!ContactsInv, Profile!Out, Profile!Remarks
<1>12. CASE Profile(k)!getEditStatus
  BY <1>12 DEF Profile!getEditStatus, Profile!Open, Profile!ContactsInv, Profile!Out,
      Profile!Remarks
<1>13. CASE Profile(k)!goToEditUserRemark
  BY <1>13 DEF Profile!goToEditUserRemark, Profile!Open, Profile!ContactsInv,
      Profile!Out, Profile!Remarks
<1>14. CASE Profile(k)!openUpdateKycStatusModal
  BY <1>14 DEF Profile!openUpdateKycStatusModal, Profile!Open, Profile!ContactsInv,
      Profile!Out, Profile!Remarks
<1>15. CASE Profile(k)!openAddBankModal
  BY <1>15 DEF Profile!openAddBankModal, Profile!Open, Profile!ContactsInv, Profile!Out,
      Profile!Remarks
<1>16. CASE Profile(k)!openRemoveAccountBankModal
  BY <1>16 DEF Profile!openRemoveAccountBankModal, Profile!Open, Profile!ContactsInv,
      Profile!Out, Profile!Remarks
<1>17. CASE Profile(k)!openRemoveAccountCardModal
  BY <1>17 DEF Profile!openRemoveAccountCardModal, Profile!Open, Profile!ContactsInv,
      Profile!Out, Profile!Remarks
<1>18. CASE Profile(k)!resetStatus
  BY <1>18 DEF Profile!resetStatus, Profile!Reset, Profile!ContactsInv, Profile!Out,
      Profile!Remarks
<1>19. CASE Profile(k)!resetUserRemark
  BY <1>19 DEF Profile!resetUserRemark, Profile!Reset, Profile!ContactsInv, Profile!Out,
      Profile!Remarks
<1>20. CASE Profile(k)!resetKycStatus
  BY <1>20 DEF Profile!resetKycStatus, Profile!Reset, Profile!ContactsInv, Profile!Out,
      Profile!Remarks
<1>21. CASE Profile(k)!resetBank
  BY <1>21 DEF Profile!resetBank, Profile!Reset, Profile!ContactsInv, Profile!Out,
      Profile!Remarks
<1>22. CASE Profile(k)!CloseDialog
  BY <1>22 DEF Profile!CloseDialog, Profile!ContactsInv, Profile!Out, Profile!Remarks
<1>23. CASE Profile(k)!updateStatus
  BY <1>23 DEF Profile!updateStatus, Profile!Save, Profile!Post, Profile!Free,
      Profile!Ask, Profile!ContactsInv, Profile!Out, Profile!Remarks
<1>24. CASE Profile(k)!updateUserRemark
  BY <1>24 DEF Profile!updateUserRemark, Profile!Save, Profile!Post, Profile!Free,
      Profile!Ask, Profile!ContactsInv, Profile!Out, Profile!Remarks
<1>25. CASE Profile(k)!updateKycStatus
  BY <1>25 DEF Profile!updateKycStatus, Profile!Save, Profile!Post, Profile!Free,
      Profile!Ask, Profile!ContactsInv, Profile!Out, Profile!Remarks
<1>26. CASE Profile(k)!saveBank
  BY <1>26 DEF Profile!saveBank, Profile!Save, Profile!Post, Profile!Free, Profile!Ask,
      Profile!ContactsInv, Profile!Out, Profile!Remarks
<1>27. CASE Profile(k)!removeAccountBank
  BY <1>27 DEF Profile!removeAccountBank, Profile!Save, Profile!Post, Profile!Free,
      Profile!Ask, Profile!ContactsInv, Profile!Out, Profile!Remarks
<1>28. CASE Profile(k)!removeAccountCard
  BY <1>28 DEF Profile!removeAccountCard, Profile!Save, Profile!Post, Profile!Free,
      Profile!Ask, Profile!ContactsInv, Profile!Out, Profile!Remarks
<1>29. CASE UNCHANGED Profile(k)!vars
  BY <1>29 DEF Profile!vars, Profile!ContactsInv, Profile!Out, Profile!Remarks
<1>. QED
  BY <1>1, <1>2, <1>3, <1>4, <1>5, <1>6, <1>7, <1>8, <1>9, <1>10, <1>11, <1>12, <1>13, <1>14, <1>15, <1>16,
     <1>17, <1>18, <1>19, <1>20, <1>21, <1>22, <1>23, <1>24, <1>25, <1>26, <1>27, <1>28, <1>29 DEF
      Profile!Next, Profile!Answer, Profile!OpenDialog, Profile!ResetDialog,
      Profile!SaveDialog

(* A dialog that is filled while nothing is out shows what the server holds. *)
LEMMA ProfileFreshIsServer ==
  ASSUME NEW k \in DOMAIN ProfilePages, Profile(k)!Typed, Profile(k)!OverviewInv, Profile(k)!UneditedInv,
         NEW i, x4' = Profile(k)!Fresh(i), UNCHANGED <<x1, x6>>
  PROVE  Profile(k)!UneditedInv'
<1>1. ASSUME Profile(k)!Unedited(x4)'
      PROVE  x4'.val = x1'[x4'.item] /\ \A s \in ProfilePages[k].Slots : ~Profile(k)!Saves(s)
  <2>1. Profile(k)!Quiet /\ ~x7 /\ i \in Profile(k)!FromCache /\ x4'.val = x2[i] /\ x4'.item = i
    BY <1>1, Zenon DEF Profile!Unedited, Profile!Fresh
  <2>2. \A s \in ProfilePages[k].Slots : x6[s].op = "free"
    BY <2>1 DEF Profile!Quiet, Profile!Free
  <2>3. x2 = x1
    BY <2>1, <2>2 DEF Profile!OverviewInv, Profile!Renews
  <2>. QED
    BY <2>1, <2>2, <2>3 DEF Profile!Saves
<1>. QED
  BY <1>1 DEF Profile!UneditedInv, Profile!Unedited, Profile!Saves

(* What was not edited stays what the server holds. *)
LEMMA ProfileStepUnedited ==
  ASSUME NEW k \in DOMAIN ProfilePages, Profile(k)!MemberProfileAssumption, Profile(k)!Typed,
         Profile(k)!BusyInv, Profile(k)!OverviewInv, Profile(k)!UneditedInv,
           Profile(k)!Next \/ UNCHANGED Profile(k)!vars
  PROVE  Profile(k)!UneditedInv'
<1>1. ASSUME NEW s \in ProfilePages[k].Slots, Profile(k)!Serve(s) PROVE Profile(k)!UneditedInv'
  BY <1>1 DEF Profile!Serve, Profile!UneditedInv, Profile!Saves, Profile!Typed
<1>2. ASSUME NEW s \in ProfilePages[k].Slots, Profile(k)!Fail(s) PROVE Profile(k)!UneditedInv'
  BY <1>2 DEF Profile!Fail, Profile!UneditedInv, Profile!Saves
<1>3. ASSUME NEW s \in ProfilePages[k].Slots, Profile(k)!ServeSave(s) PROVE Profile(k)!UneditedInv'
  BY <1>3 DEF Profile!ServeSave, Profile!UneditedInv, Profile!Unedited, Profile!Saves,
      Profile!Guarded, Profile!BusyInv
<1>4. ASSUME NEW s \in ProfilePages[k].Slots, Profile(k)!getProfileOverview(s) PROVE Profile(k)!UneditedInv'
  BY <1>4 DEF Profile!getProfileOverview, Profile!Ask, Profile!UneditedInv, Profile!Saves
<1>5. ASSUME NEW s \in ProfilePages[k].Slots,
             Profile(k)!getAccountContactVerify(s) PROVE Profile(k)!UneditedInv'
  BY <1>5 DEF Profile!getAccountContactVerify, Profile!Free, Profile!UneditedInv,
      Profile!Saves
<1>6. ASSUME NEW s \in ProfilePages[k].Slots, Profile(k)!Errored(s) PROVE Profile(k)!UneditedInv'
  BY <1>6 DEF Profile!Errored, Profile!Free, Profile!UneditedInv, Profile!Saves
<1>7. ASSUME NEW s \in ProfilePages[k].Slots, Profile(k)!Saved(s) PROVE Profile(k)!UneditedInv'
  BY <1>7 DEF Profile!Saved, Profile!Hide, Profile!NoDialog, Profile!Ask,
      Profile!UneditedInv, Profile!Unedited, Profile!Saves
<1>8. ASSUME NEW s \in ProfilePages[k].Slots, Profile(k)!SaveFailed(s) PROVE Profile(k)!UneditedInv'
  BY <1>8 DEF Profile!SaveFailed, Profile!Free, Profile!UneditedInv, Profile!Saves
<1>9. ASSUME NEW s \in ProfilePages[k].Slots, Profile(k)!SaveLost(s) PROVE Profile(k)!UneditedInv'
  BY <1>9 DEF Profile!SaveLost, Profile!Free, Profile!UneditedInv, Profile!Saves
<1>10. ASSUME NEW v \in ProfilePages[k].Values, Profile(k)!EditDialog(v) PROVE Profile(k)!UneditedInv'
  BY <1>10 DEF Profile!EditDialog, Profile!UneditedInv, Profile!Unedited, Profile!Saves
<1>11. ASSUME NEW v \in ProfilePages[k].Values, Profile(k)!gotoVerifyContact(v) PROVE Profile(k)!UneditedInv'
  BY <1>11 DEF Profile!gotoVerifyContact, Profile!NoDialog, Profile!Post,
      Profile!UneditedInv, Profile!Unedited, Profile!Saves
<1>12. CASE Profile(k)!getEditStatus
  BY <1>12, ProfileFreshIsServer DEF Profile!getEditStatus, Profile!Open
<1>13. CASE Profile(k)!goToEditUserRemark
  BY <1>13, ProfileFreshIsServer DEF Profile!goToEditUserRemark, Profile!Open
<1>14. CASE Profile(k)!openUpdateKycStatusModal
  BY <1>14, ProfileFreshIsServer DEF Profile!openUpdateKycStatusModal, Profile!Open
<1>15. CASE Profile(k)!openAddBankModal
  BY <1>15 DEF Profile!openAddBankModal, Profile!Open, Profile!Fresh, Profile!FromCache,
      Profile!UneditedInv, Profile!Unedited, Profile!Saves
<1>16. CASE Profile(k)!openRemoveAccountBankModal
  BY <1>16 DEF Profile!openRemoveAccountBankModal, Profile!Open, Profile!Fresh,
      Profile!FromCache, Profile!UneditedInv, Profile!Unedited, Profile!Saves
<1>17. CASE Profile(k)!openRemoveAccountCardModal
  BY <1>17 DEF Profile!openRemoveAccountCardModal, Profile!Open, Profile!Fresh,
      Profile!FromCache, Profile!UneditedInv, Profile!Unedited, Profile!Saves
<1>18. CASE Profile(k)!resetStatus
  BY <1>18, ProfileFreshIsServer DEF Profile!resetStatus, Profile!Reset
<1>19. CASE Profile(k)!resetUserRemark
  BY <1>19, ProfileFreshIsServer DEF Profile!resetUserRemark, Profile!Reset
<1>20. CASE Profile(k)!resetKycStatus
  BY <1>20, ProfileFreshIsServer DEF Profile!resetKycStatus, Profile!Reset
<1>21. CASE Profile(k)!resetBank
  BY <1>21 DEF Profile!resetBank, Profile!Reset, Profile!Fresh, Profile!FromCache,
      Profile!UneditedInv, Profile!Unedited, Profile!Saves
<1>22. CASE Profile(k)!CloseDialog
  BY <1>22 DEF Profile!CloseDialog, Profile!NoDialog, Profile!UneditedInv,
      Profile!Unedited, Profile!Saves
<1>23. CASE Profile(k)!updateStatus
  BY <1>23 DEF Profile!updateStatus, Profile!Save, Profile!Post, Profile!UneditedInv,
      Profile!Saves
<1>24. CASE Profile(k)!updateUserRemark
  BY <1>24 DEF Profile!updateUserRemark, Profile!Save, Profile!Post, Profile!UneditedInv,
      Profile!Saves
<1>25. CASE Profile(k)!updateKycStatus
  BY <1>25 DEF Profile!updateKycStatus, Profile!Save, Profile!Post, Profile!UneditedInv,
      Profile!Saves
<1>26. CASE Profile(k)!saveBank
  BY <1>26 DEF Profile!saveBank, Profile!Save, Profile!Post, Profile!UneditedInv,
      Profile!Saves
<1>27. CASE Profile(k)!removeAccountBank
  BY <1>27 DEF Profile!removeAccountBank, Profile!Save, Profile!Post,
      Profile!UneditedInv, Profile!Saves
<1>28. CASE Profile(k)!removeAccountCard
  BY <1>28 DEF Profile!removeAccountCard, Profile!Save, Profile!Post,
      Profile!UneditedInv, Profile!Saves
<1>29. CASE UNCHANGED Profile(k)!vars
  BY <1>29 DEF Profile!vars, Profile!UneditedInv, Profile!Saves
<1>. QED
  BY <1>1, <1>2, <1>3, <1>4, <1>5, <1>6, <1>7, <1>8, <1>9, <1>10, <1>11, <1>12, <1>13, <1>14, <1>15, <1>16,
     <1>17, <1>18, <1>19, <1>20, <1>21, <1>22, <1>23, <1>24, <1>25, <1>26, <1>27, <1>28, <1>29 DEF
      Profile!Next, Profile!Answer, Profile!OpenDialog, Profile!ResetDialog,
      Profile!SaveDialog


-----------------------------------------------------------------------------
(* The invariant, and what it is for.                                      *)
LEMMA ProfileInitIInv ==
  ASSUME NEW k \in DOMAIN ProfilePages, Profile(k)!MemberProfileAssumption, Profile(k)!Init
  PROVE  Profile(k)!IInv
<1>. USE DEF Profile!Init, Profile!NoDialog, Profile!NoItem, Profile!Free, Profile!Ask,
    Profile!AllBlank
<1>1. PICK s \in ProfilePages[k].Slots :
             x6 = [t \in ProfilePages[k].Slots |-> IF t = s THEN Profile(k)!Ask("overview")
               ELSE Profile(k)!Free]
  OBVIOUS
<1>2. Profile(k)!Typed
  BY <1>1, Zenon DEF Profile!Typed, Profile!Dialogs, Profile!Requests
<1>3. Profile(k)!BusyInv /\ Profile(k)!UneditedInv
  BY <1>1 DEF Profile!BusyInv, Profile!UneditedInv, Profile!Saves, Profile!Unedited
<1>4. Profile(k)!OverviewInv /\ Profile(k)!ContactsInv
  BY <1>1 DEF Profile!OverviewInv, Profile!ContactsInv, Profile!Renews, Profile!Remarks,
      Profile!Out
<1>. QED
  BY <1>2, <1>3, <1>4 DEF Profile!IInv

LEMMA ProfileNextIInv ==
  ASSUME NEW k \in DOMAIN ProfilePages, Profile(k)!MemberProfileAssumption, Profile(k)!IInv,
         Profile(k)!Next \/ UNCHANGED Profile(k)!vars
  PROVE  Profile(k)!IInv' /\ Profile(k)!UneditedSaveKeeps
<1>1. Profile(k)!UneditedSaveKeeps
  <2>. SUFFICES ASSUME NEW s \in ProfilePages[k].Slots, Profile(k)!Unedited(x6[s].from),
                       Profile(k)!ServeSave(s)
                PROVE  x1' = x1
    BY Zenon DEF Profile!UneditedSaveKeeps, Profile!Unedited, Profile!ServeSave, Profile!IInv, Profile!Typed
  <2>1. x6[s].from.val = x1[x6[s].from.item]
    BY DEF Profile!IInv, Profile!UneditedInv, Profile!Saves, Profile!ServeSave,
        Profile!Guarded, Profile!Unedited
  <2>. QED
    BY <2>1 DEF Profile!ServeSave, Profile!IInv, Profile!Typed
<1>. QED
  BY <1>1, ProfileStepTyped, ProfileStepBusy, ProfileStepOverview, ProfileStepContacts,
     ProfileStepUnedited DEF
      Profile!IInv

LEMMA ProfileIInvImplies ==
  ASSUME NEW k \in DOMAIN ProfilePages, Profile(k)!IInv
  PROVE  Profile(k)!TypeOK /\ Profile(k)!QuietPageIsFresh /\ Profile(k)!OneSaveAtATime
<1>1. Profile(k)!TypeOK
  BY DEF Profile!IInv, Profile!Typed, Profile!TypeOK, Profile!Dialogs, Profile!Requests
<1>2. Profile(k)!QuietPageIsFresh
  <2>. SUFFICES ASSUME Profile(k)!Quiet, ~x7
                PROVE  x2 = x1 /\ ("contact" \in ProfilePages[k].Items => x3 = x1["contact"])
    BY DEF Profile!QuietPageIsFresh
  <2>1. \A s \in ProfilePages[k].Slots : x6[s].op = "free"
    BY DEF Profile!Quiet, Profile!Free
  <2>. QED
    BY <2>1 DEF Profile!IInv, Profile!OverviewInv, Profile!ContactsInv, Profile!Renews,
        Profile!Remarks
<1>3. Profile(k)!OneSaveAtATime
  BY DEF Profile!IInv, Profile!BusyInv, Profile!Saves, Profile!Out,
      Profile!OneSaveAtATime
<1>. QED
  BY <1>1, <1>2, <1>3

(* The invariant of the pages of this script. *)
ProfileInv == \A k \in On("profile", ProfilePages) : Profile(k)!IInv

LEMMA ProfileBegins ==
  ASSUME MemberInit
  PROVE  ProfileInv
<1>. SUFFICES ASSUME NEW k \in On("profile", ProfilePages)
         PROVE  Profile(k)!IInv
  BY DEF ProfileInv
<1>1. k \in DOMAIN ProfilePages /\ script = "profile" /\ page = k
  BY DEF On
<1>2. Profile(k)!Init
  BY <1>1 DEF MemberInit
<1>3. Profile(k)!MemberProfileAssumption
  BY <1>1, MemberPagesAreSound DEF MemberPagesAssumption
<1>. QED
  BY <1>1, <1>2, ProfileInitIInv, <1>3

LEMMA ProfileGoesOn ==
  ASSUME ProfileInv, MemberStep
  PROVE  /\ ProfileInv'
         /\ \A k \in On("profile", ProfilePages) : Profile(k)!UneditedSaveKeeps
<1>1. script' = script /\ page' = page
  BY MemberStays
<1>2. ASSUME NEW k \in On("profile", ProfilePages)
      PROVE  Profile(k)!IInv' /\ Profile(k)!UneditedSaveKeeps
  <2>1. k \in DOMAIN ProfilePages /\ script = "profile" /\ page = k
    BY DEF On
  <2>2. Profile(k)!Next \/ UNCHANGED Profile(k)!vars
    BY <2>1 DEF MemberStep, MemberNext, On, vars, Profile!vars
  <2>3. Profile(k)!MemberProfileAssumption
    BY <2>1, MemberPagesAreSound DEF MemberPagesAssumption
  <2>4. Profile(k)!IInv
    BY DEF ProfileInv
  <2>. QED
    BY <2>1, <2>2, ProfileNextIInv, <2>3, <2>4
<1>3. On("profile", ProfilePages)' = On("profile", ProfilePages)
  BY <1>1 DEF On
<1>. QED
  BY <1>2, <1>3 DEF ProfileInv

LEMMA ProfileShows ==
  ASSUME ProfileInv
  PROVE  /\ \A k \in On("profile", ProfilePages) : Profile(k)!TypeOK
         /\ \A k \in On("profile", ProfilePages) : Profile(k)!QuietPageIsFresh
         /\ \A k \in On("profile", ProfilePages) : Profile(k)!OneSaveAtATime
<1>. SUFFICES ASSUME NEW k \in On("profile", ProfilePages)
         PROVE  Profile(k)!TypeOK /\ Profile(k)!QuietPageIsFresh /\ Profile(k)!OneSaveAtATime
  OBVIOUS
<1>1. k \in DOMAIN ProfilePages /\ Profile(k)!IInv
  BY DEF On, ProfileInv
<1>. QED
  BY <1>1, ProfileIInvImplies

-----------------------------------------------------------------------------
(***************************************************************************)
(* PasswordBox (Password): x1 is page, x2 is open, x3 is password, x4 is   *)
(* confirm, x5 is met, x6 is interacted, x7 is box, x8 is marks, x9 is     *)
(* post.                                                                   *)
(***************************************************************************)
LEMMA PasswordInitIInv ==
  ASSUME NEW k \in DOMAIN PasswordForms, Password(k)!PasswordBoxAssumption, Password(k)!Init
  PROVE  Password(k)!IInv
BY Zenon DEF Password!Init, Password!IInv, Password!TypeOK, Password!MarksMatchPassword, Password!MetInv,
   Password!Empty

(* The dialog is emptied. *)
LEMMA PasswordResetKeeps ==
  ASSUME NEW k \in DOMAIN PasswordForms, Password(k)!PasswordBoxAssumption, Password(k)!IInv,
         Password(k)!resetPasswordForm, x1' = x1, x2' \in BOOLEAN,
         x9' \in PasswordForms[k].Passwords \cup {Password(k)!Empty}
  PROVE  Password(k)!IInv'
<1>1. Password(k)!TypeOK'
  BY Zenon DEF Password!IInv, Password!TypeOK, Password!resetPasswordForm
<1>2. Password(k)!MarksMatchPassword' /\ Password(k)!MetInv'
  BY DEF Password!IInv, Password!TypeOK, Password!MarksMatchPassword, Password!MetInv,
      Password!resetPasswordForm, Password!Empty, Password!PasswordBoxAssumption
<1>. QED
  BY <1>1, <1>2 DEF Password!IInv

LEMMA PasswordInputKeeps ==
  ASSUME NEW k \in DOMAIN PasswordForms, Password(k)!PasswordBoxAssumption, Password(k)!IInv,
         NEW p \in PasswordForms[k].Passwords \cup {Password(k)!Empty}, Password(k)!Input(p)
  PROVE  Password(k)!IInv'
<1>1. p.meets \subseteq PasswordForms[k].Requirements
  BY DEF Password!PasswordBoxAssumption, Password!Empty
<1>2. x5' \in BOOLEAN /\ x7' \in BOOLEAN /\ x6' \in BOOLEAN
  BY Zenon DEF Password!IInv, Password!TypeOK, Password!Input, Password!MeetsAll
<1>3. Password(k)!TypeOK'
  BY <1>1, <1>2, Zenon DEF Password!IInv, Password!TypeOK, Password!Input, Password!fields
<1>4. Password(k)!MarksMatchPassword' /\ Password(k)!MetInv'
  BY Zenon DEF Password!IInv, Password!MarksMatchPassword, Password!MetInv, Password!Input, Password!MeetsAll
<1>. QED
  BY <1>3, <1>4 DEF Password!IInv

LEMMA PasswordNextIInv ==
  ASSUME NEW k \in DOMAIN PasswordForms, Password(k)!PasswordBoxAssumption, Password(k)!IInv,
         Password(k)!Next \/ UNCHANGED Password(k)!vars
  PROVE  Password(k)!IInv'
<1>0. /\ x1 \in PasswordForms[k].Pages /\ x2 \in BOOLEAN /\ x5 \in BOOLEAN /\ x6 \in BOOLEAN /\ x7 \in BOOLEAN
      /\ x3 \in PasswordForms[k].Passwords \cup {Password(k)!Empty}
           /\ x9 \in PasswordForms[k].Passwords \cup {Password(k)!Empty}
  BY DEF Password!IInv, Password!TypeOK
<1>1. ASSUME UNCHANGED <<x1, x3, x5, x8>>,
             x2' \in BOOLEAN, x7' \in BOOLEAN, x6' \in BOOLEAN,
               {x4', x9'} \subseteq PasswordForms[k].Passwords \cup {Password(k)!Empty},
             x2' \/ (x4' = x4 /\ x7' = x7 /\ ~x2)
      PROVE  Password(k)!IInv'
  BY <1>1 DEF Password!IInv, Password!TypeOK, Password!MarksMatchPassword,
      Password!MetInv, Password!MeetsAll
<1>2. x4 \in PasswordForms[k].Passwords \cup {Password(k)!Empty}
  BY DEF Password!IInv, Password!TypeOK
<1>3. CASE Password(k)!Open
  BY <1>0, <1>1, <1>2, <1>3 DEF Password!Open, Password!fields, Password!boxVars
<1>4. CASE Password(k)!Focus
  BY <1>0, <1>1, <1>2, <1>4 DEF Password!Focus, Password!fields, Password!ShownByFocus
<1>5. CASE Password(k)!Keydown
  BY <1>0, <1>1, <1>2, <1>5 DEF Password!Keydown, Password!fields
<1>6. CASE Password(k)!ResetButton
  BY <1>0, <1>6, PasswordResetKeeps DEF Password!ResetButton
<1>7. CASE Password(k)!Close
  BY <1>0, <1>7, PasswordResetKeeps, Zenon DEF Password!Close, Password!Hide
<1>8. ASSUME NEW p \in PasswordForms[k].Passwords \cup {Password(k)!Empty}, Password(k)!InputConfirm(p)
      PROVE  Password(k)!IInv'
  BY <1>0, <1>1, <1>8 DEF Password!InputConfirm, Password!boxVars
<1>9. CASE Password(k)!updatePasswordValidation
  BY <1>0, <1>1, <1>2, <1>9 DEF Password!updatePasswordValidation, Password!fields,
      Password!boxVars
<1>10. CASE Password(k)!Saved
  BY <1>0, <1>10, PasswordResetKeeps, Zenon DEF Password!Saved, Password!Hide
<1>11. CASE Password(k)!Refused
  BY <1>0, <1>1, <1>2, <1>11 DEF Password!Refused, Password!fields, Password!boxVars
<1>12. CASE UNCHANGED Password(k)!vars
  BY <1>0, <1>1, <1>2, <1>12 DEF Password!vars, Password!fields, Password!boxVars
<1>. QED
  BY <1>3, <1>4, <1>5, <1>6, <1>7, <1>8, <1>9, <1>10, <1>11, <1>12, PasswordInputKeeps DEF
      Password!Next

LEMMA PasswordIInvImplies ==
  ASSUME NEW k \in DOMAIN PasswordForms, Password(k)!IInv
  PROVE  Password(k)!TypeOK /\ Password(k)!MarksMatchPassword /\ Password(k)!FocusShowsUnmet
BY DEF Password!IInv, Password!TypeOK, Password!MetInv, Password!FocusShowsUnmet,
    Password!ShownByFocus

(* The invariant of the pages of this script. *)
PasswordInv == \A k \in On("password", PasswordForms) : Password(k)!IInv

LEMMA PasswordBegins ==
  ASSUME MemberInit
  PROVE  PasswordInv
<1>. SUFFICES ASSUME NEW k \in On("password", PasswordForms)
         PROVE  Password(k)!IInv
  BY DEF PasswordInv
<1>1. k \in DOMAIN PasswordForms /\ script = "password" /\ page = k
  BY DEF On
<1>2. Password(k)!Init
  BY <1>1 DEF MemberInit
<1>3. Password(k)!PasswordBoxAssumption
  BY <1>1, MemberPagesAreSound DEF MemberPagesAssumption
<1>. QED
  BY <1>1, <1>2, PasswordInitIInv, <1>3

LEMMA PasswordGoesOn ==
  ASSUME PasswordInv, MemberStep
  PROVE  PasswordInv'
<1>1. script' = script /\ page' = page
  BY MemberStays
<1>2. ASSUME NEW k \in On("password", PasswordForms)
      PROVE  Password(k)!IInv'
  <2>1. k \in DOMAIN PasswordForms /\ script = "password" /\ page = k
    BY DEF On
  <2>2. Password(k)!Next \/ UNCHANGED Password(k)!vars
    BY <2>1 DEF MemberStep, MemberNext, On, vars, Password!vars,
      Password!fields, Password!boxVars
  <2>3. Password(k)!PasswordBoxAssumption
    BY <2>1, MemberPagesAreSound DEF MemberPagesAssumption
  <2>4. Password(k)!IInv
    BY DEF PasswordInv
  <2>. QED
    BY <2>1, <2>2, PasswordNextIInv, <2>3, <2>4
<1>3. On("password", PasswordForms)' = On("password", PasswordForms)
  BY <1>1 DEF On
<1>. QED
  BY <1>2, <1>3 DEF PasswordInv

LEMMA PasswordShows ==
  ASSUME PasswordInv
  PROVE  /\ \A k \in On("password", PasswordForms) : Password(k)!TypeOK
         /\ \A k \in On("password", PasswordForms) : Password(k)!MarksMatchPassword
         /\ \A k \in On("password", PasswordForms) : Password(k)!FocusShowsUnmet
<1>. SUFFICES ASSUME NEW k \in On("password", PasswordForms)
         PROVE  Password(k)!TypeOK /\ Password(k)!MarksMatchPassword /\ Password(k)!FocusShowsUnmet
  OBVIOUS
<1>1. k \in DOMAIN PasswordForms /\ Password(k)!IInv
  BY DEF On, PasswordInv
<1>. QED
  BY <1>1, PasswordIInvImplies

-----------------------------------------------------------------------------
(***************************************************************************)
(* MemberSearch (Search): x1 is server, x2 is rows, x3 is dialog, x4 is    *)
(* form, x5 is kept, x6 is busy, x7 is blocked, x8 is flight, x9 is        *)
(* clicked, x10 is overtaken.                                              *)
(***************************************************************************)
LEMMA SearchApart ==
  ASSUME NEW k \in DOMAIN SearchPages, Search(k)!MemberSearchAssumption
  PROVE  /\ SearchPages[k].None \notin SearchPages[k].Kinds /\ SearchPages[k].None # "create"
              /\ "create" \notin SearchPages[k].Kinds /\ "free" \notin SearchPages[k].Kinds
                   /\ "search" \notin SearchPages[k].Kinds
         /\ SearchPages[k].None \notin SearchPages[k].Statuses
              /\ SearchPages[k].New \in SearchPages[k].Statuses
         /\ SearchPages[k].None \notin {"status", "kycStatus"}
BY DEF Search!MemberSearchAssumption

(* What a slot may hold. *)
LEMMA SearchParts ==
  ASSUME NEW k \in DOMAIN SearchPages, Search(k)!MemberSearchAssumption
  PROVE  /\ Search(k)!Blank \in Search(k)!Entry /\ Search(k)!NoTable \in Search(k)!Table
         /\ \A m \in SearchPages[k].Members : [Search(k)!Blank EXCEPT !.member = m] \in Search(k)!Entry
BY DEF Search!Blank, Search!Entry, Search!NoTable, Search!Table

LEMMA SearchNoRequest ==
  ASSUME NEW k \in DOMAIN SearchPages, Search(k)!MemberSearchAssumption
  PROVE  Search(k)!Free \in Search(k)!Requests /\ Search(k)!Free.op = "free" /\ Search(k)!Free.state = "free"
BY SearchParts DEF Search!Free, Search!Requests

LEMMA SearchNewSearch ==
  ASSUME NEW k \in DOMAIN SearchPages, Search(k)!MemberSearchAssumption, NEW q,
         q = [Search(k)!Free EXCEPT !.op = "search", !.state = "asked"]
  PROVE  q \in Search(k)!Requests /\ q.op = "search" /\ q.state = "asked"
BY SearchParts, Zenon DEF Search!Free, Search!Requests

LEMMA SearchNewCreate ==
  ASSUME NEW k \in DOMAIN SearchPages, Search(k)!MemberSearchAssumption, NEW m \in SearchPages[k].Members,
         NEW q, q = [Search(k)!Free EXCEPT !.op = "create", !.state = "asked", !.form.member = m]
  PROVE  q \in Search(k)!Requests /\ q.op = "create" /\ q.state = "asked"
<1>1. q = [op |-> "create", state |-> "asked", form |-> [Search(k)!Blank EXCEPT !.member = m],
        data |-> Search(k)!NoTable]
  BY Zenon DEF Search!Free
<1>. QED
  BY <1>1, SearchParts DEF Search!Requests

(* One slot changes. *)
LEMMA SearchOneSlot ==
  ASSUME NEW k \in DOMAIN SearchPages, Search(k)!Typed, NEW s \in SearchPages[k].Slots,
         NEW q \in Search(k)!Requests, x8' = [x8 EXCEPT ![s] = q]
  PROVE  /\ x8' \in [SearchPages[k].Slots -> Search(k)!Requests] /\ x8'[s] = q
         /\ \A t \in SearchPages[k].Slots : t # s => x8'[t] = x8[t]
BY DEF Search!Typed

LEMMA SearchSlotKeeps ==
  ASSUME NEW k \in DOMAIN SearchPages, Search(k)!MemberSearchAssumption, Search(k)!Typed,
         NEW s \in SearchPages[k].Slots, NEW q \in Search(k)!Requests, x8' = [x8 EXCEPT ![s] = q],
         q.op = "create" => x8[s].op = "create" \/ ~x7,
         x7' \in BOOLEAN, x7' <=> (q.op = "create" \/ (x7 /\ x8[s].op # "create")),
         x6' \subseteq SearchPages[k].Kinds, \A key \in x6' : q.op = key \/ (key \in x6 /\ x8[s].op # key),
         x1' \in Search(k)!Table, x2' \in Search(k)!Table,
         x3' \in SearchPages[k].Kinds \cup {"create", SearchPages[k].None},
           x4' \in [SearchPages[k].Kinds -> Search(k)!Entry],
         x5' \in [SearchPages[k].Kinds -> SearchPages[k].Statuses \cup {SearchPages[k].None}],
           x9' \in Search(k)!Entry, x10' \in BOOLEAN
  PROVE  Search(k)!Typed'
<1>1. /\ x8' \in [SearchPages[k].Slots -> Search(k)!Requests] /\ x8'[s] = q
      /\ \A t \in SearchPages[k].Slots : t # s => x8'[t] = x8[t]
  BY SearchOneSlot, Zenon
<1>2. /\ x7 \in BOOLEAN /\ (x7 <=> \E t \in SearchPages[k].Slots : x8[t].op = "create")
      /\ \A key \in x6 : \E t \in SearchPages[k].Slots : x8[t].op = key
      /\ \A t, u \in SearchPages[k].Slots : x8[t].op = "create" /\ x8[u].op = "create" => t = u
  BY DEF Search!Typed, Search!TypeOK
<1>3. x7' <=> \E t \in SearchPages[k].Slots : x8'[t].op = "create"
  BY <1>1, <1>2
<1>4. \A key \in x6' : \E t \in SearchPages[k].Slots : x8'[t].op = key
  BY <1>1, <1>2
<1>5. \A t, u \in SearchPages[k].Slots : x8'[t].op = "create" /\ x8'[u].op = "create" => t = u
  BY <1>1, <1>2
<1>6. Search(k)!TypeOK'
  BY <1>3, <1>4 DEF Search!TypeOK, Search!Table, Search!Entry
<1>. QED
  BY <1>1, <1>5, <1>6 DEF Search!Typed, Search!Requests, Search!Table, Search!Entry

LEMMA SearchHideKeeps ==
  ASSUME NEW k \in DOMAIN SearchPages, Search(k)!MemberSearchAssumption, Search(k)!Typed, NEW key,
         Search(k)!Hide(key)
  PROVE  /\ x3' \in SearchPages[k].Kinds \cup {"create", SearchPages[k].None}
              /\ x4' \in [SearchPages[k].Kinds -> Search(k)!Entry]
         /\ x5' \in [SearchPages[k].Kinds -> SearchPages[k].Statuses \cup {SearchPages[k].None}]
              /\ x9' \in Search(k)!Entry
         /\ (x3' \in SearchPages[k].Kinds => x3' = x3 /\ x5'[x3] = x5[x3] /\ x4' = x4 /\ x9' = x9)
BY SearchApart DEF Search!Hide, Search!Typed, Search!TypeOK, Search!Entry

LEMMA SearchSaveKeeps ==
  ASSUME NEW k \in DOMAIN SearchPages, Search(k)!MemberSearchAssumption, Search(k)!Typed,
         NEW key \in {"status", "kycStatus"}, Search(k)!Save(key)
  PROVE  Search(k)!Typed'
<1>0. /\ x1 \in Search(k)!Table /\ x2 \in Search(k)!Table /\ x4 \in [SearchPages[k].Kinds -> Search(k)!Entry]
           /\ x9 \in Search(k)!Entry
      /\ x5 \in [SearchPages[k].Kinds -> SearchPages[k].Statuses \cup {SearchPages[k].None}]
           /\ x3 \in SearchPages[k].Kinds \cup {"create", SearchPages[k].None}
      /\ x6 \subseteq SearchPages[k].Kinds /\ x10 \in BOOLEAN /\ x7 \in BOOLEAN
  BY DEF Search!Typed, Search!TypeOK
<1>1. x3 = key /\ x6' = x6 \cup {key} /\ UNCHANGED <<x1, x2, x3, x4, x5, x9, x7, x10>>
  BY DEF Search!Save, Search!dialogVars
<1>2. key \in SearchPages[k].Kinds
  BY <1>0, <1>1, SearchApart DEF Search!MemberSearchAssumption
<1>3. PICK s \in SearchPages[k].Slots :
        x8[s] = Search(k)!Free
        /\ x8' = [x8 EXCEPT ![s] = [Search(k)!Free EXCEPT !.op = key, !.state = "asked", !.form = x4[key]]]
  BY Zenon DEF Search!Save
<1>4. PICK q : q = [Search(k)!Free EXCEPT !.op = key, !.state = "asked", !.form = x4[key]]
  OBVIOUS
<1>10. x4[key] \in Search(k)!Entry
  BY <1>0, <1>2
<1>11. q \in Search(k)!Requests /\ q.op = key
  BY <1>2, <1>4, <1>10, SearchParts, Zenon DEF Search!Free, Search!Requests
<1>5. q \in Search(k)!Requests /\ q.op = key /\ Search(k)!Free.op = "free" /\ q.op # "create"
  BY <1>2, <1>11, SearchNoRequest, SearchApart
<1>6. (\A i \in x6 : i # "free") /\ x6' \subseteq SearchPages[k].Kinds
  BY <1>0, <1>1, <1>2, SearchApart
<1>7. x8' = [x8 EXCEPT ![s] = q]
  BY <1>3, <1>4
<1>8. \A i \in x6' : q.op = i \/ (i \in x6 /\ x8[s].op # i)
  BY <1>1, <1>3, <1>5, <1>6
<1>9. x7' <=> (q.op = "create" \/ (x7 /\ x8[s].op # "create"))
  BY <1>1, <1>3, <1>5
<1>. QED
  BY <1>0, <1>1, <1>5, <1>6, <1>7, <1>8, <1>9, SearchSlotKeeps, ZenonT(30)

LEMMA SearchStepTyped ==
  ASSUME NEW k \in DOMAIN SearchPages, Search(k)!MemberSearchAssumption, Search(k)!Typed,
         Search(k)!Next \/ UNCHANGED Search(k)!vars
  PROVE  Search(k)!Typed'
<1>1. CASE Search(k)!SearchClick
  <2>0. /\ x1 \in Search(k)!Table /\ x2 \in Search(k)!Table
             /\ x4 \in [SearchPages[k].Kinds -> Search(k)!Entry] /\ x9 \in Search(k)!Entry
        /\ x5 \in [SearchPages[k].Kinds -> SearchPages[k].Statuses \cup {SearchPages[k].None}]
             /\ x3 \in SearchPages[k].Kinds \cup {"create", SearchPages[k].None}
        /\ x6 \subseteq SearchPages[k].Kinds /\ x10 \in BOOLEAN /\ x7 \in BOOLEAN
    BY DEF Search!Typed, Search!TypeOK
  <2>1. PICK s \in SearchPages[k].Slots : x8[s] = Search(k)!Free /\ Search(k)!Search(s)
    BY <1>1 DEF Search!SearchClick
  <2>2. PICK q : q = [Search(k)!Free EXCEPT !.op = "search", !.state = "asked"]
    OBVIOUS
  <2>3. q \in Search(k)!Requests /\ q.op = "search" /\ Search(k)!Free.op = "free"
    BY <2>2, SearchNewSearch, SearchNoRequest, Zenon
  <2>4. x8' = [x8 EXCEPT ![s] = q] /\ x10' \in BOOLEAN
        /\ UNCHANGED <<x1, x2, x3, x4, x5, x9, x6, x7>>
    BY <1>1, <2>0, <2>1, <2>2, Zenon DEF Search!SearchClick, Search!Search, Search!dialogVars
  <2>5. \A key \in x6 : key # "free"
    BY <2>0, SearchApart
  <2>. QED
    BY <2>0, <2>1, <2>3, <2>4, <2>5, SearchSlotKeeps, Zenon
<1>2. CASE Search(k)!Close
  BY <1>2 DEF Search!Close, Search!CanClick, Search!Searches, Search!Hide, Search!Typed,
      Search!TypeOK, Search!Table, Search!Entry, Search!Requests
<1>3. CASE Search(k)!create
  BY <1>3 DEF Search!create, Search!CanClick, Search!Searches, Search!Typed,
      Search!TypeOK, Search!Table, Search!Entry, Search!Requests
<1>4. ASSUME NEW m \in SearchPages[k].Members, Search(k)!openUpdateStatusModal(m) PROVE Search(k)!Typed'
  BY <1>4 DEF Search!openUpdateStatusModal, Search!OpenDialog, Search!CanClick,
      Search!Searches, Search!Typed, Search!TypeOK, Search!Table, Search!Entry,
      Search!Requests
<1>5. ASSUME NEW m \in SearchPages[k].Members, Search(k)!openUpdateKycStatusModal(m) PROVE Search(k)!Typed'
  BY <1>5 DEF Search!openUpdateKycStatusModal, Search!OpenDialog, Search!CanClick,
      Search!Searches, Search!Typed, Search!TypeOK, Search!Table, Search!Entry,
      Search!Requests
<1>6. ASSUME NEW m \in SearchPages[k].Members, Search(k)!createAccount(m) PROVE Search(k)!Typed'
  <2>0. /\ x1 \in Search(k)!Table /\ x2 \in Search(k)!Table
             /\ x4 \in [SearchPages[k].Kinds -> Search(k)!Entry] /\ x9 \in Search(k)!Entry
        /\ x5 \in [SearchPages[k].Kinds -> SearchPages[k].Statuses \cup {SearchPages[k].None}]
             /\ x3 \in SearchPages[k].Kinds \cup {"create", SearchPages[k].None}
        /\ x6 \subseteq SearchPages[k].Kinds /\ x10 \in BOOLEAN /\ x7 \in BOOLEAN
    BY DEF Search!Typed, Search!TypeOK
  <2>1. PICK s \in SearchPages[k].Slots : x8[s] = Search(k)!Free
                       /\ x8' = [x8 EXCEPT ![s]
                            = [Search(k)!Free EXCEPT !.op = "create", !.state = "asked", !.form.member = m]]
    BY <1>6, Zenon DEF Search!createAccount
  <2>2. PICK q : q = [Search(k)!Free EXCEPT !.op = "create", !.state = "asked", !.form.member = m]
    OBVIOUS
  <2>3. q \in Search(k)!Requests /\ q.op = "create" /\ Search(k)!Free.op = "free"
    BY <2>2, SearchNewCreate, SearchNoRequest, Zenon
  <2>4. x8' = [x8 EXCEPT ![s] = q] /\ ~x7 /\ x7' = TRUE
        /\ UNCHANGED <<x1, x2, x3, x4, x5, x9, x6, x10>>
    BY <1>6, <2>1, <2>2, Zenon DEF Search!createAccount, Search!CanClick, Search!dialogVars
  <2>5. \A key \in x6 : key # "free"
    BY <2>0, SearchApart
  <2>6. x6' \subseteq SearchPages[k].Kinds /\ \A key \in x6' : q.op = key \/ (key \in x6 /\ x8[s].op # key)
    BY <2>0, <2>1, <2>3, <2>4, <2>5
  <2>7. x7' <=> (q.op = "create" \/ (x7 /\ x8[s].op # "create"))
    BY <2>3, <2>4
  <2>. QED
    BY <2>0, <2>3, <2>4, <2>6, <2>7, SearchSlotKeeps, Zenon
<1>7. ASSUME NEW v \in SearchPages[k].Statuses, Search(k)!EditDialog(v) PROVE Search(k)!Typed'
  BY <1>7 DEF Search!EditDialog, Search!Typed, Search!TypeOK, Search!Entry
<1>8. CASE Search(k)!resetStatus
  BY <1>8, Zenon DEF Search!resetStatus, Search!Reset, Search!Typed, Search!TypeOK, Search!Entry
<1>9. CASE Search(k)!resetKycStatus
  BY <1>9, ZenonT(30) DEF Search!resetKycStatus, Search!Reset, Search!Typed, Search!TypeOK, Search!Entry
<1>10. CASE Search(k)!updateStatus
  BY <1>10, SearchSaveKeeps DEF Search!updateStatus
<1>11. CASE Search(k)!updateKycStatus
  BY <1>11, SearchSaveKeeps DEF Search!updateKycStatus
<1>12. ASSUME NEW s \in SearchPages[k].Slots, Search(k)!ServeSearch(s) PROVE Search(k)!Typed'
  <2>0. /\ x1 \in Search(k)!Table /\ x2 \in Search(k)!Table
             /\ x4 \in [SearchPages[k].Kinds -> Search(k)!Entry] /\ x9 \in Search(k)!Entry
        /\ x5 \in [SearchPages[k].Kinds -> SearchPages[k].Statuses \cup {SearchPages[k].None}]
             /\ x3 \in SearchPages[k].Kinds \cup {"create", SearchPages[k].None}
        /\ x6 \subseteq SearchPages[k].Kinds /\ x10 \in BOOLEAN /\ x7 \in BOOLEAN
    BY DEF Search!Typed, Search!TypeOK
  <2>1. PICK q : q = [x8[s] EXCEPT !.state = "done", !.data = x1]
    OBVIOUS
  <2>2. x8[s] \in Search(k)!Requests /\ x8[s].op = "search"
    BY <1>12 DEF Search!ServeSearch, Search!Searches, Search!Typed
  <2>3. q \in Search(k)!Requests /\ q.op = "search"
    BY <2>0, <2>1, <2>2, Zenon DEF Search!Requests
  <2>4. x8' = [x8 EXCEPT ![s] = q] /\ UNCHANGED <<x1, x2, x3, x4, x5, x9, x6, x7, x10>>
    BY <1>12, <2>1, Zenon DEF Search!ServeSearch, Search!dialogVars
  <2>5. \A key \in x6 : key # "search"
    BY <2>0, SearchApart
  <2>. QED
    BY <2>0, <2>2, <2>3, <2>4, <2>5, SearchSlotKeeps, Zenon
<1>13. ASSUME NEW s \in SearchPages[k].Slots, Search(k)!Drawn(s) PROVE Search(k)!Typed'
  <2>0. /\ x1 \in Search(k)!Table /\ x2 \in Search(k)!Table
             /\ x4 \in [SearchPages[k].Kinds -> Search(k)!Entry] /\ x9 \in Search(k)!Entry
        /\ x5 \in [SearchPages[k].Kinds -> SearchPages[k].Statuses \cup {SearchPages[k].None}]
             /\ x3 \in SearchPages[k].Kinds \cup {"create", SearchPages[k].None}
        /\ x6 \subseteq SearchPages[k].Kinds /\ x10 \in BOOLEAN /\ x7 \in BOOLEAN
    BY DEF Search!Typed, Search!TypeOK
  <2>1. /\ x8[s].op = "search" /\ x8[s].data \in Search(k)!Table /\ x2' = x8[s].data
        /\ x8' = [x8 EXCEPT ![s] = Search(k)!Free]
        /\ UNCHANGED <<x1, x3, x4, x5, x9, x6, x7, x10>>
    BY <1>13 DEF Search!Drawn, Search!Searches, Search!dialogVars, Search!Typed,
        Search!Requests
  <2>2. (\A key \in x6 : key # "search") /\ Search(k)!Free \in Search(k)!Requests
          /\ Search(k)!Free.op = "free"
    BY <2>0, SearchApart, SearchNoRequest
  <2>. QED
    BY <2>0, <2>1, <2>2, SearchSlotKeeps, Zenon
<1>14. ASSUME NEW s \in SearchPages[k].Slots, Search(k)!SearchFails(s) PROVE Search(k)!Typed'
  <2>0. /\ x1 \in Search(k)!Table /\ x2 \in Search(k)!Table
             /\ x4 \in [SearchPages[k].Kinds -> Search(k)!Entry] /\ x9 \in Search(k)!Entry
        /\ x5 \in [SearchPages[k].Kinds -> SearchPages[k].Statuses \cup {SearchPages[k].None}]
             /\ x3 \in SearchPages[k].Kinds \cup {"create", SearchPages[k].None}
        /\ x6 \subseteq SearchPages[k].Kinds /\ x10 \in BOOLEAN /\ x7 \in BOOLEAN
    BY DEF Search!Typed, Search!TypeOK
  <2>1. /\ x8[s].op = "search" /\ x8' = [x8 EXCEPT ![s] = Search(k)!Free] /\ x10' = TRUE
        /\ UNCHANGED <<x1, x2, x3, x4, x5, x9, x6, x7>>
    BY <1>14 DEF Search!SearchFails, Search!Searches, Search!dialogVars
  <2>2. (\A key \in x6 : key # "search") /\ Search(k)!Free \in Search(k)!Requests
          /\ Search(k)!Free.op = "free"
    BY <2>0, SearchApart, SearchNoRequest
  <2>. QED
    BY <2>0, <2>1, <2>2, SearchSlotKeeps, Zenon
<1>15. ASSUME NEW s \in SearchPages[k].Slots, Search(k)!ServeUpdate(s) PROVE Search(k)!Typed'
  <2>0. /\ x1 \in Search(k)!Table /\ x2 \in Search(k)!Table
             /\ x4 \in [SearchPages[k].Kinds -> Search(k)!Entry] /\ x9 \in Search(k)!Entry
        /\ x5 \in [SearchPages[k].Kinds -> SearchPages[k].Statuses \cup {SearchPages[k].None}]
             /\ x3 \in SearchPages[k].Kinds \cup {"create", SearchPages[k].None}
        /\ x6 \subseteq SearchPages[k].Kinds /\ x10 \in BOOLEAN /\ x7 \in BOOLEAN
    BY DEF Search!Typed, Search!TypeOK
  <2>1. PICK q : q = [x8[s] EXCEPT !.state = "done"]
    BY Zenon
  <2>2. x8[s] \in Search(k)!Requests /\ x8[s].op \in SearchPages[k].Kinds
    BY <1>15 DEF Search!ServeUpdate, Search!Typed
  <2>3. q \in Search(k)!Requests /\ q.op = x8[s].op
    BY <2>1, <2>2 DEF Search!Requests
  <2>4. x8' = [x8 EXCEPT ![s] = q] /\ UNCHANGED <<x2, x3, x4, x5, x9, x6, x7, x10>>
    BY <1>15, <2>1 DEF Search!ServeUpdate, Search!dialogVars
  <2>5. x1' \in Search(k)!Table
    BY <1>15, <2>0, <2>2, Zenon DEF Search!ServeUpdate, Search!Table, Search!Requests, Search!Entry
  <2>6. q.op # "create"
    BY <2>2, <2>3, SearchApart
  <2>7. \A key \in x6 : \E t \in SearchPages[k].Slots : x8[t].op = key
    BY DEF Search!Typed, Search!TypeOK
  <2>. QED
    BY <2>0, <2>2, <2>3, <2>4, <2>5, <2>6, SearchSlotKeeps, Zenon
<1>16. ASSUME NEW s \in SearchPages[k].Slots, Search(k)!Updated(s) PROVE Search(k)!Typed'
  <2>0. /\ x1 \in Search(k)!Table /\ x2 \in Search(k)!Table
             /\ x4 \in [SearchPages[k].Kinds -> Search(k)!Entry] /\ x9 \in Search(k)!Entry
        /\ x5 \in [SearchPages[k].Kinds -> SearchPages[k].Statuses \cup {SearchPages[k].None}]
             /\ x3 \in SearchPages[k].Kinds \cup {"create", SearchPages[k].None}
        /\ x6 \subseteq SearchPages[k].Kinds /\ x10 \in BOOLEAN /\ x7 \in BOOLEAN
    BY DEF Search!Typed, Search!TypeOK
  <2>1. /\ x8[s].op \in SearchPages[k].Kinds /\ Search(k)!Hide(x8[s].op) /\ x6' = x6 \ {x8[s].op}
             /\ Search(k)!Search(s)
        /\ UNCHANGED <<x1, x2, x7>>
    BY <1>16 DEF Search!Updated
  <2>2. PICK q : q = [Search(k)!Free EXCEPT !.op = "search", !.state = "asked"]
    OBVIOUS
  <2>3. q \in Search(k)!Requests /\ q.op = "search"
    BY <2>2, SearchNewSearch, SearchNoRequest, Zenon
  <2>4. x8' = [x8 EXCEPT ![s] = q] /\ x10' \in BOOLEAN
    BY <2>0, <2>1, <2>2 DEF Search!Search
  <2>5. x8[s].op # "create"
    BY <2>1, SearchApart
  <2>. QED
    BY <2>0, <2>1, <2>3, <2>4, <2>5, SearchHideKeeps, SearchSlotKeeps, Zenon
<1>17. ASSUME NEW s \in SearchPages[k].Slots, Search(k)!UpdateFails(s) PROVE Search(k)!Typed'
  <2>0. /\ x1 \in Search(k)!Table /\ x2 \in Search(k)!Table
             /\ x4 \in [SearchPages[k].Kinds -> Search(k)!Entry] /\ x9 \in Search(k)!Entry
        /\ x5 \in [SearchPages[k].Kinds -> SearchPages[k].Statuses \cup {SearchPages[k].None}]
             /\ x3 \in SearchPages[k].Kinds \cup {"create", SearchPages[k].None}
        /\ x6 \subseteq SearchPages[k].Kinds /\ x10 \in BOOLEAN /\ x7 \in BOOLEAN
    BY DEF Search!Typed, Search!TypeOK
  <2>1. /\ x8[s].op \in SearchPages[k].Kinds /\ x6' = x6 \ {x8[s].op}
             /\ x8' = [x8 EXCEPT ![s] = Search(k)!Free]
        /\ UNCHANGED <<x1, x2, x3, x4, x5, x9, x7, x10>>
    BY <1>17 DEF Search!UpdateFails, Search!dialogVars
  <2>2. x8[s].op # "create" /\ Search(k)!Free \in Search(k)!Requests /\ Search(k)!Free.op = "free"
    BY <2>1, SearchApart, SearchNoRequest
  <2>. QED
    BY <2>0, <2>1, <2>2, SearchSlotKeeps, Zenon
<1>18. ASSUME NEW s \in SearchPages[k].Slots, Search(k)!ServeCreate(s) PROVE Search(k)!Typed'
  <2>0. /\ x1 \in Search(k)!Table /\ x2 \in Search(k)!Table
             /\ x4 \in [SearchPages[k].Kinds -> Search(k)!Entry] /\ x9 \in Search(k)!Entry
        /\ x5 \in [SearchPages[k].Kinds -> SearchPages[k].Statuses \cup {SearchPages[k].None}]
             /\ x3 \in SearchPages[k].Kinds \cup {"create", SearchPages[k].None}
        /\ x6 \subseteq SearchPages[k].Kinds /\ x10 \in BOOLEAN /\ x7 \in BOOLEAN
    BY DEF Search!Typed, Search!TypeOK
  <2>1. PICK q : q = [x8[s] EXCEPT !.state = "done"]
    BY Zenon
  <2>2. x8[s] \in Search(k)!Requests /\ x8[s].op = "create"
    BY <1>18 DEF Search!ServeCreate, Search!Typed
  <2>3. q \in Search(k)!Requests /\ q.op = "create"
    BY <2>1, <2>2 DEF Search!Requests
  <2>4. x8' = [x8 EXCEPT ![s] = q] /\ UNCHANGED <<x2, x3, x4, x5, x9, x6, x7, x10>>
    BY <1>18, <2>1 DEF Search!ServeCreate, Search!dialogVars
  <2>5. x1' \in Search(k)!Table
    BY <1>18, <2>0, SearchApart, Zenon DEF Search!ServeCreate, Search!Table
  <2>6. x7 /\ \A key \in x6 : key # "create"
    BY <2>0, <2>2, SearchApart DEF Search!Typed, Search!TypeOK
  <2>. QED
    BY <2>0, <2>2, <2>3, <2>4, <2>5, <2>6, SearchSlotKeeps, Zenon
<1>19. ASSUME NEW s \in SearchPages[k].Slots, Search(k)!creatMemberAccount(s) PROVE Search(k)!Typed'
  <2>0. /\ x1 \in Search(k)!Table /\ x2 \in Search(k)!Table
             /\ x4 \in [SearchPages[k].Kinds -> Search(k)!Entry] /\ x9 \in Search(k)!Entry
        /\ x5 \in [SearchPages[k].Kinds -> SearchPages[k].Statuses \cup {SearchPages[k].None}]
             /\ x3 \in SearchPages[k].Kinds \cup {"create", SearchPages[k].None}
        /\ x6 \subseteq SearchPages[k].Kinds /\ x10 \in BOOLEAN /\ x7 \in BOOLEAN
    BY DEF Search!Typed, Search!TypeOK
  <2>1. /\ x8[s].op = "create" /\ Search(k)!Hide("create") /\ Search(k)!Search(s) /\ x7' = FALSE
        /\ UNCHANGED <<x1, x2, x6>>
    BY <1>19 DEF Search!creatMemberAccount
  <2>2. PICK q : q = [Search(k)!Free EXCEPT !.op = "search", !.state = "asked"]
    OBVIOUS
  <2>3. q \in Search(k)!Requests /\ q.op = "search"
    BY <2>2, SearchNewSearch, SearchNoRequest, Zenon
  <2>4. x8' = [x8 EXCEPT ![s] = q] /\ x10' \in BOOLEAN
    BY <2>0, <2>1, <2>2 DEF Search!Search
  <2>5. \A key \in x6 : key # "create"
    BY <2>0, SearchApart
  <2>. QED
    BY <2>0, <2>1, <2>3, <2>4, <2>5, SearchHideKeeps, SearchSlotKeeps, Zenon
<1>20. ASSUME NEW s \in SearchPages[k].Slots, Search(k)!CreateFails(s) PROVE Search(k)!Typed'
  <2>0. /\ x1 \in Search(k)!Table /\ x2 \in Search(k)!Table
             /\ x4 \in [SearchPages[k].Kinds -> Search(k)!Entry] /\ x9 \in Search(k)!Entry
        /\ x5 \in [SearchPages[k].Kinds -> SearchPages[k].Statuses \cup {SearchPages[k].None}]
             /\ x3 \in SearchPages[k].Kinds \cup {"create", SearchPages[k].None}
        /\ x6 \subseteq SearchPages[k].Kinds /\ x10 \in BOOLEAN /\ x7 \in BOOLEAN
    BY DEF Search!Typed, Search!TypeOK
  <2>1. /\ x8[s].op = "create" /\ x7' = FALSE /\ x8' = [x8 EXCEPT ![s] = Search(k)!Free]
        /\ UNCHANGED <<x1, x2, x3, x4, x5, x9, x6, x10>>
    BY <1>20 DEF Search!CreateFails, Search!dialogVars
  <2>2. (\A key \in x6 : key # "create") /\ Search(k)!Free \in Search(k)!Requests
          /\ Search(k)!Free.op = "free"
    BY <2>0, SearchApart, SearchNoRequest
  <2>. QED
    BY <2>0, <2>1, <2>2, SearchSlotKeeps, Zenon
<1>21. CASE UNCHANGED Search(k)!vars
  BY <1>21 DEF Search!vars, Search!dialogVars, Search!Typed, Search!TypeOK, Search!Table,
      Search!Entry, Search!Requests
<1>. QED
  BY <1>1, <1>2, <1>3, <1>4, <1>5, <1>6, <1>7, <1>8, <1>9, <1>10, <1>11, <1>12, <1>13, <1>14,
     <1>15, <1>16, <1>17, <1>18, <1>19, <1>20, <1>21 DEF Search!Next

LEMMA SearchStepRow ==
  ASSUME NEW k \in DOMAIN SearchPages, Search(k)!MemberSearchAssumption, Search(k)!Typed,
         Search(k)!DialogIsOfRowClicked, Search(k)!Next \/ UNCHANGED Search(k)!vars
  PROVE  Search(k)!DialogIsOfRowClicked'
<1>1. CASE Search(k)!SearchClick
  BY <1>1 DEF Search!SearchClick, Search!CanClick, Search!Searches, Search!Free,
      Search!Blank, Search!NoTable, Search!Search, Search!dialogVars,
      Search!DialogIsOfRowClicked, Search!Typed, Search!TypeOK, Search!Table,
      Search!Entry, Search!Requests
<1>2. CASE Search(k)!Close
  <2>1. Search(k)!Hide(x3)
    BY <1>2 DEF Search!Close
  <2>. QED
    BY <2>1, SearchHideKeeps DEF Search!DialogIsOfRowClicked
<1>3. CASE Search(k)!create
  BY <1>3, SearchApart DEF Search!create, Search!DialogIsOfRowClicked
<1>4. ASSUME NEW m \in SearchPages[k].Members,
             Search(k)!openUpdateStatusModal(m) PROVE Search(k)!DialogIsOfRowClicked'
  BY <1>4 DEF Search!openUpdateStatusModal, Search!OpenDialog, Search!CanClick,
      Search!Searches, Search!DialogIsOfRowClicked, Search!Typed, Search!TypeOK,
      Search!Table, Search!Entry, Search!Requests
<1>5. ASSUME NEW m \in SearchPages[k].Members,
             Search(k)!openUpdateKycStatusModal(m) PROVE Search(k)!DialogIsOfRowClicked'
  BY <1>5 DEF Search!openUpdateKycStatusModal, Search!OpenDialog, Search!CanClick,
      Search!Searches, Search!DialogIsOfRowClicked, Search!Typed, Search!TypeOK,
      Search!Table, Search!Entry, Search!Requests
<1>6. ASSUME NEW m \in SearchPages[k].Members,
             Search(k)!createAccount(m) PROVE Search(k)!DialogIsOfRowClicked'
  BY <1>6 DEF Search!createAccount, Search!CanClick, Search!Searches, Search!Free,
      Search!Blank, Search!NoTable, Search!dialogVars, Search!DialogIsOfRowClicked,
      Search!Typed, Search!TypeOK, Search!Table, Search!Entry, Search!Requests
<1>7. ASSUME NEW v \in SearchPages[k].Statuses, Search(k)!EditDialog(v) PROVE Search(k)!DialogIsOfRowClicked'
  BY <1>7 DEF Search!EditDialog, Search!CanClick, Search!Searches,
      Search!DialogIsOfRowClicked, Search!Typed, Search!TypeOK, Search!Table,
      Search!Entry, Search!Requests
<1>8. CASE Search(k)!resetStatus
  BY <1>8 DEF Search!resetStatus, Search!Reset, Search!CanClick, Search!Searches,
      Search!DialogIsOfRowClicked, Search!Typed, Search!TypeOK, Search!Table,
      Search!Entry, Search!Requests
<1>9. CASE Search(k)!resetKycStatus
  BY <1>9 DEF Search!resetKycStatus, Search!Reset, Search!CanClick, Search!Searches,
      Search!DialogIsOfRowClicked, Search!Typed, Search!TypeOK, Search!Table,
      Search!Entry, Search!Requests
<1>10. CASE Search(k)!updateStatus
  BY <1>10 DEF Search!updateStatus, Search!Save, Search!CanClick, Search!Searches,
      Search!Free, Search!Blank, Search!NoTable, Search!dialogVars,
      Search!DialogIsOfRowClicked, Search!Typed, Search!TypeOK, Search!Table,
      Search!Entry, Search!Requests
<1>11. CASE Search(k)!updateKycStatus
  BY <1>11 DEF Search!updateKycStatus, Search!Save, Search!CanClick, Search!Searches,
      Search!Free, Search!Blank, Search!NoTable, Search!dialogVars,
      Search!DialogIsOfRowClicked, Search!Typed, Search!TypeOK, Search!Table,
      Search!Entry, Search!Requests
<1>12. ASSUME NEW s \in SearchPages[k].Slots, Search(k)!ServeSearch(s) PROVE Search(k)!DialogIsOfRowClicked'
  BY <1>12 DEF Search!ServeSearch, Search!Searches, Search!dialogVars,
      Search!DialogIsOfRowClicked, Search!Typed, Search!TypeOK, Search!Table,
      Search!Entry, Search!Requests
<1>13. ASSUME NEW s \in SearchPages[k].Slots, Search(k)!Drawn(s) PROVE Search(k)!DialogIsOfRowClicked'
  BY <1>13 DEF Search!Drawn, Search!Searches, Search!Free, Search!Blank, Search!NoTable,
      Search!dialogVars, Search!DialogIsOfRowClicked, Search!Typed, Search!TypeOK,
      Search!Table, Search!Entry, Search!Requests
<1>14. ASSUME NEW s \in SearchPages[k].Slots, Search(k)!SearchFails(s) PROVE Search(k)!DialogIsOfRowClicked'
  BY <1>14 DEF Search!SearchFails, Search!Searches, Search!Free, Search!Blank,
      Search!NoTable, Search!dialogVars, Search!DialogIsOfRowClicked, Search!Typed,
      Search!TypeOK, Search!Table, Search!Entry, Search!Requests
<1>15. ASSUME NEW s \in SearchPages[k].Slots, Search(k)!ServeUpdate(s) PROVE Search(k)!DialogIsOfRowClicked'
  BY <1>15 DEF Search!ServeUpdate, Search!dialogVars, Search!DialogIsOfRowClicked,
      Search!Typed, Search!TypeOK, Search!Table, Search!Entry, Search!Requests
<1>16. ASSUME NEW s \in SearchPages[k].Slots, Search(k)!Updated(s) PROVE Search(k)!DialogIsOfRowClicked'
  <2>1. Search(k)!Hide(x8[s].op)
    BY <1>16 DEF Search!Updated
  <2>. QED
    BY <2>1, SearchHideKeeps DEF Search!DialogIsOfRowClicked
<1>17. ASSUME NEW s \in SearchPages[k].Slots, Search(k)!UpdateFails(s) PROVE Search(k)!DialogIsOfRowClicked'
  BY <1>17 DEF Search!UpdateFails, Search!Free, Search!Blank, Search!NoTable,
      Search!dialogVars, Search!DialogIsOfRowClicked, Search!Typed, Search!TypeOK,
      Search!Table, Search!Entry, Search!Requests
<1>18. ASSUME NEW s \in SearchPages[k].Slots, Search(k)!ServeCreate(s) PROVE Search(k)!DialogIsOfRowClicked'
  BY <1>18 DEF Search!ServeCreate, Search!dialogVars, Search!DialogIsOfRowClicked,
      Search!Typed, Search!TypeOK, Search!Table, Search!Entry, Search!Requests
<1>19. ASSUME NEW s \in SearchPages[k].Slots,
              Search(k)!creatMemberAccount(s) PROVE Search(k)!DialogIsOfRowClicked'
  <2>1. Search(k)!Hide("create")
    BY <1>19 DEF Search!creatMemberAccount
  <2>. QED
    BY <2>1, SearchHideKeeps DEF Search!DialogIsOfRowClicked
<1>20. ASSUME NEW s \in SearchPages[k].Slots, Search(k)!CreateFails(s) PROVE Search(k)!DialogIsOfRowClicked'
  BY <1>20 DEF Search!CreateFails, Search!Free, Search!Blank, Search!NoTable,
      Search!dialogVars, Search!DialogIsOfRowClicked, Search!Typed, Search!TypeOK,
      Search!Table, Search!Entry, Search!Requests
<1>21. CASE UNCHANGED Search(k)!vars
  BY <1>21 DEF Search!vars, Search!dialogVars, Search!DialogIsOfRowClicked, Search!Typed,
      Search!TypeOK, Search!Table, Search!Entry, Search!Requests
<1>. QED
  BY <1>1, <1>2, <1>3, <1>4, <1>5, <1>6, <1>7, <1>8, <1>9, <1>10, <1>11, <1>12, <1>13, <1>14,
     <1>15, <1>16, <1>17, <1>18, <1>19, <1>20, <1>21 DEF Search!Next

(* A new search is the only one, or it overtakes. *)
LEMMA SearchSearchIsNew ==
  ASSUME NEW k \in DOMAIN SearchPages, Search(k)!MemberSearchAssumption, Search(k)!Typed, Search(k)!FreshInv,
         NEW s \in SearchPages[k].Slots, Search(k)!Search(s), UNCHANGED <<x1, x2>>
  PROVE  Search(k)!FreshInv'
<1>1. PICK q : q = [Search(k)!Free EXCEPT !.op = "search", !.state = "asked"]
  OBVIOUS
<1>2. q.op = "search" /\ q.state = "asked"
  BY <1>1, SearchNewSearch, Zenon
<1>3. x8' = [x8 EXCEPT ![s] = q] /\ x10' = (x10 \/ Search(k)!Searches # {})
  BY <1>1 DEF Search!Search
<1>4. /\ x8'[s] = q /\ \A t \in SearchPages[k].Slots : t # s => x8'[t] = x8[t]
  BY <1>3 DEF Search!Typed
<1>5. CASE x10 \/ Search(k)!Searches # {}
  BY <1>3, <1>5, Zenon DEF Search!FreshInv
<1>6. CASE Search(k)!Searches = {}
  <2>1. Search(k)!Searches' = {s}
    BY <1>2, <1>4, <1>6 DEF Search!Searches
  <2>2. x8'[s].state # "done"
    BY <1>2, <1>4
  <2>. QED
    BY <2>1, <2>2 DEF Search!FreshInv
<1>. QED
  BY <1>5, <1>6

LEMMA SearchStepFresh ==
  ASSUME NEW k \in DOMAIN SearchPages, Search(k)!MemberSearchAssumption, Search(k)!Typed, Search(k)!FreshInv,
         Search(k)!Next \/ UNCHANGED Search(k)!vars
  PROVE  Search(k)!FreshInv'
<1>1. CASE Search(k)!SearchClick
  BY <1>1 DEF Search!SearchClick, Search!CanClick, Search!Searches, Search!Free,
      Search!Blank, Search!NoTable, Search!Search, Search!dialogVars, Search!FreshInv,
      Search!SearchIsDue, Search!Typed, Search!TypeOK, Search!Table, Search!Entry,
      Search!Requests
<1>2. CASE Search(k)!Close
  BY <1>2 DEF Search!Close, Search!CanClick, Search!Searches, Search!Hide,
      Search!FreshInv, Search!SearchIsDue, Search!NoTable, Search!Typed, Search!TypeOK,
      Search!Table, Search!Entry, Search!Requests
<1>3. CASE Search(k)!create
  BY <1>3 DEF Search!create, Search!CanClick, Search!Searches, Search!FreshInv,
      Search!SearchIsDue, Search!NoTable, Search!Typed, Search!TypeOK, Search!Table,
      Search!Entry, Search!Requests
<1>4. ASSUME NEW m \in SearchPages[k].Members, Search(k)!openUpdateStatusModal(m) PROVE Search(k)!FreshInv'
  BY <1>4 DEF Search!openUpdateStatusModal, Search!OpenDialog, Search!CanClick,
      Search!Searches, Search!FreshInv, Search!SearchIsDue, Search!NoTable, Search!Typed,
      Search!TypeOK, Search!Table, Search!Entry, Search!Requests
<1>5. ASSUME NEW m \in SearchPages[k].Members, Search(k)!openUpdateKycStatusModal(m) PROVE Search(k)!FreshInv'
  BY <1>5 DEF Search!openUpdateKycStatusModal, Search!OpenDialog, Search!CanClick,
      Search!Searches, Search!FreshInv, Search!SearchIsDue, Search!NoTable, Search!Typed,
      Search!TypeOK, Search!Table, Search!Entry, Search!Requests
<1>6. ASSUME NEW m \in SearchPages[k].Members, Search(k)!createAccount(m) PROVE Search(k)!FreshInv'
  BY <1>6 DEF Search!createAccount, Search!CanClick, Search!Searches, Search!Free,
      Search!Blank, Search!NoTable, Search!dialogVars, Search!FreshInv,
      Search!SearchIsDue, Search!Typed, Search!TypeOK, Search!Table, Search!Entry,
      Search!Requests
<1>7. ASSUME NEW v \in SearchPages[k].Statuses, Search(k)!EditDialog(v) PROVE Search(k)!FreshInv'
  BY <1>7 DEF Search!EditDialog, Search!CanClick, Search!Searches, Search!FreshInv,
      Search!SearchIsDue, Search!NoTable, Search!Typed, Search!TypeOK, Search!Table,
      Search!Entry, Search!Requests
<1>8. CASE Search(k)!resetStatus
  BY <1>8 DEF Search!resetStatus, Search!Reset, Search!CanClick, Search!Searches,
      Search!FreshInv, Search!SearchIsDue, Search!NoTable, Search!Typed, Search!TypeOK,
      Search!Table, Search!Entry, Search!Requests
<1>9. CASE Search(k)!resetKycStatus
  BY <1>9 DEF Search!resetKycStatus, Search!Reset, Search!CanClick, Search!Searches,
      Search!FreshInv, Search!SearchIsDue, Search!NoTable, Search!Typed, Search!TypeOK,
      Search!Table, Search!Entry, Search!Requests
<1>10. CASE Search(k)!updateStatus
  BY <1>10 DEF Search!updateStatus, Search!Save, Search!CanClick, Search!Searches,
      Search!Free, Search!Blank, Search!NoTable, Search!dialogVars, Search!FreshInv,
      Search!SearchIsDue, Search!Typed, Search!TypeOK, Search!Table, Search!Entry,
      Search!Requests
<1>11. CASE Search(k)!updateKycStatus
  BY <1>11 DEF Search!updateKycStatus, Search!Save, Search!CanClick, Search!Searches,
      Search!Free, Search!Blank, Search!NoTable, Search!dialogVars, Search!FreshInv,
      Search!SearchIsDue, Search!Typed, Search!TypeOK, Search!Table, Search!Entry,
      Search!Requests
<1>12. ASSUME NEW s \in SearchPages[k].Slots, Search(k)!ServeSearch(s) PROVE Search(k)!FreshInv'
  BY <1>12 DEF Search!ServeSearch, Search!Searches, Search!dialogVars, Search!FreshInv,
      Search!SearchIsDue, Search!NoTable, Search!Typed, Search!TypeOK, Search!Table,
      Search!Entry, Search!Requests
<1>13. ASSUME NEW s \in SearchPages[k].Slots, Search(k)!Drawn(s) PROVE Search(k)!FreshInv'
  <2>0. x8 \in [SearchPages[k].Slots -> Search(k)!Requests]
    BY DEF Search!Typed
  <2>1. /\ s \in Search(k)!Searches /\ x8[s].state = "done" /\ x2' = x8[s].data
        /\ x8' = [x8 EXCEPT ![s] = Search(k)!Free] /\ UNCHANGED <<x1, x10>>
    BY <1>13 DEF Search!Drawn
  <2>2. /\ x8'[s].op = "free" /\ \A t \in SearchPages[k].Slots : t # s => x8'[t] = x8[t]
    BY <2>0, <2>1, SearchNoRequest DEF Search!Searches
  <2>. SUFFICES ASSUME ~x10
                PROVE  Search(k)!FreshInv'
    BY <2>1 DEF Search!FreshInv
  <2>3. \A t \in Search(k)!Searches : t = s
    BY <2>1 DEF Search!FreshInv
  <2>4. Search(k)!Searches' = {}
    BY <2>2, <2>3 DEF Search!Searches
  <2>5. Search(k)!SearchIsDue => Search(k)!SearchIsDue'
    BY <2>1, <2>2, SearchApart DEF Search!SearchIsDue, Search!Searches
  <2>6. Search(k)!SearchIsDue \/ x8[s].data = x1
    BY <2>1 DEF Search!FreshInv
  <2>. QED
    BY <2>1, <2>4, <2>5, <2>6 DEF Search!FreshInv
<1>14. ASSUME NEW s \in SearchPages[k].Slots, Search(k)!SearchFails(s) PROVE Search(k)!FreshInv'
  BY <1>14 DEF Search!SearchFails, Search!Searches, Search!Free, Search!Blank,
      Search!NoTable, Search!dialogVars, Search!FreshInv, Search!SearchIsDue,
      Search!Typed, Search!TypeOK, Search!Table, Search!Entry, Search!Requests
<1>15. ASSUME NEW s \in SearchPages[k].Slots, Search(k)!ServeUpdate(s) PROVE Search(k)!FreshInv'
  BY <1>15 DEF Search!ServeUpdate, Search!dialogVars, Search!FreshInv, Search!Searches,
      Search!SearchIsDue, Search!NoTable, Search!Typed, Search!TypeOK, Search!Table,
      Search!Entry, Search!Requests
<1>16. ASSUME NEW s \in SearchPages[k].Slots, Search(k)!Updated(s) PROVE Search(k)!FreshInv'
  <2>0. x8 \in [SearchPages[k].Slots -> Search(k)!Requests]
    BY DEF Search!Typed
  <2>1. x8[s].op \in SearchPages[k].Kinds /\ Search(k)!Search(s) /\ UNCHANGED <<x1, x2>>
    BY <1>16 DEF Search!Updated
  <2>. QED
    BY <2>0, <2>1, SearchSearchIsNew
<1>17. ASSUME NEW s \in SearchPages[k].Slots, Search(k)!UpdateFails(s) PROVE Search(k)!FreshInv'
  <2>0. x8 \in [SearchPages[k].Slots -> Search(k)!Requests]
    BY DEF Search!Typed
  <2>1. /\ x8[s].op \in SearchPages[k].Kinds /\ x8[s].state = "asked"
             /\ x8' = [x8 EXCEPT ![s] = Search(k)!Free]
        /\ UNCHANGED <<x1, x2, x10>>
    BY <1>17 DEF Search!UpdateFails
  <2>2. /\ x8'[s].op = "free" /\ \A t \in SearchPages[k].Slots : t # s => x8'[t] = x8[t]
    BY <2>0, <2>1, SearchNoRequest
  <2>3. Search(k)!Searches' = Search(k)!Searches /\ (Search(k)!SearchIsDue => Search(k)!SearchIsDue')
    BY <2>1, <2>2, SearchApart DEF Search!Searches, Search!SearchIsDue
  <2>4. \A t \in Search(k)!Searches : x8'[t] = x8[t]
    BY <2>1, <2>2, SearchApart DEF Search!Searches
  <2>. QED
    BY <2>1, <2>3, <2>4 DEF Search!FreshInv
<1>18. ASSUME NEW s \in SearchPages[k].Slots, Search(k)!ServeCreate(s) PROVE Search(k)!FreshInv'
  BY <1>18, SMTT(30) DEF Search!ServeCreate, Search!dialogVars, Search!FreshInv, Search!Searches,
     Search!SearchIsDue, Search!NoTable, Search!Typed, Search!TypeOK, Search!Table, Search!Entry,
     Search!Requests
<1>19. ASSUME NEW s \in SearchPages[k].Slots, Search(k)!creatMemberAccount(s) PROVE Search(k)!FreshInv'
  BY <1>19 DEF Search!creatMemberAccount, Search!Hide, Search!Search, Search!Free,
      Search!Blank, Search!NoTable, Search!Searches, Search!FreshInv, Search!SearchIsDue,
      Search!Typed, Search!TypeOK, Search!Table, Search!Entry, Search!Requests
<1>20. ASSUME NEW s \in SearchPages[k].Slots, Search(k)!CreateFails(s) PROVE Search(k)!FreshInv'
  BY <1>20 DEF Search!CreateFails, Search!Free, Search!Blank, Search!NoTable,
      Search!dialogVars, Search!FreshInv, Search!Searches, Search!SearchIsDue,
      Search!Typed, Search!TypeOK, Search!Table, Search!Entry, Search!Requests
<1>21. CASE UNCHANGED Search(k)!vars
  BY <1>21 DEF Search!vars, Search!dialogVars, Search!FreshInv, Search!Searches,
      Search!SearchIsDue, Search!NoTable, Search!Typed, Search!TypeOK, Search!Table,
      Search!Entry, Search!Requests
<1>. QED
  BY <1>1, <1>2, <1>3, <1>4, <1>5, <1>6, <1>7, <1>8, <1>9, <1>10, <1>11, <1>12, <1>13, <1>14,
     <1>15, <1>16, <1>17, <1>18, <1>19, <1>20, <1>21 DEF Search!Next

LEMMA SearchInitIInv ==
  ASSUME NEW k \in DOMAIN SearchPages, Search(k)!MemberSearchAssumption, Search(k)!Init
  PROVE  Search(k)!IInv
<1>1. /\ x1 = [key
           \in SearchPages[k].Kinds |-> [m \in SearchPages[k].Members |-> IF m \in SearchPages[k].AtFirst
             THEN SearchPages[k].New ELSE SearchPages[k].None]]
      /\ x2 = Search(k)!NoTable /\ x3 = SearchPages[k].None
      /\ x4 = [key \in SearchPages[k].Kinds |-> Search(k)!Blank]
           /\ x5 = [key \in SearchPages[k].Kinds |-> SearchPages[k].None]
      /\ x6 = {} /\ x7 = FALSE /\ x10 = FALSE
      /\ x8 = [s \in SearchPages[k].Slots |-> Search(k)!Free] /\ x9 = Search(k)!Blank
  BY DEF Search!Init
<1>2. \A s \in SearchPages[k].Slots : x8[s].op = "free"
  BY <1>1, SearchNoRequest
<1>3. x8 \in [SearchPages[k].Slots -> Search(k)!Requests]
  BY <1>1, SearchNoRequest
<1>4. x1 \in Search(k)!Table
  BY <1>1, SearchApart DEF Search!Table
<1>5. Search(k)!TypeOK
  BY <1>1, <1>2, <1>4, SearchParts, Zenon DEF Search!TypeOK
<1>6. Search(k)!Typed
  BY <1>1, <1>2, <1>3, <1>5, SearchParts DEF Search!Typed
<1>7. Search(k)!DialogIsOfRowClicked
  BY <1>1, SearchApart DEF Search!DialogIsOfRowClicked
<1>8. Search(k)!FreshInv
  BY <1>1, <1>2 DEF Search!FreshInv, Search!Searches
<1>. QED
  BY <1>6, <1>7, <1>8 DEF Search!IInv

LEMMA SearchNextIInv ==
  ASSUME NEW k \in DOMAIN SearchPages, Search(k)!MemberSearchAssumption, Search(k)!IInv,
         Search(k)!Next \/ UNCHANGED Search(k)!vars
  PROVE  Search(k)!IInv'
BY SearchStepTyped, SearchStepRow, SearchStepFresh DEF Search!IInv

LEMMA SearchIInvImplies ==
  ASSUME NEW k \in DOMAIN SearchPages, Search(k)!MemberSearchAssumption, Search(k)!IInv
  PROVE  Search(k)!TypeOK /\ Search(k)!DialogIsOfRowClicked /\ Search(k)!QuietListIsFresh
<1>1. Search(k)!Quiet => Search(k)!Searches = {} /\ ~Search(k)!SearchIsDue
  BY SearchNoRequest, SearchApart DEF Search!Quiet, Search!Searches, Search!SearchIsDue
<1>. QED
  BY <1>1 DEF Search!IInv, Search!Typed, Search!FreshInv, Search!QuietListIsFresh

(* The invariant of the pages of this script. *)
SearchInv == \A k \in On("search", SearchPages) : Search(k)!IInv

LEMMA SearchBegins ==
  ASSUME MemberInit
  PROVE  SearchInv
<1>. SUFFICES ASSUME NEW k \in On("search", SearchPages)
         PROVE  Search(k)!IInv
  BY DEF SearchInv
<1>1. k \in DOMAIN SearchPages /\ script = "search" /\ page = k
  BY DEF On
<1>2. Search(k)!Init
  BY <1>1 DEF MemberInit
<1>3. Search(k)!MemberSearchAssumption
  BY <1>1, MemberPagesAreSound DEF MemberPagesAssumption
<1>. QED
  BY <1>1, <1>2, SearchInitIInv, <1>3

LEMMA SearchGoesOn ==
  ASSUME SearchInv, MemberStep
  PROVE  SearchInv'
<1>1. script' = script /\ page' = page
  BY MemberStays
<1>2. ASSUME NEW k \in On("search", SearchPages)
      PROVE  Search(k)!IInv'
  <2>1. k \in DOMAIN SearchPages /\ script = "search" /\ page = k
    BY DEF On
  <2>2. Search(k)!Next \/ UNCHANGED Search(k)!vars
    BY <2>1 DEF MemberStep, MemberNext, On, vars, Search!vars,
      Search!dialogVars
  <2>3. Search(k)!MemberSearchAssumption
    BY <2>1, MemberPagesAreSound DEF MemberPagesAssumption
  <2>4. Search(k)!IInv
    BY DEF SearchInv
  <2>. QED
    BY <2>1, <2>2, SearchNextIInv, <2>3, <2>4
<1>3. On("search", SearchPages)' = On("search", SearchPages)
  BY <1>1 DEF On
<1>. QED
  BY <1>2, <1>3 DEF SearchInv

LEMMA SearchShows ==
  ASSUME SearchInv
  PROVE  /\ \A k \in On("search", SearchPages) : Search(k)!TypeOK
         /\ \A k \in On("search", SearchPages) : Search(k)!DialogIsOfRowClicked
         /\ \A k \in On("search", SearchPages) : Search(k)!QuietListIsFresh
<1>. SUFFICES ASSUME NEW k \in On("search", SearchPages)
         PROVE  Search(k)!TypeOK /\ Search(k)!DialogIsOfRowClicked /\ Search(k)!QuietListIsFresh
  OBVIOUS
<1>1. k \in DOMAIN SearchPages /\ Search(k)!IInv
  BY DEF On, SearchInv
<1>2. Search(k)!MemberSearchAssumption
  BY <1>1, MemberPagesAreSound DEF MemberPagesAssumption
<1>. QED
  BY <1>1, SearchIInvImplies, <1>2

-----------------------------------------------------------------------------
(***************************************************************************)
(* PlayLimitSetting (Limits): x1 is row, x2 is cacheData, x3 is input, x4  *)
(* is label, x5 is message, x6 is flight, x7 is edited, x8 is elsewhere, x9*)
(* is disturbed.                                                           *)
(***************************************************************************)
LEMMA LimitsValuesAre ==
  ASSUME NEW k \in DOMAIN LimitPages, Limits(k)!PlayLimitSettingAssumption, NEW f \in Limits(k)!Forms
  PROVE  Limits(k)!Values(f) \subseteq Int /\ Limits(k)!NoLimit \in Limits(k)!Values(f)
           /\ {Limits(k)!Clamp(v) : v \in LimitPages[k].Typed} \subseteq Nat
<1>1. LimitPages[k].Typed \subseteq Int /\ LimitPages[k].MaxAmount \in Nat
        /\ LimitPages[k].Choices \subseteq Int /\ Limits(k)!NoLimit \in LimitPages[k].Choices
  BY DEF Limits!PlayLimitSettingAssumption
<1>2. \A v \in LimitPages[k].Typed : Limits(k)!Clamp(v) \in Nat
  BY <1>1 DEF Limits!Clamp
<1>3. \A n \in Nat : Limits(k)!Whole(n) \in Int
  BY DEF Limits!Whole
<1>4. Limits(k)!Posted \subseteq Int /\ Limits(k)!NoLimit \in Limits(k)!Posted
  BY <1>2, <1>3 DEF Limits!Posted, Limits!NoLimit
<1>5. Limits(k)!NoLimit \in LimitPages[k].Choices \ {Limits(k)!Indefinite}
  BY <1>1 DEF Limits!NoLimit, Limits!Indefinite
<1>. QED
  BY <1>1, <1>2, <1>4, <1>5 DEF Limits!Values

LEMMA LimitsRowIs ==
  ASSUME NEW k \in DOMAIN LimitPages, Limits(k)!PlayLimitSettingAssumption, NEW f \in Limits(k)!Forms
  PROVE  /\ \A r \in Limits(k)!Rows(f) :
                /\ r \in Limits(k)!Settings /\ r.cur \in Limits(k)!Values(f) /\ r.new \in Limits(k)!Values(f)
                /\ r.cur \in Int /\ r.new \in Int /\ r.pending \in BOOLEAN
                /\ ~r.pending => r.cur = r.new
         /\ \A v \in Limits(k)!Values(f) :
              Limits(k)!Active(v) \in Limits(k)!Rows(f) /\ Limits(k)!Active(v) \in Limits(k)!Settings
         /\ \A c, v \in Limits(k)!Values(f) :
              Limits(k)!Pending(c, v) \in Limits(k)!Rows(f) /\ Limits(k)!Pending(c, v) \in Limits(k)!Settings
<1>1. Limits(k)!Values(f) \subseteq Int
  BY LimitsValuesAre
<1>2. ASSUME NEW v \in Limits(k)!Values(f)
      PROVE  Limits(k)!Active(v) \in Limits(k)!Rows(f) /\ Limits(k)!Active(v) \in Limits(k)!Settings
               /\ Limits(k)!Active(v).cur = v /\ Limits(k)!Active(v).new = v
             /\ Limits(k)!Active(v).pending = FALSE
  <2>1. Limits(k)!Active(v).cur = v /\ Limits(k)!Active(v).new = v /\ Limits(k)!Active(v).pending = FALSE
          /\ Limits(k)!Active(v) \in Limits(k)!Settings
    BY <1>1 DEF Limits!Active, Limits!Settings
  <2>2. Limits(k)!Active(v) \in Limits(k)!Rows(f)
    BY DEF Limits!Rows
  <2>. QED
    BY <2>1, <2>2
<1>3. ASSUME NEW c \in Limits(k)!Values(f), NEW v \in Limits(k)!Values(f)
      PROVE  Limits(k)!Pending(c, v) \in Limits(k)!Rows(f) /\ Limits(k)!Pending(c, v) \in Limits(k)!Settings
               /\ Limits(k)!Pending(c, v).cur = c /\ Limits(k)!Pending(c, v).new = v
             /\ Limits(k)!Pending(c, v).pending = TRUE
  <2>1. /\ Limits(k)!Pending(c, v).cur = c /\ Limits(k)!Pending(c, v).new = v
             /\ Limits(k)!Pending(c, v).pending = TRUE
        /\ Limits(k)!Pending(c, v) \in Limits(k)!Settings
    BY <1>1 DEF Limits!Pending, Limits!Settings
  <2>2. Limits(k)!Pending(c, v) \in Limits(k)!Rows(f)
    BY DEF Limits!Rows
  <2>. QED
    BY <2>1, <2>2
<1>4. ASSUME NEW r \in Limits(k)!Rows(f)
      PROVE  /\ r \in Limits(k)!Settings /\ r.cur \in Limits(k)!Values(f) /\ r.new \in Limits(k)!Values(f)
             /\ r.cur \in Int /\ r.new \in Int /\ r.pending \in BOOLEAN
             /\ ~r.pending => r.cur = r.new
  <2>1. (\E v \in Limits(k)!Values(f) : r = Limits(k)!Active(v))
          \/ (\E c, v \in Limits(k)!Values(f) : r = Limits(k)!Pending(c, v))
    BY DEF Limits!Rows
  <2>2. CASE \E v \in Limits(k)!Values(f) : r = Limits(k)!Active(v)
    BY <1>1, <1>2, <2>2, Zenon
  <2>3. CASE \E c, v \in Limits(k)!Values(f) : r = Limits(k)!Pending(c, v)
    <3>1. PICK c \in Limits(k)!Values(f), v \in Limits(k)!Values(f) : r = Limits(k)!Pending(c, v)
      BY <2>3
    <3>. QED
      BY <1>1, <1>3, <3>1, Zenon
  <2>. QED
    BY <2>1, <2>2, <2>3
<1>. QED
  BY <1>2, <1>3, <1>4, Zenon

(* Whole units stay whole. *)
LEMMA LimitsWholeTwice ==
  ASSUME NEW k \in DOMAIN LimitPages, NEW v \in Int
  PROVE  Limits(k)!Whole(v) \in Int /\ Limits(k)!Whole(Limits(k)!Whole(v)) = Limits(k)!Whole(v)
BY DEF Limits!Whole

LEMMA LimitsCollectedIs ==
  ASSUME NEW k \in DOMAIN LimitPages, Limits(k)!PlayLimitSettingAssumption, Limits(k)!PageFormed,
         NEW f \in Limits(k)!Forms
  PROVE  /\ Limits(k)!Collected(f) \in Limits(k)!Values(f) /\ Limits(k)!Collected(f) \in Int
         /\ x3[f] \in Limits(k)!Values(f) => Limits(k)!Collected(f) = x3[f]
<1>1. Limits(k)!Values(f) \subseteq Int
  BY LimitsValuesAre
<1>2. \A n \in Limits(k)!Values(f) : f \in LimitPages[k].Amounts => Limits(k)!Whole(n) = n
  <2>1. f \in LimitPages[k].Amounts => Limits(k)!Values(f) = Limits(k)!Posted
    BY DEF Limits!Values
  <2>2. \A v \in LimitPages[k].Typed : Limits(k)!Clamp(v) \in Int
    BY LimitsValuesAre
  <2>3. Limits(k)!Whole(Limits(k)!NoLimit) = Limits(k)!NoLimit
    BY DEF Limits!Whole, Limits!NoLimit
  <2>4. \A n \in Limits(k)!Posted : Limits(k)!Whole(n) = n
    BY <2>2, <2>3, LimitsWholeTwice DEF Limits!Posted
  <2>. QED
    BY <2>1, <2>4
<1>3. ASSUME f \in LimitPages[k].Amounts, NEW v \in LimitPages[k].Typed, x3[f] = Limits(k)!Clamp(v)
      PROVE  Limits(k)!Collected(f) \in Limits(k)!Values(f)
  BY <1>3 DEF Limits!Collected, Limits!Values, Limits!Posted
<1>4. x3[f] \in Limits(k)!Values(f)
        \/ (f \in LimitPages[k].Amounts /\ x3[f] \in {Limits(k)!Clamp(v) : v \in LimitPages[k].Typed})
  BY DEF Limits!PageFormed
<1>5. x3[f] \in Limits(k)!Values(f) => Limits(k)!Collected(f) = x3[f]
  BY <1>2 DEF Limits!Collected
<1>. QED
  BY <1>1, <1>3, <1>4, <1>5

(* A decision leaves a setting that can be, with the value asked for.      *)
LEMMA LimitsDecideIs ==
  ASSUME NEW k \in DOMAIN LimitPages, Limits(k)!PlayLimitSettingAssumption, NEW f \in Limits(k)!Forms,
         NEW r \in Limits(k)!Rows(f), Limits(k)!Reachable(f, r), NEW v \in Limits(k)!Values(f)
  PROVE  /\ Limits(k)!Decide(f \in LimitPages[k].Exclusions, r, v) \in Limits(k)!Rows(f)
              /\ Limits(k)!Decide(f \in LimitPages[k].Exclusions, r, v) \in Limits(k)!Settings
         /\ Limits(k)!Reachable(f, Limits(k)!Decide(f \in LimitPages[k].Exclusions, r, v))
         /\ Limits(k)!Decide(f \in LimitPages[k].Exclusions, r, v).new = v
         /\ v = r.new => Limits(k)!Decide(f \in LimitPages[k].Exclusions, r, v) = r
<1>1. r \in Limits(k)!Settings /\ r.cur \in Limits(k)!Values(f) /\ r.cur \in Int /\ v \in Int
  BY LimitsRowIs, LimitsValuesAre
<1>2. CASE v = r.new
  BY <1>1, <1>2 DEF Limits!Decide
<1>3. CASE v # r.new /\ Limits(k)!AtOnce(f \in LimitPages[k].Exclusions, r.cur, v)
  <2>1. Limits(k)!Decide(f \in LimitPages[k].Exclusions, r, v) = Limits(k)!Active(v)
    BY <1>3 DEF Limits!Decide
  <2>2. Limits(k)!Active(v).new = v /\ Limits(k)!Active(v).pending = FALSE
    BY DEF Limits!Active
  <2>. QED
    BY <1>3, <2>1, <2>2, LimitsRowIs DEF Limits!Reachable
<1>4. CASE v # r.new /\ ~Limits(k)!AtOnce(f \in LimitPages[k].Exclusions, r.cur, v)
  <2>1. Limits(k)!Decide(f \in LimitPages[k].Exclusions, r, v) = Limits(k)!Pending(r.cur, v)
    BY <1>4 DEF Limits!Decide
  <2>2. Limits(k)!Pending(r.cur, v).new = v /\ Limits(k)!Pending(r.cur, v).cur = r.cur
    BY DEF Limits!Pending
  <2>3. r.cur # v
    BY <1>1, <1>4 DEF Limits!AtOnce, Limits!LimitAtOnce, Limits!ExclusionAtOnce,
        Limits!NoLimit, Limits!Indefinite
  <2>4. Limits(k)!Reachable(f, Limits(k)!Pending(r.cur, v))
    BY <1>4, <2>2, <2>3 DEF Limits!Reachable
  <2>. QED
    BY <1>1, <1>4, <2>1, <2>2, <2>4, LimitsRowIs
<1>. QED
  BY <1>2, <1>3, <1>4

LEMMA LimitsNewRequests ==
  ASSUME NEW k \in DOMAIN LimitPages, Limits(k)!PlayLimitSettingAssumption
  PROVE  /\ Limits(k)!Fits(Limits(k)!Free) /\ Limits(k)!Free.op = "free" /\ Limits(k)!Free.state = "free"
              /\ Limits(k)!Free.kept = FALSE
         /\ Limits(k)!Fits(Limits(k)!Load) /\ Limits(k)!Load.op = "load" /\ Limits(k)!Load.state = "asked"
              /\ Limits(k)!Load.kept = FALSE
<1>1. \A f \in Limits(k)!Forms :
        Limits(k)!Active(Limits(k)!NoLimit) \in Limits(k)!Rows(f)
          /\ Limits(k)!Active(Limits(k)!NoLimit) \in Limits(k)!Settings
  BY LimitsValuesAre, LimitsRowIs
<1>2. Limits(k)!NoRows \in [Limits(k)!Forms -> Limits(k)!Settings] /\ \A f \in Limits(k)!Forms :
        Limits(k)!NoRows[f] \in Limits(k)!Rows(f)
  BY <1>1 DEF Limits!NoRows
<1>. HIDE DEF Limits!NoRows
<1>3. Limits(k)!Fits(Limits(k)!Free) /\ Limits(k)!Free.op = "free" /\ Limits(k)!Free.state = "free"
        /\ Limits(k)!Free.kept = FALSE
  BY <1>2 DEF Limits!Free, Limits!Fits, Limits!Requests, Limits!NoLimit
<1>4. Limits(k)!Fits(Limits(k)!Load) /\ Limits(k)!Load.op = "load" /\ Limits(k)!Load.state = "asked"
        /\ Limits(k)!Load.kept = FALSE
  <2>1. Limits(k)!Load.op = "load" /\ Limits(k)!Load.state = "asked" /\ Limits(k)!Load.kept = FALSE
          /\ Limits(k)!Load.data = Limits(k)!NoRows
    BY DEF Limits!Load, Limits!Free
  <2>3. Limits(k)!NoLimit \in Int
    BY DEF Limits!NoLimit
  <2>2. Limits(k)!Load \in Limits(k)!Requests
    BY <1>2, <2>3, Zenon DEF Limits!Load, Limits!Free, Limits!Requests
  <2>. QED
    BY <1>2, <2>1, <2>2 DEF Limits!Fits
<1>. QED
  BY <1>3, <1>4

(* One slot changes. *)
LEMMA LimitsOneSlot ==
  ASSUME NEW k \in DOMAIN LimitPages, Limits(k)!SlotsFormed, NEW s \in LimitPages[k].Slots, NEW q,
         Limits(k)!Fits(q), x6' = [x6 EXCEPT ![s] = q]
  PROVE  /\ Limits(k)!SlotsFormed' /\ x6'[s] = q
         /\ \A t \in LimitPages[k].Slots : t # s => x6'[t] = x6[t]
<1>1. x6' \in [LimitPages[k].Slots -> Limits(k)!Requests] /\ x6'[s] = q /\ \A t \in LimitPages[k].Slots :
        t # s => x6'[t] = x6[t]
  BY DEF Limits!SlotsFormed, Limits!Fits
<1>2. \A t \in LimitPages[k].Slots : Limits(k)!Fits(x6'[t])
  BY <1>1 DEF Limits!SlotsFormed
<1>. QED
  BY <1>1, <1>2 DEF Limits!SlotsFormed

LEMMA LimitsRowKeeps ==
  ASSUME NEW k \in DOMAIN LimitPages, Limits(k)!RowFormed, NEW f \in Limits(k)!Forms,
         NEW r \in Limits(k)!Rows(f), r \in Limits(k)!Settings, Limits(k)!Reachable(f, r),
         x1' = [x1 EXCEPT ![f] = r]
  PROVE  Limits(k)!RowFormed' /\ x1'[f] = r /\ \A g \in Limits(k)!Forms : g # f => x1'[g] = x1[g]
<1>1. /\ x1' \in [Limits(k)!Forms -> Limits(k)!Settings] /\ x1'[f] = r
      /\ \A g \in Limits(k)!Forms : g # f => x1'[g] = x1[g]
  BY DEF Limits!RowFormed
<1>2. \A g \in Limits(k)!Forms : x1'[g] \in Limits(k)!Rows(g) /\ Limits(k)!Reachable(g, x1'[g])
  BY <1>1 DEF Limits!RowFormed
<1>. QED
  BY <1>1, <1>2 DEF Limits!RowFormed

LEMMA LimitsChangeKeeps ==
  ASSUME NEW k \in DOMAIN LimitPages, Limits(k)!PlayLimitSettingAssumption, Limits(k)!RowFormed,
         NEW f \in Limits(k)!Forms, NEW v \in Limits(k)!Values(f), Limits(k)!Change(f, v)
  PROVE  /\ Limits(k)!RowFormed' /\ x1'[f].new = v /\ (v = x1[f].new => x1' = x1)
         /\ \A g \in Limits(k)!Forms : g # f => x1'[g] = x1[g]
<1>. DEFINE r == Limits(k)!Decide(f \in LimitPages[k].Exclusions, x1[f], v)
<1>1. x1[f] \in Limits(k)!Rows(f) /\ Limits(k)!Reachable(f, x1[f])
  BY DEF Limits!RowFormed
<1>2. r \in Limits(k)!Rows(f) /\ r \in Limits(k)!Settings /\ Limits(k)!Reachable(f, r) /\ r.new = v
        /\ (v = x1[f].new => r = x1[f])
  BY <1>1, LimitsDecideIs
<1>3. x1' = [x1 EXCEPT ![f] = r]
  BY DEF Limits!Change
<1>. HIDE DEF r
<1>4. Limits(k)!RowFormed' /\ x1'[f] = r /\ \A g \in Limits(k)!Forms : g # f => x1'[g] = x1[g]
  BY <1>2, <1>3, LimitsRowKeeps, Zenon
<1>5. v = x1[f].new => x1' = x1
  BY <1>2, <1>3 DEF Limits!RowFormed
<1>. QED
  BY <1>2, <1>4, <1>5

LEMMA LimitsActiveKeeps ==
  ASSUME NEW k \in DOMAIN LimitPages, Limits(k)!PlayLimitSettingAssumption, Limits(k)!RowFormed,
         NEW f \in Limits(k)!Forms, NEW v \in Limits(k)!Values(f),
         x1' = [x1 EXCEPT ![f] = Limits(k)!Active(v)]
  PROVE  Limits(k)!RowFormed' /\ \A g \in Limits(k)!Forms : g # f => x1'[g] = x1[g]
<1>1. Limits(k)!Active(v) \in Limits(k)!Rows(f) /\ Limits(k)!Active(v) \in Limits(k)!Settings
  BY LimitsRowIs
<1>2. Limits(k)!Reachable(f, Limits(k)!Active(v))
  BY DEF Limits!Reachable, Limits!Active
<1>. QED
  BY <1>1, <1>2, LimitsRowKeeps, Zenon

(* No step leaves a setting that cannot be. *)
LEMMA LimitsStepRow ==
  ASSUME NEW k \in DOMAIN LimitPages, Limits(k)!PlayLimitSettingAssumption, Limits(k)!RowFormed,
         Limits(k)!SlotsFormed, Limits(k)!Next \/ UNCHANGED Limits(k)!vars
  PROVE  Limits(k)!RowFormed'
<1>1. ASSUME NEW s \in LimitPages[k].Slots, Limits(k)!ServeLoad(s) PROVE Limits(k)!RowFormed'
  BY <1>1 DEF Limits!ServeLoad, Limits!page, Limits!RowFormed, Limits!SlotsFormed
<1>2. ASSUME NEW s \in LimitPages[k].Slots, Limits(k)!getPlayerResponsibilities(s) PROVE Limits(k)!RowFormed'
  BY <1>2 DEF Limits!getPlayerResponsibilities, Limits!renderPlayerResponsibilities,
      Limits!Out, Limits!RowFormed, Limits!SlotsFormed
<1>3. ASSUME NEW s \in LimitPages[k].Slots, Limits(k)!updatePlayerResponsibility(s) PROVE Limits(k)!RowFormed'
  <2>1. x6[s].op = "save" /\ x6[s].form \in Limits(k)!Forms /\ x6[s].val \in Limits(k)!Values(x6[s].form)
    BY <1>3 DEF Limits!updatePlayerResponsibility, Limits!SlotsFormed, Limits!Fits
  <2>2. Limits(k)!Change(x6[s].form, x6[s].val)
    BY <1>3 DEF Limits!updatePlayerResponsibility
  <2>. QED
    BY <2>1, <2>2, LimitsChangeKeeps
<1>4. ASSUME NEW s \in LimitPages[k].Slots, Limits(k)!Saved(s) PROVE Limits(k)!RowFormed'
  BY <1>4 DEF Limits!Saved, Limits!page, Limits!RowFormed, Limits!SlotsFormed
<1>5. ASSUME NEW s \in LimitPages[k].Slots, Limits(k)!Fail(s) PROVE Limits(k)!RowFormed'
  BY <1>5 DEF Limits!Fail, Limits!page, Limits!RowFormed, Limits!SlotsFormed
<1>6. ASSUME NEW f \in Limits(k)!Forms, NEW v \in LimitPages[k].Typed,
             Limits(k)!onChangeSeparator(f, v) PROVE Limits(k)!RowFormed'
  BY <1>6 DEF Limits!onChangeSeparator, Limits!SetInput, Limits!RowFormed,
      Limits!SlotsFormed
<1>7. ASSUME NEW f \in Limits(k)!Forms, NEW v \in LimitPages[k].Choices,
             Limits(k)!Choose(f, v) PROVE Limits(k)!RowFormed'
  BY <1>7 DEF Limits!Choose, Limits!SetInput, Limits!RowFormed, Limits!SlotsFormed
<1>8. ASSUME NEW f \in Limits(k)!Forms, Limits(k)!clearText(f) PROVE Limits(k)!RowFormed'
  BY <1>8 DEF Limits!clearText, Limits!SetInput, Limits!RowFormed, Limits!SlotsFormed
<1>9. ASSUME NEW f \in Limits(k)!Forms, Limits(k)!CancelRequest(f) PROVE Limits(k)!RowFormed'
  BY <1>9 DEF Limits!CancelRequest, Limits!RowFormed, Limits!SlotsFormed
<1>10. ASSUME NEW f \in Limits(k)!Forms, Limits(k)!saveAction(f) PROVE Limits(k)!RowFormed'
  BY <1>10 DEF Limits!saveAction, Limits!Quiet, Limits!RowFormed, Limits!SlotsFormed
<1>11. ASSUME NEW f \in Limits(k)!Forms, Limits(k)!checkEffective(f) PROVE Limits(k)!RowFormed'
  <2>1. PICK v \in Limits(k)!Values(f) : x1' = [x1 EXCEPT ![f] = Limits(k)!Active(v)]
    <3>1. x1[f].new \in Limits(k)!Values(f) /\ Limits(k)!NoLimit \in Limits(k)!Values(f)
      BY LimitsRowIs, LimitsValuesAre DEF Limits!RowFormed
    <3>. QED
      BY <1>11, <3>1 DEF Limits!checkEffective
  <2>. QED
    BY <2>1, LimitsActiveKeeps, Zenon
<1>12. ASSUME NEW f \in Limits(k)!Forms, NEW v \in Limits(k)!Values(f),
              Limits(k)!PlayerUpdates(f, v) PROVE Limits(k)!RowFormed'
  <2>1. CASE f \in LimitPages[k].Exclusions
    BY <1>12, <2>1, LimitsActiveKeeps DEF Limits!PlayerUpdates
  <2>2. CASE f \notin LimitPages[k].Exclusions
    BY <1>12, <2>2, LimitsChangeKeeps DEF Limits!PlayerUpdates
  <2>. QED
    BY <2>1, <2>2
<1>13. CASE UNCHANGED Limits(k)!vars
  BY <1>13 DEF Limits!vars, Limits!RowFormed, Limits!SlotsFormed
<1>. QED
  BY <1>1, <1>2, <1>3, <1>4, <1>5, <1>6, <1>7, <1>8, <1>9, <1>10, <1>11, <1>12, <1>13 DEF
      Limits!Next, Limits!Manager

LEMMA LimitsInputKeeps ==
  ASSUME NEW k \in DOMAIN LimitPages, Limits(k)!PlayLimitSettingAssumption, Limits(k)!PageFormed,
         NEW f \in Limits(k)!Forms, NEW n, x3' = [x3 EXCEPT ![f] = n],
         n \in Limits(k)!Values(f)
           \/ (f \in LimitPages[k].Amounts /\ n \in {Limits(k)!Clamp(v) : v \in LimitPages[k].Typed}),
         UNCHANGED <<x2, x4>>, x5' \subseteq Limits(k)!Forms, x7' \subseteq Limits(k)!Forms
  PROVE  Limits(k)!PageFormed'
<1>1. n \in Int
  BY LimitsValuesAre
<1>2. x3' \in [Limits(k)!Forms -> Int] /\ x3'[f] = n /\ \A g \in Limits(k)!Forms : g # f => x3'[g] = x3[g]
  BY <1>1 DEF Limits!PageFormed
<1>3. \A g \in Limits(k)!Forms :
        x3'[g] \in Limits(k)!Values(g)
          \/ (g \in LimitPages[k].Amounts /\ x3'[g] \in {Limits(k)!Clamp(v) : v \in LimitPages[k].Typed})
  BY <1>2 DEF Limits!PageFormed
<1>. QED
  BY <1>2, <1>3 DEF Limits!PageFormed

(* What the forms show is of their kind. *)
LEMMA LimitsStepPage ==
  ASSUME NEW k \in DOMAIN LimitPages, Limits(k)!PlayLimitSettingAssumption, Limits(k)!RowFormed,
         Limits(k)!PageFormed, Limits(k)!SlotsFormed, Limits(k)!Next \/ UNCHANGED Limits(k)!vars
  PROVE  Limits(k)!PageFormed'
<1>1. ASSUME NEW s \in LimitPages[k].Slots, Limits(k)!ServeLoad(s) PROVE Limits(k)!PageFormed'
  BY <1>1 DEF Limits!ServeLoad, Limits!page, Limits!PageFormed, Limits!RowFormed,
      Limits!SlotsFormed
<1>2. ASSUME NEW s \in LimitPages[k].Slots, Limits(k)!getPlayerResponsibilities(s) PROVE Limits(k)!PageFormed'
  <2>. DEFINE d == x6[s].data
  <2>1. d \in [Limits(k)!Forms -> Limits(k)!Settings] /\ \A f \in Limits(k)!Forms : d[f] \in Limits(k)!Rows(f)
    BY DEF Limits!SlotsFormed, Limits!Fits, Limits!Requests
  <2>2. /\ x2' = d /\ x4' = [f \in Limits(k)!Forms |-> Limits(k)!updateCurrentLimit(f, d[f])]
        /\ x5' = {f \in Limits(k)!Forms : d[f].pending} /\ x7' = {}
        /\ x3' = [f \in Limits(k)!Forms |-> Limits(k)!handleMessage(f, d[f])]
    BY <1>2 DEF Limits!getPlayerResponsibilities, Limits!renderPlayerResponsibilities
  <2>. HIDE DEF d
  <2>3. ASSUME NEW f \in Limits(k)!Forms
        PROVE  d[f].cur \in Limits(k)!Values(f) /\ d[f].new \in Limits(k)!Values(f)
                 /\ x4[f] \in Limits(k)!Values(f) /\ Limits(k)!Values(f) \subseteq Int
               /\ x3[f] \in Int
                    /\ (x3[f] \in Limits(k)!Values(f)
                         \/ (f \in LimitPages[k].Amounts
                              /\ x3[f] \in {Limits(k)!Clamp(v) : v \in LimitPages[k].Typed}))
    BY <2>1, LimitsRowIs, LimitsValuesAre DEF Limits!PageFormed
  <2>4. \A f \in Limits(k)!Forms :
          Limits(k)!updateCurrentLimit(f, d[f]) \in Limits(k)!Values(f)
            /\ Limits(k)!updateCurrentLimit(f, d[f]) \in Int
    BY <2>3 DEF Limits!updateCurrentLimit
  <2>5. \A f \in Limits(k)!Forms :
      /\ Limits(k)!handleMessage(f, d[f]) \in Int
      /\ \/ Limits(k)!handleMessage(f, d[f]) \in Limits(k)!Values(f)
         \/ f \in LimitPages[k].Amounts
              /\ Limits(k)!handleMessage(f, d[f]) \in {Limits(k)!Clamp(v) : v \in LimitPages[k].Typed}
    BY <2>3 DEF Limits!handleMessage
  <2>6. x4' \in [Limits(k)!Forms -> Int] /\ \A f \in Limits(k)!Forms : x4'[f] \in Limits(k)!Values(f)
    BY <2>2, <2>4
  <2>7. x3' \in [Limits(k)!Forms -> Int]
        /\ \A f \in Limits(k)!Forms :
             x3'[f] \in Limits(k)!Values(f)
               \/ (f \in LimitPages[k].Amounts /\ x3'[f] \in {Limits(k)!Clamp(v) : v \in LimitPages[k].Typed})
    BY <2>2, <2>5
  <2>8. x2' \in [Limits(k)!Forms -> Limits(k)!Settings]
          /\ (\A f \in Limits(k)!Forms : x2'[f] \in Limits(k)!Rows(f))
        /\ x5' \subseteq Limits(k)!Forms /\ x7' \subseteq Limits(k)!Forms
    BY <2>1, <2>2
  <2>. QED
    BY <2>6, <2>7, <2>8 DEF Limits!PageFormed
<1>3. ASSUME NEW s \in LimitPages[k].Slots,
             Limits(k)!updatePlayerResponsibility(s) PROVE Limits(k)!PageFormed'
  BY <1>3 DEF Limits!updatePlayerResponsibility, Limits!Change, Limits!Unkept,
      Limits!page, Limits!PageFormed, Limits!RowFormed, Limits!SlotsFormed
<1>4. ASSUME NEW s \in LimitPages[k].Slots, Limits(k)!Saved(s) PROVE Limits(k)!PageFormed'
  BY <1>4 DEF Limits!Saved, Limits!page, Limits!PageFormed, Limits!RowFormed,
      Limits!SlotsFormed
<1>5. ASSUME NEW s \in LimitPages[k].Slots, Limits(k)!Fail(s) PROVE Limits(k)!PageFormed'
  BY <1>5 DEF Limits!Fail, Limits!page, Limits!PageFormed, Limits!RowFormed,
      Limits!SlotsFormed
<1>6. ASSUME NEW f \in Limits(k)!Forms, NEW v \in LimitPages[k].Typed,
             Limits(k)!onChangeSeparator(f, v) PROVE Limits(k)!PageFormed'
  BY <1>6, LimitsInputKeeps, Zenon DEF Limits!onChangeSeparator, Limits!SetInput, Limits!PageFormed
<1>7. ASSUME NEW f \in Limits(k)!Forms, NEW v \in LimitPages[k].Choices,
             Limits(k)!Choose(f, v) PROVE Limits(k)!PageFormed'
  BY <1>7, LimitsInputKeeps, Zenon DEF Limits!Choose, Limits!SetInput, Limits!PageFormed
<1>8. ASSUME NEW f \in Limits(k)!Forms, Limits(k)!clearText(f) PROVE Limits(k)!PageFormed'
  BY <1>8, LimitsInputKeeps, LimitsValuesAre, Zenon DEF Limits!clearText, Limits!SetInput, Limits!PageFormed
<1>9. ASSUME NEW f \in Limits(k)!Forms, Limits(k)!CancelRequest(f) PROVE Limits(k)!PageFormed'
  <2>1. x2[f].cur \in Limits(k)!Values(f)
    BY LimitsRowIs DEF Limits!PageFormed
  <2>. QED
    BY <1>9, <2>1, LimitsInputKeeps, Zenon DEF Limits!CancelRequest, Limits!PageFormed
<1>10. ASSUME NEW f \in Limits(k)!Forms, Limits(k)!saveAction(f) PROVE Limits(k)!PageFormed'
  BY <1>10 DEF Limits!saveAction, Limits!Quiet, Limits!PageFormed, Limits!RowFormed,
      Limits!SlotsFormed
<1>11. ASSUME NEW f \in Limits(k)!Forms, Limits(k)!checkEffective(f) PROVE Limits(k)!PageFormed'
  BY <1>11 DEF Limits!checkEffective, Limits!Unkept, Limits!PageFormed, Limits!RowFormed,
      Limits!SlotsFormed
<1>12. ASSUME NEW f \in Limits(k)!Forms, NEW v \in Limits(k)!Values(f),
              Limits(k)!PlayerUpdates(f, v) PROVE Limits(k)!PageFormed'
  BY <1>12 DEF Limits!PlayerUpdates, Limits!Change, Limits!Unkept, Limits!PageFormed,
      Limits!RowFormed, Limits!SlotsFormed
<1>13. CASE UNCHANGED Limits(k)!vars
  BY <1>13 DEF Limits!vars, Limits!PageFormed, Limits!RowFormed, Limits!SlotsFormed
<1>. QED
  BY <1>1, <1>2, <1>3, <1>4, <1>5, <1>6, <1>7, <1>8, <1>9, <1>10, <1>11, <1>12, <1>13 DEF
      Limits!Next, Limits!Manager

(* Saves of the form lose their mark, and nothing else. *)
LEMMA LimitsUnkeptIs ==
  ASSUME NEW k \in DOMAIN LimitPages, Limits(k)!SlotsFormed, NEW f, NEW d, d = Limits(k)!Unkept(f)
  PROVE  /\ d \in [LimitPages[k].Slots -> Limits(k)!Requests]
         /\ \A t \in LimitPages[k].Slots :
                /\ Limits(k)!Fits(d[t]) /\ d[t].op = x6[t].op /\ d[t].state = x6[t].state
                /\ d[t].form = x6[t].form /\ d[t].val = x6[t].val /\ d[t].data = x6[t].data
                /\ d[t].kept => x6[t].kept /\ x6[t].form # f
<1>1. ASSUME NEW t \in LimitPages[k].Slots
      PROVE  /\ Limits(k)!Fits(d[t]) /\ d[t].op = x6[t].op /\ d[t].state = x6[t].state
             /\ d[t].form = x6[t].form /\ d[t].val = x6[t].val /\ d[t].data = x6[t].data
             /\ d[t].kept => x6[t].kept /\ x6[t].form # f
  <2>1. x6[t] \in Limits(k)!Requests /\ Limits(k)!Fits(x6[t])
    BY DEF Limits!SlotsFormed
  <2>2. CASE x6[t].form = f
    <3>1. d[t] = [x6[t] EXCEPT !.kept = FALSE]
      BY <2>2 DEF Limits!Unkept
    <3>2. /\ d[t] \in Limits(k)!Requests /\ d[t].op = x6[t].op /\ d[t].state = x6[t].state
          /\ d[t].form = x6[t].form /\ d[t].val = x6[t].val /\ d[t].data = x6[t].data /\ ~d[t].kept
      BY <2>1, <3>1, Zenon DEF Limits!Requests
    <3>. QED
      BY <2>1, <3>2 DEF Limits!Fits
  <2>3. CASE x6[t].form # f
    BY <2>1, <2>3 DEF Limits!Unkept
  <2>. QED
    BY <2>2, <2>3
<1>2. d \in [LimitPages[k].Slots -> Limits(k)!Requests]
  BY <1>1, Zenon DEF Limits!Unkept, Limits!Fits
<1>. QED
  BY <1>1, <1>2

LEMMA LimitsTakenKeeps ==
  ASSUME NEW k \in DOMAIN LimitPages, Limits(k)!SlotsFormed, NEW s \in LimitPages[k].Slots, x6[s].op = "save",
         x6' = [Limits(k)!Unkept(x6[s].form) EXCEPT ![s] = [x6[s] EXCEPT !.state = "served"]]
  PROVE  /\ Limits(k)!SlotsFormed' /\ x6'[s].op = "save" /\ x6'[s].state = "served"
         /\ x6'[s].form = x6[s].form /\ x6'[s].val = x6[s].val /\ x6'[s].kept = x6[s].kept
         /\ \A t \in LimitPages[k].Slots : t # s =>
              /\ x6'[t].op = x6[t].op /\ x6'[t].state = x6[t].state
              /\ x6'[t].form = x6[t].form /\ x6'[t].val = x6[t].val /\ x6'[t].data = x6[t].data
              /\ x6'[t].kept => x6[t].kept /\ x6[t].form # x6[s].form
<1>1. PICK d : d = Limits(k)!Unkept(x6[s].form)
  OBVIOUS
<1>2. /\ d \in [LimitPages[k].Slots -> Limits(k)!Requests]
      /\ \A t \in LimitPages[k].Slots :
             /\ Limits(k)!Fits(d[t]) /\ d[t].op = x6[t].op /\ d[t].state = x6[t].state
             /\ d[t].form = x6[t].form /\ d[t].val = x6[t].val /\ d[t].data = x6[t].data
             /\ d[t].kept => x6[t].kept /\ x6[t].form # x6[s].form
  BY <1>1, LimitsUnkeptIs
<1>3. PICK q : q = [x6[s] EXCEPT !.state = "served"]
  BY Zenon
<1>4. x6[s] \in Limits(k)!Requests /\ Limits(k)!Fits(x6[s])
  BY DEF Limits!SlotsFormed
<1>5. /\ q \in Limits(k)!Requests /\ q.op = x6[s].op /\ q.state = "served" /\ q.form = x6[s].form
      /\ q.val = x6[s].val /\ q.kept = x6[s].kept /\ q.data = x6[s].data
  BY <1>3, <1>4 DEF Limits!Requests
<1>6. Limits(k)!Fits(q)
  BY <1>4, <1>5 DEF Limits!Fits
<1>7. x6' = [d EXCEPT ![s] = q]
  BY <1>1, <1>3
<1>8. x6' \in [LimitPages[k].Slots -> Limits(k)!Requests] /\ x6'[s] = q /\ \A t \in LimitPages[k].Slots :
        t # s => x6'[t] = d[t]
  BY <1>2, <1>5, <1>7, Zenon
<1>9. \A t \in LimitPages[k].Slots : Limits(k)!Fits(x6'[t])
  BY <1>2, <1>6, <1>8
<1>10. Limits(k)!SlotsFormed'
  BY <1>8, <1>9 DEF Limits!SlotsFormed
<1>. QED
  BY <1>2, <1>5, <1>8, <1>10

(* A save posts what its form shows, and keeps its mark when nothing could *)
(* have made the form stale.                                               *)
LEMMA LimitsSaveIs ==
  ASSUME NEW k \in DOMAIN LimitPages, Limits(k)!PlayLimitSettingAssumption, Limits(k)!PageFormed,
         Limits(k)!SlotsFormed, NEW f \in Limits(k)!Forms, Limits(k)!saveAction(f)
  PROVE  /\ Limits(k)!SlotsFormed'
         /\ \E s \in LimitPages[k].Slots :
              /\ x6[s] = Limits(k)!Free /\ x6'[s].op = "save" /\ x6'[s].state = "asked"
              /\ x6'[s].form = f /\ x6'[s].val = Limits(k)!Collected(f)
              /\ x6'[s].kept => f \notin x7 /\ Limits(k)!Quiet /\ ~x8 /\ ~x9
              /\ \A t \in LimitPages[k].Slots : t # s => x6'[t] = x6[t]
<1>1. PICK v \in Limits(k)!Values(f) : v = Limits(k)!Collected(f)
  BY LimitsCollectedIs
<1>2. PICK b \in BOOLEAN : b = (f \notin x7 /\ Limits(k)!Quiet /\ ~x8 /\ ~x9)
  BY Zenon
<1>3. PICK s \in LimitPages[k].Slots :
        /\ x6[s] = Limits(k)!Free
        /\ x6' = [x6 EXCEPT ![s] =
             [Limits(k)!Free EXCEPT !.op = "save", !.state = "asked", !.form = f, !.val = v, !.kept = b]]
  BY <1>1, <1>2, Zenon DEF Limits!saveAction
<1>4. PICK q : q = [Limits(k)!Free EXCEPT !.op = "save", !.state = "asked", !.form = f, !.val = v, !.kept = b]
  OBVIOUS
<1>5. Limits(k)!Fits(q) /\ q.op = "save" /\ q.state = "asked" /\ q.form = f /\ q.val = v /\ q.kept = b
  <2>1. \A g \in Limits(k)!Forms :
          Limits(k)!Active(Limits(k)!NoLimit) \in Limits(k)!Rows(g)
            /\ Limits(k)!Active(Limits(k)!NoLimit) \in Limits(k)!Settings
    BY LimitsValuesAre, LimitsRowIs
  <2>2. Limits(k)!NoRows \in [Limits(k)!Forms -> Limits(k)!Settings] /\ \A g \in Limits(k)!Forms :
          Limits(k)!NoRows[g] \in Limits(k)!Rows(g)
    BY <2>1 DEF Limits!NoRows
  <2>3. v \in Int
    BY LimitsValuesAre
  <2>. HIDE DEF Limits!NoRows
  <2>4. q.op = "save" /\ q.state = "asked" /\ q.form = f /\ q.val = v /\ q.kept = b
          /\ q.data = Limits(k)!NoRows
    BY <1>4 DEF Limits!Free
  <2>5. q \in Limits(k)!Requests
    BY <1>4, <2>2, <2>3, Zenon DEF Limits!Free, Limits!Requests
  <2>. QED
    BY <2>2, <2>4, <2>5 DEF Limits!Fits
<1>6. Limits(k)!SlotsFormed' /\ x6'[s] = q /\ \A t \in LimitPages[k].Slots : t # s => x6'[t] = x6[t]
  <2>1. x6' = [x6 EXCEPT ![s] = q]
    BY <1>3, <1>4
  <2>. QED
    BY <1>5, <2>1, LimitsOneSlot, Zenon
<1>. QED
  BY <1>1, <1>2, <1>3, <1>5, <1>6, Zenon

(* What is asked is of its form. *)
LEMMA LimitsStepSlots ==
  ASSUME NEW k \in DOMAIN LimitPages, Limits(k)!PlayLimitSettingAssumption, Limits(k)!RowFormed,
         Limits(k)!PageFormed, Limits(k)!SlotsFormed, Limits(k)!Next \/ UNCHANGED Limits(k)!vars
  PROVE  Limits(k)!SlotsFormed'
<1>1. ASSUME NEW s \in LimitPages[k].Slots, Limits(k)!ServeLoad(s) PROVE Limits(k)!SlotsFormed'
  <2>1. x1 \in [Limits(k)!Forms -> Limits(k)!Settings]
          /\ (\A f \in Limits(k)!Forms : x1[f] \in Limits(k)!Rows(f)) /\ x6[s] = Limits(k)!Load
    BY <1>1 DEF Limits!ServeLoad, Limits!RowFormed
  <2>2. PICK q : q = [x6[s] EXCEPT !.state = "served", !.data = x1]
    OBVIOUS
  <2>3. x6[s] \in Limits(k)!Requests /\ x6[s].op = "load"
    BY <2>1, LimitsNewRequests, Zenon DEF Limits!Fits
  <2>4. q \in Limits(k)!Requests /\ q.data = x1 /\ q.op = "load"
    BY <2>1, <2>2, <2>3, Zenon DEF Limits!Requests
  <2>5. Limits(k)!Fits(q)
    BY <2>1, <2>4 DEF Limits!Fits
  <2>6. x6' = [x6 EXCEPT ![s] = q]
    BY <1>1, <2>2, Zenon DEF Limits!ServeLoad
  <2>. QED
    BY <2>5, <2>6, LimitsOneSlot, Zenon
<1>2. ASSUME NEW s \in LimitPages[k].Slots,
             Limits(k)!getPlayerResponsibilities(s) PROVE Limits(k)!SlotsFormed'
  BY <1>2, LimitsNewRequests, LimitsOneSlot, Zenon DEF Limits!getPlayerResponsibilities
<1>3. ASSUME NEW s \in LimitPages[k].Slots,
             Limits(k)!updatePlayerResponsibility(s) PROVE Limits(k)!SlotsFormed'
  BY <1>3, LimitsTakenKeeps DEF Limits!updatePlayerResponsibility
<1>4. ASSUME NEW s \in LimitPages[k].Slots, Limits(k)!Saved(s) PROVE Limits(k)!SlotsFormed'
  BY <1>4, LimitsNewRequests, LimitsOneSlot, Zenon DEF Limits!Saved
<1>5. ASSUME NEW s \in LimitPages[k].Slots, Limits(k)!Fail(s) PROVE Limits(k)!SlotsFormed'
  BY <1>5, LimitsNewRequests, LimitsOneSlot, Zenon DEF Limits!Fail
<1>6. ASSUME NEW f \in Limits(k)!Forms, NEW v \in LimitPages[k].Typed,
             Limits(k)!onChangeSeparator(f, v) PROVE Limits(k)!SlotsFormed'
  BY <1>6 DEF Limits!onChangeSeparator, Limits!SetInput, Limits!SlotsFormed,
      Limits!RowFormed, Limits!PageFormed
<1>7. ASSUME NEW f \in Limits(k)!Forms, NEW v \in LimitPages[k].Choices,
             Limits(k)!Choose(f, v) PROVE Limits(k)!SlotsFormed'
  BY <1>7 DEF Limits!Choose, Limits!SetInput, Limits!SlotsFormed, Limits!RowFormed,
      Limits!PageFormed
<1>8. ASSUME NEW f \in Limits(k)!Forms, Limits(k)!clearText(f) PROVE Limits(k)!SlotsFormed'
  BY <1>8 DEF Limits!clearText, Limits!SetInput, Limits!SlotsFormed, Limits!RowFormed,
      Limits!PageFormed
<1>9. ASSUME NEW f \in Limits(k)!Forms, Limits(k)!CancelRequest(f) PROVE Limits(k)!SlotsFormed'
  BY <1>9 DEF Limits!CancelRequest, Limits!SlotsFormed, Limits!RowFormed,
      Limits!PageFormed
<1>10. ASSUME NEW f \in Limits(k)!Forms, Limits(k)!saveAction(f) PROVE Limits(k)!SlotsFormed'
  <2>. QED
    BY <1>10, LimitsSaveIs
<1>11. ASSUME NEW f \in Limits(k)!Forms, Limits(k)!checkEffective(f) PROVE Limits(k)!SlotsFormed'
  BY <1>11, LimitsUnkeptIs DEF Limits!checkEffective, Limits!SlotsFormed
<1>12. ASSUME NEW f \in Limits(k)!Forms, NEW v \in Limits(k)!Values(f),
              Limits(k)!PlayerUpdates(f, v) PROVE Limits(k)!SlotsFormed'
  BY <1>12, LimitsUnkeptIs DEF Limits!PlayerUpdates, Limits!SlotsFormed
<1>13. CASE UNCHANGED Limits(k)!vars
  BY <1>13 DEF Limits!vars, Limits!SlotsFormed, Limits!RowFormed, Limits!PageFormed
<1>. QED
  BY <1>1, <1>2, <1>3, <1>4, <1>5, <1>6, <1>7, <1>8, <1>9, <1>10, <1>11, <1>12, <1>13 DEF
      Limits!Next, Limits!Manager

(* Only a form that is changed by hand may differ from the setting. *)
LEMMA LimitsEditKeepsFresh ==
  ASSUME NEW k \in DOMAIN LimitPages, Limits(k)!FreshInv, NEW f \in Limits(k)!Forms,
         UNCHANGED <<x1, x4, x6, x8, x9>>,
         x7' = x7 \cup {f}, \A g \in Limits(k)!Forms : g # f => x3'[g] = x3[g],
         \A g \in Limits(k)!Forms : g # f => (g \in x5' <=> g \in x5)
  PROVE  Limits(k)!FreshInv'
<1>1. Limits(k)!Out("load")' = Limits(k)!Out("load") /\ Limits(k)!LoadIsDue' = Limits(k)!LoadIsDue
  BY DEF Limits!Out, Limits!LoadIsDue
<1>2. \A g \in Limits(k)!Untouched' : g \in Limits(k)!Untouched /\ g # f /\ g \in Limits(k)!Forms
  BY DEF Limits!Untouched
<1>3. \A g \in Limits(k)!Untouched' : Limits(k)!ShownAs(g, x1[g]) => Limits(k)!ShownAs(g, x1[g])'
  BY <1>2 DEF Limits!ShownAs
<1>. QED
  BY <1>1, <1>2, <1>3 DEF Limits!FreshInv

(* A request that is no load comes or goes. *)
LEMMA LimitsOtherKeepsFresh ==
  ASSUME NEW k \in DOMAIN LimitPages, Limits(k)!FreshInv, NEW s \in LimitPages[k].Slots, x6[s].op # "load",
         x6'[s].op # "load",
         x6[s].op # "save" \/ x6[s].state # "served", x6'[s].op # "save" \/ x6'[s].state # "served",
         \A t \in LimitPages[k].Slots : t # s => x6'[t] = x6[t],
         UNCHANGED <<x1, Limits(k)!page, x8>>, x9 => x9'
  PROVE  Limits(k)!FreshInv'
<1>1. Limits(k)!Out("load")' = Limits(k)!Out("load")
  BY DEF Limits!Out
<1>2. Limits(k)!LoadIsDue => Limits(k)!LoadIsDue'
  BY DEF Limits!Out, Limits!LoadIsDue
<1>3. \A t \in Limits(k)!Out("load") : x6'[t] = x6[t]
  BY DEF Limits!Out
<1>4. \A g \in Limits(k)!Untouched : Limits(k)!ShownAs(g, x1[g]) => Limits(k)!ShownAs(g, x1[g])'
  BY DEF Limits!ShownAs, Limits!page
<1>5. Limits(k)!Untouched' = Limits(k)!Untouched
  BY DEF Limits!Untouched, Limits!page
<1>. QED
  BY <1>1, <1>2, <1>3, <1>4, <1>5 DEF Limits!FreshInv

LEMMA LimitsStepFresh ==
  ASSUME NEW k \in DOMAIN LimitPages, Limits(k)!PlayLimitSettingAssumption, Limits(k)!RowFormed,
         Limits(k)!PageFormed, Limits(k)!SlotsFormed, Limits(k)!FreshInv,
           Limits(k)!Next \/ UNCHANGED Limits(k)!vars
  PROVE  Limits(k)!FreshInv'
<1>1. ASSUME NEW s \in LimitPages[k].Slots, Limits(k)!ServeLoad(s) PROVE Limits(k)!FreshInv'
  <2>1. x6[s].op = "load" /\ x6[s] \in Limits(k)!Requests
          /\ x6 \in [LimitPages[k].Slots -> Limits(k)!Requests]
    BY <1>1, LimitsNewRequests, Zenon DEF Limits!ServeLoad, Limits!SlotsFormed
  <2>2. PICK q : q = [x6[s] EXCEPT !.state = "served", !.data = x1]
    OBVIOUS
  <2>3. q.op = "load" /\ q.data = x1
    BY <2>1, <2>2 DEF Limits!Requests
  <2>4. x6' = [x6 EXCEPT ![s] = q] /\ x1' = x1
    BY <1>1, <2>2, Zenon DEF Limits!ServeLoad
  <2>5. x6'[s] = q
    BY <2>1, <2>4
  <2>6. s \in Limits(k)!Out("load")'
    BY <2>3, <2>5 DEF Limits!Out
  <2>. QED
    BY <2>3, <2>4, <2>5, <2>6 DEF Limits!FreshInv
<1>2. ASSUME NEW s \in LimitPages[k].Slots, Limits(k)!getPlayerResponsibilities(s) PROVE Limits(k)!FreshInv'
  <2>. SUFFICES ASSUME ~x9', ~x8', ~Limits(k)!LoadIsDue'
                PROVE  Limits(k)!FreshInv'
    BY DEF Limits!FreshInv
  <2>1. /\ x6[s].op = "load" /\ x6[s].state = "served" /\ x6' = [x6 EXCEPT ![s] = Limits(k)!Free]
        /\ x9' = (x9 \/ Limits(k)!Out("load") # {s}) /\ UNCHANGED <<x1, x8>>
        /\ Limits(k)!renderPlayerResponsibilities(x6[s].data)
    BY <1>2 DEF Limits!getPlayerResponsibilities
  <2>2. x6'[s].op = "free" /\ \A t \in LimitPages[k].Slots : t # s => x6'[t] = x6[t]
    BY <2>1, LimitsNewRequests, Zenon DEF Limits!SlotsFormed
  <2>3. ~Limits(k)!LoadIsDue /\ Limits(k)!Out("load") = {s} /\ ~x9 /\ ~x8
    <3>1. Limits(k)!Out("load") = {s} /\ ~x9 /\ ~x8
      BY <2>1, Zenon
    <3>2. \A t \in Limits(k)!Out("save") : t \in Limits(k)!Out("save")' /\ x6'[t] = x6[t]
      BY <2>1, <2>2 DEF Limits!Out
    <3>3. Limits(k)!LoadIsDue => Limits(k)!LoadIsDue'
      BY <3>2 DEF Limits!LoadIsDue
    <3>. QED
      BY <3>1, <3>3
  <2>4. x6[s].data = x1
    BY <2>1, <2>3 DEF Limits!FreshInv
  <2>5. Limits(k)!Out("load")' = {}
    BY <2>2, <2>3 DEF Limits!Out
  <2>6. ASSUME NEW f \in Limits(k)!Forms
        PROVE  Limits(k)!ShownAs(f, x1[f])'
    <3>1. /\ x1' = x1 /\ x1 \in [Limits(k)!Forms -> Limits(k)!Settings] /\ x1[f] \in Limits(k)!Rows(f)
               /\ Limits(k)!Reachable(f, x1[f])
      BY <2>1 DEF Limits!RowFormed
    <3>2. /\ x3'[f] = Limits(k)!handleMessage(f, x1[f])
          /\ f \in x5' <=> x1[f].pending
          /\ x4'[f] = Limits(k)!updateCurrentLimit(f, x1[f])
      BY <2>1, <2>4 DEF Limits!renderPlayerResponsibilities
    <3>3. ~x1[f].pending => x1[f].cur = x1[f].new
      BY <3>1, LimitsRowIs
    <3>4. x1[f].pending /\ f \in LimitPages[k].Amounts => x1[f].cur # Limits(k)!NoLimit
      <4>1. f \in LimitPages[k].Amounts => f \notin LimitPages[k].Exclusions
        BY DEF Limits!PlayLimitSettingAssumption
      <4>. QED
        BY <3>1, <4>1 DEF Limits!Reachable, Limits!AtOnce, Limits!LimitAtOnce
    <3>5. x3'[f] = x1[f].new
      BY <3>2, <3>3, <3>4 DEF Limits!handleMessage
    <3>6. x4'[f] # x1[f].cur => f \in LimitPages[k].Amounts /\ x1[f].cur = Limits(k)!NoLimit
      BY <3>2 DEF Limits!updateCurrentLimit
    <3>. QED
      BY <3>1, <3>2, <3>5, <3>6 DEF Limits!ShownAs
  <2>7. \A f \in Limits(k)!Untouched' : f \in Limits(k)!Forms
    BY DEF Limits!Untouched
  <2>. QED
    BY <2>5, <2>6, <2>7 DEF Limits!FreshInv
<1>3. ASSUME NEW s \in LimitPages[k].Slots, Limits(k)!updatePlayerResponsibility(s) PROVE Limits(k)!FreshInv'
  <2>1. x6'[s].op = "save" /\ x6'[s].state = "served"
    BY <1>3, LimitsTakenKeeps DEF Limits!updatePlayerResponsibility
  <2>2. s \in Limits(k)!Out("save")'
    BY <2>1 DEF Limits!Out
  <2>3. Limits(k)!LoadIsDue'
    BY <2>1, <2>2 DEF Limits!LoadIsDue
  <2>. QED
    BY <2>3 DEF Limits!FreshInv
<1>4. ASSUME NEW s \in LimitPages[k].Slots, Limits(k)!Saved(s) PROVE Limits(k)!FreshInv'
  <2>1. x6' = [x6 EXCEPT ![s] = Limits(k)!Load]
    BY <1>4 DEF Limits!Saved
  <2>2. x6'[s].op = "load" /\ x6'[s].state = "asked"
    BY <2>1, LimitsNewRequests, Zenon DEF Limits!SlotsFormed
  <2>3. s \in Limits(k)!Out("load")'
    BY <2>2 DEF Limits!Out
  <2>. QED
    BY <2>2, <2>3 DEF Limits!FreshInv
<1>5. ASSUME NEW s \in LimitPages[k].Slots, Limits(k)!Fail(s) PROVE Limits(k)!FreshInv'
  <2>1. /\ x6' = [x6 EXCEPT ![s] = Limits(k)!Free] /\ UNCHANGED <<x1, Limits(k)!page, x8>>
        /\ x9' = (x9 \/ x6[s].op = "load" \/ x6[s].state = "served")
    BY <1>5 DEF Limits!Fail
  <2>2. x6'[s].op = "free" /\ \A t \in LimitPages[k].Slots : t # s => x6'[t] = x6[t]
    BY <2>1, LimitsNewRequests, Zenon DEF Limits!SlotsFormed
  <2>3. CASE x9'
    BY <2>3 DEF Limits!FreshInv
  <2>4. CASE ~x9'
    BY <2>1, <2>2, <2>4, LimitsOtherKeepsFresh, Zenon
  <2>. QED
    BY <2>3, <2>4
<1>6. ASSUME NEW f \in Limits(k)!Forms, NEW v \in LimitPages[k].Typed,
             Limits(k)!onChangeSeparator(f, v) PROVE Limits(k)!FreshInv'
  <2>1. Limits(k)!SetInput(f, Limits(k)!Clamp(v))
    BY <1>6 DEF Limits!onChangeSeparator
  <2>2. \A g \in Limits(k)!Forms : g # f => x3'[g] = x3[g]
    BY <2>1 DEF Limits!SetInput, Limits!PageFormed
  <2>. QED
    BY <2>1, <2>2, LimitsEditKeepsFresh DEF Limits!SetInput
<1>7. ASSUME NEW f \in Limits(k)!Forms, NEW v \in LimitPages[k].Choices,
             Limits(k)!Choose(f, v) PROVE Limits(k)!FreshInv'
  <2>1. Limits(k)!SetInput(f, v)
    BY <1>7 DEF Limits!Choose
  <2>2. \A g \in Limits(k)!Forms : g # f => x3'[g] = x3[g]
    BY <2>1 DEF Limits!SetInput, Limits!PageFormed
  <2>. QED
    BY <2>1, <2>2, LimitsEditKeepsFresh DEF Limits!SetInput
<1>8. ASSUME NEW f \in Limits(k)!Forms, Limits(k)!clearText(f) PROVE Limits(k)!FreshInv'
  <2>1. Limits(k)!SetInput(f, Limits(k)!NoLimit)
    BY <1>8 DEF Limits!clearText
  <2>2. \A g \in Limits(k)!Forms : g # f => x3'[g] = x3[g]
    BY <2>1 DEF Limits!SetInput, Limits!PageFormed
  <2>. QED
    BY <2>1, <2>2, LimitsEditKeepsFresh DEF Limits!SetInput
<1>9. ASSUME NEW f \in Limits(k)!Forms, Limits(k)!CancelRequest(f) PROVE Limits(k)!FreshInv'
  <2>1. (\A g \in Limits(k)!Forms : g # f => x3'[g] = x3[g]) /\ \A g \in Limits(k)!Forms :
          g # f => (g \in x5' <=> g \in x5)
    BY <1>9 DEF Limits!CancelRequest, Limits!PageFormed
  <2>. QED
    BY <1>9, <2>1, LimitsEditKeepsFresh DEF Limits!CancelRequest
<1>10. ASSUME NEW f \in Limits(k)!Forms, Limits(k)!saveAction(f) PROVE Limits(k)!FreshInv'
  <2>1. PICK s \in LimitPages[k].Slots :
          /\ x6[s] = Limits(k)!Free /\ x6'[s].op = "save" /\ x6'[s].state = "asked"
          /\ \A t \in LimitPages[k].Slots : t # s => x6'[t] = x6[t]
    BY <1>10, LimitsSaveIs
  <2>2. UNCHANGED <<x1, Limits(k)!page, x8>> /\ x9' = x9
    BY <1>10 DEF Limits!saveAction, Limits!page
  <2>. QED
    BY <2>1, <2>2, LimitsNewRequests, LimitsOtherKeepsFresh, Zenon
<1>11. ASSUME NEW f \in Limits(k)!Forms, Limits(k)!checkEffective(f) PROVE Limits(k)!FreshInv'
  BY <1>11 DEF Limits!checkEffective, Limits!FreshInv
<1>12. ASSUME NEW f \in Limits(k)!Forms, NEW v \in Limits(k)!Values(f),
              Limits(k)!PlayerUpdates(f, v) PROVE Limits(k)!FreshInv'
  BY <1>12 DEF Limits!PlayerUpdates, Limits!FreshInv
<1>13. CASE UNCHANGED Limits(k)!vars
  BY <1>13 DEF Limits!vars, Limits!FreshInv, Limits!Out, Limits!LoadIsDue,
      Limits!Untouched, Limits!ShownAs
<1>. QED
  BY <1>1, <1>2, <1>3, <1>4, <1>5, <1>6, <1>7, <1>8, <1>9, <1>10, <1>11, <1>12, <1>13 DEF
      Limits!Next, Limits!Manager

(* A slot takes a request without the mark; the settings stay.             *)
LEMMA LimitsSlotKeepsKept ==
  ASSUME NEW k \in DOMAIN LimitPages, Limits(k)!KeptInv, NEW s \in LimitPages[k].Slots, ~x6'[s].kept,
         \A t \in LimitPages[k].Slots : t # s => x6'[t] = x6[t],
         x1' = x1
  PROVE  Limits(k)!KeptInv'
BY DEF Limits!KeptInv

(* A setting changes and the saves of its form lose the mark.              *)
LEMMA LimitsUnkeptKeepsKept ==
  ASSUME NEW k \in DOMAIN LimitPages, Limits(k)!SlotsFormed, Limits(k)!KeptInv, NEW f \in Limits(k)!Forms,
         x6' = Limits(k)!Unkept(f), \A g \in Limits(k)!Forms : g # f => x1'[g] = x1[g]
  PROVE  Limits(k)!KeptInv'
<1>1. \A t \in LimitPages[k].Slots :
    /\ x6'[t].op = x6[t].op /\ x6'[t].form = x6[t].form
    /\ x6'[t].val = x6[t].val
    /\ x6'[t].kept => x6[t].kept /\ x6[t].form # f
  BY LimitsUnkeptIs
<1>2. \A t \in LimitPages[k].Slots : x6[t].op = "save" => x6[t].form \in Limits(k)!Forms
  BY DEF Limits!SlotsFormed, Limits!Fits
<1>. QED
  BY <1>1, <1>2 DEF Limits!KeptInv

LEMMA LimitsStepKept ==
  ASSUME NEW k \in DOMAIN LimitPages, Limits(k)!PlayLimitSettingAssumption, Limits(k)!IInv,
         Limits(k)!Next \/ UNCHANGED Limits(k)!vars
  PROVE  Limits(k)!KeptInv'
<1>. USE DEF Limits!IInv
<1>1. ASSUME NEW s \in LimitPages[k].Slots, Limits(k)!ServeLoad(s) PROVE Limits(k)!KeptInv'
  <2>1. x6[s] \in Limits(k)!Requests /\ x6 \in [LimitPages[k].Slots -> Limits(k)!Requests] /\ ~x6[s].kept
    BY <1>1, LimitsNewRequests, Zenon DEF Limits!ServeLoad, Limits!SlotsFormed
  <2>2. PICK q : q = [x6[s] EXCEPT !.state = "served", !.data = x1]
    OBVIOUS
  <2>3. ~q.kept
    BY <2>1, <2>2 DEF Limits!Requests
  <2>4. x6' = [x6 EXCEPT ![s] = q] /\ x1' = x1
    BY <1>1, <2>2, Zenon DEF Limits!ServeLoad
  <2>5. ~x6'[s].kept /\ \A t \in LimitPages[k].Slots : t # s => x6'[t] = x6[t]
    BY <2>1, <2>3, <2>4
  <2>. QED
    BY <2>4, <2>5, LimitsSlotKeepsKept
<1>2. ASSUME NEW s \in LimitPages[k].Slots, Limits(k)!getPlayerResponsibilities(s) PROVE Limits(k)!KeptInv'
  <2>1. x6' = [x6 EXCEPT ![s] = Limits(k)!Free] /\ x1' = x1
    BY <1>2 DEF Limits!getPlayerResponsibilities
  <2>2. ~x6'[s].kept /\ \A t \in LimitPages[k].Slots : t # s => x6'[t] = x6[t]
    BY <2>1, LimitsNewRequests, Zenon DEF Limits!SlotsFormed
  <2>. QED
    BY <2>1, <2>2, LimitsSlotKeepsKept
<1>3. ASSUME NEW s \in LimitPages[k].Slots, Limits(k)!updatePlayerResponsibility(s) PROVE Limits(k)!KeptInv'
  <2>1. x6[s].op = "save" /\ x6[s].form \in Limits(k)!Forms /\ x6[s].val \in Limits(k)!Values(x6[s].form)
    BY <1>3 DEF Limits!updatePlayerResponsibility, Limits!SlotsFormed, Limits!Fits
  <2>2. Limits(k)!Change(x6[s].form, x6[s].val)
    BY <1>3 DEF Limits!updatePlayerResponsibility
  <2>3. /\ x1'[x6[s].form].new = x6[s].val
        /\ \A g \in Limits(k)!Forms : g # x6[s].form => x1'[g] = x1[g]
    BY <2>1, <2>2, LimitsChangeKeeps
  <2>4. /\ x6'[s].op = "save" /\ x6'[s].form = x6[s].form /\ x6'[s].val = x6[s].val
        /\ \A t \in LimitPages[k].Slots : t # s =>
             /\ x6'[t].op = x6[t].op /\ x6'[t].form = x6[t].form /\ x6'[t].val = x6[t].val
             /\ x6'[t].kept => x6[t].kept /\ x6[t].form # x6[s].form
    BY <1>3, <2>1, LimitsTakenKeeps DEF Limits!updatePlayerResponsibility
  <2>5. \A t \in LimitPages[k].Slots : x6[t].op = "save" => x6[t].form \in Limits(k)!Forms
    BY DEF Limits!SlotsFormed, Limits!Fits
  <2>6. ASSUME NEW t \in LimitPages[k].Slots, x6'[t].kept
        PROVE  x6'[t].op = "save" /\ x6'[t].val = x1'[x6'[t].form].new
    <3>1. CASE t = s
      BY <2>3, <2>4, <3>1
    <3>2. CASE t # s
      BY <2>3, <2>4, <2>5, <2>6, <3>2 DEF Limits!KeptInv
    <3>. QED
      BY <3>1, <3>2
  <2>. QED
    BY <2>6 DEF Limits!KeptInv
<1>4. ASSUME NEW s \in LimitPages[k].Slots, Limits(k)!Saved(s) PROVE Limits(k)!KeptInv'
  <2>1. x6' = [x6 EXCEPT ![s] = Limits(k)!Load] /\ x1' = x1
    BY <1>4 DEF Limits!Saved
  <2>2. ~x6'[s].kept /\ \A t \in LimitPages[k].Slots : t # s => x6'[t] = x6[t]
    BY <2>1, LimitsNewRequests, Zenon DEF Limits!SlotsFormed
  <2>. QED
    BY <2>1, <2>2, LimitsSlotKeepsKept
<1>5. ASSUME NEW s \in LimitPages[k].Slots, Limits(k)!Fail(s) PROVE Limits(k)!KeptInv'
  <2>1. x6' = [x6 EXCEPT ![s] = Limits(k)!Free] /\ x1' = x1
    BY <1>5 DEF Limits!Fail
  <2>2. ~x6'[s].kept /\ \A t \in LimitPages[k].Slots : t # s => x6'[t] = x6[t]
    BY <2>1, LimitsNewRequests, Zenon DEF Limits!SlotsFormed
  <2>. QED
    BY <2>1, <2>2, LimitsSlotKeepsKept
<1>6. ASSUME NEW f \in Limits(k)!Forms, NEW v \in LimitPages[k].Typed,
             Limits(k)!onChangeSeparator(f, v) PROVE Limits(k)!KeptInv'
  BY <1>6 DEF Limits!onChangeSeparator, Limits!SetInput, Limits!KeptInv
<1>7. ASSUME NEW f \in Limits(k)!Forms, NEW v \in LimitPages[k].Choices,
             Limits(k)!Choose(f, v) PROVE Limits(k)!KeptInv'
  BY <1>7 DEF Limits!Choose, Limits!SetInput, Limits!KeptInv
<1>8. ASSUME NEW f \in Limits(k)!Forms, Limits(k)!clearText(f) PROVE Limits(k)!KeptInv'
  BY <1>8 DEF Limits!clearText, Limits!SetInput, Limits!KeptInv
<1>9. ASSUME NEW f \in Limits(k)!Forms, Limits(k)!CancelRequest(f) PROVE Limits(k)!KeptInv'
  BY <1>9 DEF Limits!CancelRequest, Limits!KeptInv
<1>10. ASSUME NEW f \in Limits(k)!Forms, Limits(k)!saveAction(f) PROVE Limits(k)!KeptInv'
  <2>1. PICK s \in LimitPages[k].Slots :
          /\ x6[s] = Limits(k)!Free /\ x6'[s].op = "save"
          /\ x6'[s].form = f /\ x6'[s].val = Limits(k)!Collected(f)
          /\ x6'[s].kept => f \notin x7 /\ Limits(k)!Quiet /\ ~x8 /\ ~x9
          /\ \A t \in LimitPages[k].Slots : t # s => x6'[t] = x6[t]
    BY <1>10, LimitsSaveIs
  <2>2. x1' = x1
    BY <1>10 DEF Limits!saveAction
  <2>3. ASSUME f \notin x7, Limits(k)!Quiet, ~x8, ~x9
        PROVE  Limits(k)!Collected(f) = x1[f].new
    <3>1. Limits(k)!Out("load") = {} /\ ~Limits(k)!LoadIsDue
      BY <2>3, LimitsNewRequests, Zenon DEF Limits!Quiet, Limits!Out, Limits!LoadIsDue
    <3>2. Limits(k)!ShownAs(f, x1[f])
      BY <2>3, <3>1 DEF Limits!FreshInv, Limits!Untouched
    <3>3. x1[f].new \in Limits(k)!Values(f)
      BY LimitsRowIs DEF Limits!RowFormed
    <3>. QED
      BY <3>2, <3>3, LimitsCollectedIs DEF Limits!ShownAs
  <2>4. x6'[s].kept => x6'[s].val = x1'[x6'[s].form].new
    BY <2>1, <2>2, <2>3
  <2>. QED
    BY <2>1, <2>2, <2>4 DEF Limits!KeptInv
<1>11. ASSUME NEW f \in Limits(k)!Forms, Limits(k)!checkEffective(f) PROVE Limits(k)!KeptInv'
  <2>1. \A g \in Limits(k)!Forms : g # f => x1'[g] = x1[g]
    BY <1>11 DEF Limits!checkEffective, Limits!RowFormed
  <2>. QED
    BY <1>11, <2>1, LimitsUnkeptKeepsKept DEF Limits!checkEffective
<1>12. ASSUME NEW f \in Limits(k)!Forms, NEW v \in Limits(k)!Values(f),
              Limits(k)!PlayerUpdates(f, v) PROVE Limits(k)!KeptInv'
  <2>1. \A g \in Limits(k)!Forms : g # f => x1'[g] = x1[g]
    BY <1>12 DEF Limits!PlayerUpdates, Limits!Change, Limits!RowFormed
  <2>. QED
    BY <1>12, <2>1, LimitsUnkeptKeepsKept DEF Limits!PlayerUpdates
<1>13. CASE UNCHANGED Limits(k)!vars
  BY <1>13 DEF Limits!vars, Limits!KeptInv
<1>. QED
  BY <1>1, <1>2, <1>3, <1>4, <1>5, <1>6, <1>7, <1>8, <1>9, <1>10, <1>11, <1>12, <1>13 DEF
      Limits!Next, Limits!Manager

LEMMA LimitsInitIInv ==
  ASSUME NEW k \in DOMAIN LimitPages, Limits(k)!PlayLimitSettingAssumption, Limits(k)!Init
  PROVE  Limits(k)!IInv
<1>1. \A f \in Limits(k)!Forms :
        Limits(k)!Active(Limits(k)!NoLimit) \in Limits(k)!Rows(f)
          /\ Limits(k)!Active(Limits(k)!NoLimit) \in Limits(k)!Settings
                       /\ Limits(k)!NoLimit \in Limits(k)!Values(f) /\ Limits(k)!NoLimit \in Int
  BY LimitsValuesAre, LimitsRowIs
<1>2. \A f \in Limits(k)!Forms : x1[f] \in Limits(k)!Rows(f) /\ Limits(k)!Reachable(f, x1[f])
  BY DEF Limits!Init
<1>3. x1 = [f \in Limits(k)!Forms |-> x1[f]]
  BY DEF Limits!Init
<1>4. Limits(k)!RowFormed
  <2>1. \A f \in Limits(k)!Forms : x1[f] \in Limits(k)!Settings
    BY <1>2, LimitsRowIs
  <2>. QED
    BY <1>2, <1>3, <2>1 DEF Limits!RowFormed
<1>5. Limits(k)!PageFormed
  BY <1>1 DEF Limits!Init, Limits!PageFormed, Limits!NoRows
<1>6. PICK s \in LimitPages[k].Slots :
             x6 = [t \in LimitPages[k].Slots |-> IF t = s THEN Limits(k)!Load ELSE Limits(k)!Free]
  BY DEF Limits!Init
<1>7. x6[s] = Limits(k)!Load /\ \A t \in LimitPages[k].Slots :
        x6[t] = IF t = s THEN Limits(k)!Load ELSE Limits(k)!Free
  BY <1>6
<1>8. Limits(k)!SlotsFormed
  <2>1. Limits(k)!Load \in Limits(k)!Requests /\ Limits(k)!Free \in Limits(k)!Requests
          /\ \A t \in LimitPages[k].Slots : Limits(k)!Fits(x6[t])
    BY <1>7, LimitsNewRequests, Zenon DEF Limits!Fits
  <2>. QED
    BY <1>6, <2>1 DEF Limits!SlotsFormed
<1>9. Limits(k)!KeptInv
  BY <1>7, LimitsNewRequests, Zenon DEF Limits!KeptInv
<1>10. s \in Limits(k)!Out("load") /\ x6[s].state # "served"
  BY <1>7, LimitsNewRequests, Zenon DEF Limits!Out
<1>11. Limits(k)!FreshInv
  BY <1>10 DEF Limits!FreshInv
<1>. QED
  BY <1>4, <1>5, <1>8, <1>9, <1>11 DEF Limits!IInv

LEMMA LimitsNextIInv ==
  ASSUME NEW k \in DOMAIN LimitPages, Limits(k)!PlayLimitSettingAssumption, Limits(k)!IInv,
         Limits(k)!Next \/ UNCHANGED Limits(k)!vars
  PROVE  Limits(k)!IInv' /\ Limits(k)!UneditedSaveKeeps
<1>1. ASSUME NEW s \in LimitPages[k].Slots, x6[s].kept, Limits(k)!updatePlayerResponsibility(s)
      PROVE  x1' = x1
  <2>1. x6[s].op = "save" /\ x6[s].form \in Limits(k)!Forms /\ x6[s].val \in Limits(k)!Values(x6[s].form)
    BY <1>1 DEF Limits!updatePlayerResponsibility, Limits!IInv, Limits!SlotsFormed,
        Limits!Fits
  <2>2. Limits(k)!Change(x6[s].form, x6[s].val)
    BY <1>1 DEF Limits!updatePlayerResponsibility
  <2>3. x6[s].val = x1[x6[s].form].new
    BY <1>1 DEF Limits!IInv, Limits!KeptInv
  <2>. QED
    BY <2>1, <2>2, <2>3, LimitsChangeKeeps DEF Limits!IInv
<1>. QED
  BY <1>1, LimitsStepRow, LimitsStepPage, LimitsStepSlots, LimitsStepFresh, LimitsStepKept DEF
      Limits!IInv, Limits!UneditedSaveKeeps

LEMMA LimitsIInvImplies ==
  ASSUME NEW k \in DOMAIN LimitPages, Limits(k)!PlayLimitSettingAssumption, Limits(k)!IInv
  PROVE  Limits(k)!TypeOK /\ Limits(k)!QuietPageIsFresh
<1>1. \A f \in Limits(k)!Forms :
        x3[f] \in Limits(k)!Values(f) \cup {Limits(k)!Clamp(v) : v \in LimitPages[k].Typed}
  BY DEF Limits!IInv, Limits!PageFormed
<1>2. \A s \in LimitPages[k].Slots : x6[s].op \in {"free", "load", "save"}
  BY DEF Limits!IInv, Limits!SlotsFormed, Limits!Requests
<1>3. Limits(k)!TypeOK
  BY <1>1, <1>2 DEF Limits!IInv, Limits!RowFormed, Limits!PageFormed, Limits!TypeOK
<1>4. Limits(k)!InStep => Limits(k)!Out("load") = {} /\ ~Limits(k)!LoadIsDue
  BY LimitsNewRequests, Zenon DEF Limits!InStep, Limits!Quiet, Limits!Out, Limits!LoadIsDue
<1>. QED
  BY <1>3, <1>4 DEF Limits!IInv, Limits!FreshInv, Limits!InStep, Limits!QuietPageIsFresh,
      Limits!ShownAs

(* The invariant of the pages of this script. *)
LimitsInv == \A k \in On("limits", LimitPages) : Limits(k)!IInv

LEMMA LimitsBegins ==
  ASSUME MemberInit
  PROVE  LimitsInv
<1>. SUFFICES ASSUME NEW k \in On("limits", LimitPages)
         PROVE  Limits(k)!IInv
  BY DEF LimitsInv
<1>1. k \in DOMAIN LimitPages /\ script = "limits" /\ page = k
  BY DEF On
<1>2. Limits(k)!Init
  BY <1>1 DEF MemberInit
<1>3. Limits(k)!PlayLimitSettingAssumption
  BY <1>1, MemberPagesAreSound DEF MemberPagesAssumption
<1>. QED
  BY <1>1, <1>2, LimitsInitIInv, <1>3

LEMMA LimitsGoesOn ==
  ASSUME LimitsInv, MemberStep
  PROVE  /\ LimitsInv'
         /\ \A k \in On("limits", LimitPages) : Limits(k)!UneditedSaveKeeps
<1>1. script' = script /\ page' = page
  BY MemberStays
<1>2. ASSUME NEW k \in On("limits", LimitPages)
      PROVE  Limits(k)!IInv' /\ Limits(k)!UneditedSaveKeeps
  <2>1. k \in DOMAIN LimitPages /\ script = "limits" /\ page = k
    BY DEF On
  <2>2. Limits(k)!Next \/ UNCHANGED Limits(k)!vars
    BY <2>1 DEF MemberStep, MemberNext, On, vars, Limits!vars
  <2>3. Limits(k)!PlayLimitSettingAssumption
    BY <2>1, MemberPagesAreSound DEF MemberPagesAssumption
  <2>4. Limits(k)!IInv
    BY DEF LimitsInv
  <2>. QED
    BY <2>1, <2>2, LimitsNextIInv, <2>3, <2>4
<1>3. On("limits", LimitPages)' = On("limits", LimitPages)
  BY <1>1 DEF On
<1>. QED
  BY <1>2, <1>3 DEF LimitsInv

LEMMA LimitsShows ==
  ASSUME LimitsInv
  PROVE  /\ \A k \in On("limits", LimitPages) : Limits(k)!TypeOK
         /\ \A k \in On("limits", LimitPages) : Limits(k)!QuietPageIsFresh
<1>. SUFFICES ASSUME NEW k \in On("limits", LimitPages)
         PROVE  Limits(k)!TypeOK /\ Limits(k)!QuietPageIsFresh
  OBVIOUS
<1>1. k \in DOMAIN LimitPages /\ Limits(k)!IInv
  BY DEF On, LimitsInv
<1>2. Limits(k)!PlayLimitSettingAssumption
  BY <1>1, MemberPagesAreSound DEF MemberPagesAssumption
<1>. QED
  BY <1>1, LimitsIInvImplies, <1>2

-----------------------------------------------------------------------------
(***************************************************************************)
(* UpdateLog (Log): x1 is stored, x2 is job, x3 is log, x4 is left, x5 is  *)
(* asked, x6 is dialog, x7 is clicked.                                     *)
(***************************************************************************)
LEMMA LogKindsAre ==
  ASSUME NEW k \in DOMAIN LogPages, Log(k)!UpdateLogAssumption
  PROVE  /\ Log(k)!Kinds = {"photo", "expiry", "kyc", "status", "card", "bank"}
              /\ Log(k)!Document = {"photo", "expiry", "kyc"}
         /\ LogPages[k].None \in Log(k)!Content /\ LogPages[k].Values \subseteq Log(k)!Content
              /\ LogPages[k].None \notin LogPages[k].Values /\ LogPages[k].Readable \subseteq Log(k)!Content
         /\ Log(k)!Dash \in Log(k)!Sides /\ Log(k)!Empty \in Log(k)!Sides /\ \A v \in Log(k)!Content :
              Log(k)!Text(v) \in Log(k)!Sides
BY DEF Log!UpdateLogAssumption, Log!Kinds, Log!Document, Log!Content, Log!Dash,
    Log!Empty, Log!Text, Log!Sides

LEMMA LogInitIInv ==
  ASSUME NEW k \in DOMAIN LogPages, Log(k)!UpdateLogAssumption, Log(k)!Init
  PROVE  Log(k)!IInv
<1>1. (CHOOSE v \in LogPages[k].Values : TRUE) \in LogPages[k].Values
  BY DEF Log!UpdateLogAssumption
<1>2. x1 \in [Log(k)!Kinds -> Log(k)!Content] /\ x1["status"] # LogPages[k].None
  BY <1>1, LogKindsAre DEF Log!Init
<1>3. Log(k)!TypeOK
  <2>1. \A m \in LogPages[k].Managers : x2[m] = {} /\ Log(k)!Cardinality(x2[m]) <= 1
    <3>1. Cardinality({}) = 0
      BY FS_EmptySet
    <3>2. Log(k)!Cardinality({}) = 0
      BY <3>1 DEF Log!Cardinality, Cardinality
    <3>. QED
      BY <3>2 DEF Log!Init
  <2>2. x5 \in Log(k)!Content /\ x6 \in [open : BOOLEAN, shows : Log(k)!Content]
    BY LogKindsAre DEF Log!Init
  <2>. QED
    BY <1>2, <2>1, <2>2 DEF Log!TypeOK
<1>4. Log(k)!JobInv
  BY DEF Log!Init, Log!JobInv
<1>5. Log(k)!LogInv
  BY DEF Log!Init, Log!LogInv, Log!EveryRowIsDrawn
<1>6. Log(k)!PageInv
  BY LogKindsAre DEF Log!Init, Log!PageInv, Log!ImageOfLastClick
<1>7. Log(k)!LastInv
  <2>1. x3["photo"] = <<>> /\ \A key \in Log(k)!Kinds : x3[key] = <<>>
    BY LogKindsAre DEF Log!Init
  <2>2. \A m \in LogPages[k].Managers : x2[m] = {}
    BY DEF Log!Init
  <2>3. x1["photo"] = LogPages[k].None
    BY LogKindsAre DEF Log!Init
  <2>. QED
    BY <2>1, <2>2, <2>3 DEF Log!LastInv, Log!Told
<1>. QED
  BY <1>3, <1>4, <1>5, <1>6, <1>7 DEF Log!IInv

(* The changes a handler makes. *)
LEMMA LogEditsAre ==
  ASSUME NEW k \in DOMAIN LogPages, Log(k)!UpdateLogAssumption, x1 \in [Log(k)!Kinds -> Log(k)!Content],
         NEW set \in Log(k)!DocumentEdits \cup Log(k)!StatusEdits \cup Log(k)!CardAndBankEdits
  PROVE  Log(k)!IsEdit(set, x1)
<1>1. CASE set \in Log(k)!DocumentEdits
  <2>1. CASE x1["kyc"] = LogPages[k].None
    <3>1. PICK p \in Log(k)!Content, e \in LogPages[k].Values,
                 v \in LogPages[k].Values : set = [photo |-> p, expiry |-> e, kyc |-> v]
      BY <1>1, <2>1 DEF Log!DocumentEdits
    <3>2. DOMAIN set = {"photo", "expiry", "kyc"} /\ set["photo"] = p /\ set["expiry"] = e /\ set["kyc"] = v
      BY <3>1
    <3>. QED
      BY <3>2, LogKindsAre DEF Log!IsEdit
  <2>2. CASE x1["kyc"] # LogPages[k].None /\ \E p \in Log(k)!Content,
               e \in LogPages[k].Values : set = [photo |-> p, expiry |-> e]
    <3>1. PICK p \in Log(k)!Content, e \in LogPages[k].Values : set = [photo |-> p, expiry |-> e]
      BY <2>2
    <3>2. DOMAIN set = {"photo", "expiry"} /\ set["photo"] = p /\ set["expiry"] = e
      BY <3>1
    <3>. QED
      BY <2>2, <3>2, LogKindsAre DEF Log!IsEdit
  <2>3. CASE \E e \in LogPages[k].Values : set = [expiry |-> e]
    <3>1. PICK e \in LogPages[k].Values : set = [expiry |-> e]
      BY <2>3
    <3>2. DOMAIN set = {"expiry"} /\ set["expiry"] = e
      BY <3>1
    <3>. QED
      BY <3>2, LogKindsAre DEF Log!IsEdit
  <2>. QED
    BY <1>1, <2>1, <2>2, <2>3 DEF Log!DocumentEdits
<1>2. CASE set \in Log(k)!StatusEdits
  <2>1. CASE \E v \in LogPages[k].Values : set = [kyc |-> v]
    <3>1. PICK v \in LogPages[k].Values : set = [kyc |-> v]
      BY <2>1
    <3>2. DOMAIN set = {"kyc"} /\ set["kyc"] = v
      BY <3>1
    <3>. QED
      BY <3>2, LogKindsAre DEF Log!IsEdit
  <2>2. CASE \E v \in LogPages[k].Values : set = [status |-> v]
    <3>1. PICK v \in LogPages[k].Values : set = [status |-> v]
      BY <2>2
    <3>2. DOMAIN set = {"status"} /\ set["status"] = v
      BY <3>1
    <3>. QED
      BY <3>2, LogKindsAre DEF Log!IsEdit
  <2>. QED
    BY <1>2, <2>1, <2>2 DEF Log!StatusEdits
<1>3. CASE set \in Log(k)!CardAndBankEdits
  <2>1. CASE set = [card |-> LogPages[k].None]
    <3>1. DOMAIN set = {"card"} /\ set["card"] = LogPages[k].None
      BY <2>1
    <3>. QED
      BY <3>1, LogKindsAre DEF Log!IsEdit
  <2>2. CASE \E v \in Log(k)!Content : set = [bank |-> v]
    <3>1. PICK v \in Log(k)!Content : set = [bank |-> v]
      BY <2>2
    <3>2. DOMAIN set = {"bank"} /\ set["bank"] = v
      BY <3>1
    <3>. QED
      BY <3>2, LogKindsAre DEF Log!IsEdit
  <2>. QED
    BY <1>3, <2>1, <2>2, LogKindsAre DEF Log!CardAndBankEdits
<1>. QED
  BY <1>1, <1>2, <1>3

(* The row a handler writes is one the tab draws, with both its values. *)
LEMMA LogRowIsDrawn ==
  ASSUME NEW k \in DOMAIN LogPages, Log(k)!UpdateLogAssumption, NEW j, NEW n \in Log(k)!Kinds,
         j.seen \in [Log(k)!Kinds -> Log(k)!Content], j.set[n] \in Log(k)!Content,
         n = "expiry" => j.set[n] # LogPages[k].None
  PROVE  /\ Log(k)!Row(j, n) \in Log(k)!Rows /\ Log(k)!Row(j, n).is = j.set[n]
         /\ Log(k)!searchProfileUpdateLog(n, Log(k)!Row(j, n))
              = [before |-> Log(k)!Shows(Log(k)!Row(j, n).was), after |-> Log(k)!Shows(Log(k)!Row(j, n).is)]
<1>. DEFINE b == Log(k)!Before(n, j.seen[n])
            a == IF j.set[n] = LogPages[k].None THEN Log(k)!Empty ELSE Log(k)!Text(j.set[n])
<1>1. j.seen[n] \in Log(k)!Content
  OBVIOUS
<1>2. b \in Log(k)!Sides /\ a \in Log(k)!Sides
  BY <1>1, LogKindsAre DEF Log!Before
<1>3. Log(k)!Row(j, n) = [before |-> b, was |-> j.seen[n], after |-> a, is |-> j.set[n]]
  BY DEF Log!Row
<1>4. Log(k)!getDisplayName(n, a) = Log(k)!Shows(j.set[n])
  <2>1. a.of = j.set[n] /\ a.as \in {"value", "empty"} /\ (n = "expiry" => a.as = "value")
    BY DEF Log!Empty, Log!Text
  <2>. HIDE DEF a
  <2>2. CASE n \in {"photo", "kyc"}
    BY <2>1, <2>2 DEF Log!getDisplayName
  <2>3. CASE n = "expiry"
    BY <2>1, <2>3 DEF Log!getDisplayName, Log!ShownDate, Log!convert
  <2>4. CASE n \in {"card", "bank"}
    BY <2>1, <2>4 DEF Log!getDisplayName, Log!ShownJson
  <2>5. CASE n = "status"
    BY <2>1, <2>5 DEF Log!getDisplayName
  <2>. QED
    BY <2>2, <2>3, <2>4, <2>5, LogKindsAre
<1>5. Log(k)!getDisplayName(n, b) = Log(k)!Shows(j.seen[n])
  <2>1. /\ b.of = j.seen[n] /\ b.as \in {"value", "empty", "dash"}
        /\ n \in Log(k)!Document => b.as # "empty" /\ (b.as = "dash" => b.of = LogPages[k].None)
        /\ n \notin Log(k)!Document => b.as # "dash"
    BY DEF Log!Before, Log!Empty, Log!Text, Log!Dash
  <2>. HIDE DEF b
  <2>2. CASE n \in {"photo", "kyc"}
    BY <2>1, <2>2 DEF Log!getDisplayName
  <2>3. CASE n = "expiry"
    BY <2>1, <2>3, LogKindsAre DEF Log!getDisplayName, Log!ShownDate, Log!convert
  <2>4. CASE n \in {"card", "bank"}
    BY <2>1, <2>4, LogKindsAre DEF Log!getDisplayName, Log!ShownJson
  <2>5. CASE n = "status"
    BY <2>1, <2>5, LogKindsAre DEF Log!getDisplayName
  <2>. QED
    BY <2>2, <2>3, <2>4, <2>5, LogKindsAre
<1>. HIDE DEF a, b
<1>6. Log(k)!Row(j, n) \in Log(k)!Rows
  BY <1>1, <1>2, <1>3 DEF Log!Rows
<1>7. /\ Log(k)!Row(j, n).is = j.set[n] /\ Log(k)!Row(j, n).was = j.seen[n]
      /\ Log(k)!Row(j, n).before = b /\ Log(k)!Row(j, n).after = a
  BY <1>3
<1>. QED
  BY <1>4, <1>5, <1>6, <1>7 DEF Log!searchProfileUpdateLog

(* What is logged is appended. *)
LEMMA LogLogAppends ==
  ASSUME NEW k \in DOMAIN LogPages, Log(k)!UpdateLogAssumption, Log(k)!LogInv, NEW j,
         j.seen \in [Log(k)!Kinds -> Log(k)!Content], Log(k)!Log(j),
         \A n \in DOMAIN j.set : j.set[n] \in Log(k)!Content /\ (n = "expiry" => j.set[n] # LogPages[k].None)
  PROVE  /\ Log(k)!LogInv'
         /\ \A n \in Log(k)!Kinds : IF n \in DOMAIN j.set /\ Log(k)!IsLogged(j, n)
                             THEN x3'[n] # <<>> /\ x3'[n][Len(x3'[n])].is = j.set[n]
                             ELSE x3'[n] = x3[n]
<1>0. /\ x3' = [n \in Log(k)!Kinds |-> IF n \in DOMAIN j.set /\ Log(k)!IsLogged(j, n)
           THEN Append(x3[n], Log(k)!Row(j, n)) ELSE x3[n]]
      /\ x3 \in [Log(k)!Kinds -> Seq(Log(k)!Rows)]
      /\ \A n \in Log(k)!Kinds : \A i \in DOMAIN x3[n] :
           Log(k)!searchProfileUpdateLog(n, x3[n][i])
             = [before |-> Log(k)!Shows(x3[n][i].was), after |-> Log(k)!Shows(x3[n][i].is)]
  BY DEF Log!Log, Log!LogInv, Log!EveryRowIsDrawn
<1>1. ASSUME NEW n \in Log(k)!Kinds
      PROVE  /\ x3'[n] \in Seq(Log(k)!Rows)
             /\ \A i \in DOMAIN x3'[n] :
                  Log(k)!searchProfileUpdateLog(n, x3'[n][i])
                    = [before |-> Log(k)!Shows(x3'[n][i].was), after |-> Log(k)!Shows(x3'[n][i].is)]
             /\ IF n \in DOMAIN j.set /\ Log(k)!IsLogged(j, n)
                THEN x3'[n] # <<>> /\ x3'[n][Len(x3'[n])].is = j.set[n]
                ELSE x3'[n] = x3[n]
  <2>1. CASE n \in DOMAIN j.set /\ Log(k)!IsLogged(j, n)
    <3>1. PICK r : r = Log(k)!Row(j, n)
      OBVIOUS
    <3>2. /\ r \in Log(k)!Rows /\ r.is = j.set[n]
          /\ Log(k)!searchProfileUpdateLog(n, r)
               = [before |-> Log(k)!Shows(r.was), after |-> Log(k)!Shows(r.is)]
      BY <2>1, <3>1, LogRowIsDrawn
    <3>3. PICK s : s = x3[n]
      OBVIOUS
    <3>4. s \in Seq(Log(k)!Rows) /\ x3'[n] = Append(s, r)
      BY <1>0, <2>1, <3>1, <3>3
    <3>5. /\ x3'[n] \in Seq(Log(k)!Rows) /\ Len(x3'[n]) = Len(s) + 1 /\ DOMAIN x3'[n] = 1..(Len(s) + 1)
          /\ DOMAIN s = 1..Len(s) /\ Len(s) \in Nat
          /\ x3'[n][Len(s) + 1] = r /\ \A i \in 1..Len(s) : x3'[n][i] = s[i]
      BY <3>2, <3>4
    <3>6. \A i \in DOMAIN x3'[n] : x3'[n][i] = r \/ (i \in DOMAIN s /\ x3'[n][i] = s[i])
      BY <3>5
    <3>7. \A i \in DOMAIN x3'[n] :
            Log(k)!searchProfileUpdateLog(n, x3'[n][i])
              = [before |-> Log(k)!Shows(x3'[n][i].was), after |-> Log(k)!Shows(x3'[n][i].is)]
      BY <1>0, <3>2, <3>3, <3>6
    <3>8. x3'[n] # <<>> /\ x3'[n][Len(x3'[n])].is = j.set[n]
      BY <3>2, <3>5
    <3>. QED
      BY <2>1, <3>5, <3>7, <3>8
  <2>2. CASE ~(n \in DOMAIN j.set /\ Log(k)!IsLogged(j, n))
    <3>1. x3'[n] = x3[n]
      BY <1>0, <2>2
    <3>. QED
      BY <1>0, <2>2, <3>1
  <2>. QED
    BY <2>1, <2>2
<1>2. Log(k)!LogInv'
  <2>1. x3' \in [Log(k)!Kinds -> Seq(Log(k)!Rows)]
    BY <1>0, <1>1
  <2>2. Log(k)!EveryRowIsDrawn'
    BY <1>1 DEF Log!EveryRowIsDrawn
  <2>. QED
    BY <2>1, <2>2 DEF Log!LogInv
<1>. QED
  BY <1>1, <1>2

(* The jobs of a manager are none or one. *)
LEMMA LogJobsAre ==
  ASSUME NEW k \in DOMAIN LogPages, NEW S, S = {} \/ \E j \in S : S = {j} /\ Log(k)!IsJob(j)
  PROVE  Log(k)!Cardinality(S) <= 1 /\ \A j \in S : DOMAIN j.set \subseteq Log(k)!Kinds /\ DOMAIN j.set # {}
<1>1. CASE S = {}
  <2>1. Cardinality(S) = 0
    BY <1>1, FS_EmptySet
  <2>2. Log(k)!Cardinality(S) = 0
    BY <2>1 DEF Log!Cardinality, Cardinality
  <2>. QED
    BY <1>1, <2>2
<1>2. CASE \E j \in S : S = {j} /\ Log(k)!IsJob(j)
  <2>1. PICK j \in S : S = {j} /\ Log(k)!IsJob(j)
    BY <1>2
  <2>2. Cardinality(S) = 1
    BY <2>1, FS_Singleton
  <2>3. Log(k)!Cardinality(S) = 1
    BY <2>2 DEF Log!Cardinality, Cardinality
  <2>4. \A i \in S : DOMAIN i.set \subseteq Log(k)!Kinds /\ DOMAIN i.set # {}
    BY <2>1 DEF Log!IsJob, Log!IsEdit
  <2>. QED
    BY <2>3, <2>4
<1>. QED
  BY <1>1, <1>2

(* What a handler does to the member leaves the page as it is. *)
LEMMA LogMemberKeeps ==
  ASSUME NEW k \in DOMAIN LogPages, Log(k)!IInv, x1' \in [Log(k)!Kinds -> Log(k)!Content],
         x1'["status"] # LogPages[k].None, Log(k)!JobInv', Log(k)!LogInv', Log(k)!LastInv',
           UNCHANGED Log(k)!page
  PROVE  Log(k)!IInv'
<1>1. \A m \in LogPages[k].Managers : Log(k)!Cardinality(x2'[m]) <= 1 /\ \A j \in x2'[m] :
        DOMAIN j.set \subseteq Log(k)!Kinds /\ DOMAIN j.set # {}
  <2>. TAKE m \in LogPages[k].Managers
  <2>1. x2'[m] = {} \/ \E j \in x2'[m] : x2'[m] = {j} /\ Log(k)!IsJob(j)
    BY DEF Log!JobInv
  <2>. QED
    BY <2>1, LogJobsAre, Zenon
<1>2. Log(k)!TypeOK'
  BY <1>1 DEF Log!IInv, Log!TypeOK, Log!page
<1>3. Log(k)!PageInv'
  BY DEF Log!IInv, Log!PageInv, Log!ImageOfLastClick, Log!page
<1>. QED
  BY <1>2, <1>3 DEF Log!IInv

LEMMA LogReadKeeps ==
  ASSUME NEW k \in DOMAIN LogPages, Log(k)!UpdateLogAssumption, Log(k)!IInv, NEW m \in LogPages[k].Managers,
         Log(k)!Read(m)
  PROVE  Log(k)!IInv'
<1>0. x1 \in [Log(k)!Kinds -> Log(k)!Content] /\ x1' = x1 /\ x3' = x3 /\ UNCHANGED Log(k)!page
  BY DEF Log!IInv, Log!TypeOK, Log!Read
<1>1. PICK set \in Log(k)!DocumentEdits \cup Log(k)!StatusEdits \cup Log(k)!CardAndBankEdits :
        x2' = [x2 EXCEPT ![m] = {[set |-> set, seen |-> x1, phase |-> "read"]}]
  BY Zenon DEF Log!Read
<1>2. Log(k)!IsEdit(set, x1)
  BY <1>0, LogEditsAre
<1>3. PICK j : j = [set |-> set, seen |-> x1, phase |-> "read"]
  BY Zenon
<1>4. Log(k)!IsJob(j) /\ j.phase = "read" /\ j.seen = x1
  BY <1>0, <1>2, <1>3 DEF Log!IsJob
<1>5. x2' = [x2 EXCEPT ![m] = {j}]
  BY <1>1, <1>3
<1>6. x2'[m] = {j} /\ \A n \in LogPages[k].Managers : n # m => x2'[n] = x2[n]
  BY <1>5 DEF Log!IInv, Log!JobInv
<1>7. Log(k)!JobInv'
  BY <1>4, <1>5, <1>6 DEF Log!IInv, Log!JobInv
<1>8. Log(k)!LogInv'
  BY <1>0 DEF Log!IInv, Log!LogInv, Log!EveryRowIsDrawn
<1>9. Log(k)!LastInv'
  <2>. SUFFICES ASSUME \A a, b \in LogPages[k].Managers : a = b
                PROVE  /\ x1'["kyc"] = LogPages[k].None => x1'["photo"] = LogPages[k].None
                            /\ x3'["photo"] = <<>>
                       /\ \A n \in LogPages[k].Managers : \A h \in x2'[n] : Log(k)!TellsOf(h)'
                       /\ \A n \in Log(k)!Kinds : Log(k)!Told(n)' \/ Log(k)!Untold(n)'
    BY DEF Log!LastInv
  <2>1. /\ x1["kyc"] = LogPages[k].None => x1["photo"] = LogPages[k].None /\ x3["photo"] = <<>>
        /\ \A n \in Log(k)!Kinds : Log(k)!Told(n) \/ Log(k)!Untold(n)
    BY DEF Log!IInv, Log!LastInv
  <2>2. x2[m] = {} /\ \A n \in LogPages[k].Managers : n = m
    BY DEF Log!Read
  <2>3. \A n \in Log(k)!Kinds : Log(k)!Told(n)
    BY <2>1, <2>2 DEF Log!Untold
  <2>4. \A n \in Log(k)!Kinds : Log(k)!Told(n)'
    BY <1>0, <2>3 DEF Log!Told
  <2>5. Log(k)!TellsOf(j)'
    BY <1>0, <1>4 DEF Log!TellsOf
  <2>. QED
    BY <1>0, <1>6, <2>1, <2>2, <2>4, <2>5
<1>10. x1' \in [Log(k)!Kinds -> Log(k)!Content] /\ x1'["status"] # LogPages[k].None
  BY <1>0 DEF Log!IInv, Log!TypeOK
<1>. QED
  BY <1>0, <1>7, <1>8, <1>9, <1>10, LogMemberKeeps

(* What a change leaves is stored. *)
LEMMA LogSetIs ==
  ASSUME NEW k \in DOMAIN LogPages, Log(k)!UpdateLogAssumption, NEW j, Log(k)!IsJob(j),
         x1 \in [Log(k)!Kinds -> Log(k)!Content], x1["status"] # LogPages[k].None, x1' = Log(k)!Set(j)
  PROVE  /\ x1' \in [Log(k)!Kinds -> Log(k)!Content] /\ x1'["status"] # LogPages[k].None
         /\ \A n \in Log(k)!Kinds : n \in DOMAIN j.set => x1'[n] = j.set[n]
         /\ \A n \in Log(k)!Kinds : n \notin DOMAIN j.set => x1'[n] = x1[n]
         /\ x1["kyc"] # LogPages[k].None => x1'["kyc"] # LogPages[k].None
<1>1. x1' = [n \in Log(k)!Kinds |-> IF n \in DOMAIN j.set THEN j.set[n] ELSE x1[n]]
  BY DEF Log!Set
<1>2. \A n \in DOMAIN j.set : j.set[n] \in Log(k)!Content
  BY DEF Log!IsJob, Log!IsEdit
<1>3. ("kyc" \in DOMAIN j.set => j.set["kyc"] # LogPages[k].None)
        /\ ("status" \in DOMAIN j.set => j.set["status"] # LogPages[k].None)
  BY DEF Log!IsJob, Log!IsEdit
<1>. QED
  BY <1>1, <1>2, <1>3, LogKindsAre

LEMMA LogCommitKeeps ==
  ASSUME NEW k \in DOMAIN LogPages, Log(k)!UpdateLogAssumption, Log(k)!IInv, NEW m \in LogPages[k].Managers,
         Log(k)!Commit(m)
  PROVE  Log(k)!IInv'
<1>1. PICK j \in x2[m] : /\ j.phase = "read" /\ DOMAIN j.set # {"card"}
                         /\ x1' = Log(k)!Set(j)
                         /\ x2' = [x2 EXCEPT ![m] = {[j EXCEPT !.phase = "committed"]}]
  BY Zenon DEF Log!Commit
<1>2. Log(k)!IsJob(j) /\ x2[m] = {j}
  BY DEF Log!IInv, Log!JobInv
<1>3. x1 \in [Log(k)!Kinds -> Log(k)!Content] /\ x1["status"] # LogPages[k].None /\ x3' = x3
        /\ UNCHANGED Log(k)!page
  BY DEF Log!IInv, Log!TypeOK, Log!Commit
<1>4. /\ x1' \in [Log(k)!Kinds -> Log(k)!Content] /\ x1'["status"] # LogPages[k].None
      /\ \A n \in Log(k)!Kinds : n \in DOMAIN j.set => x1'[n] = j.set[n]
      /\ \A n \in Log(k)!Kinds : n \notin DOMAIN j.set => x1'[n] = x1[n]
      /\ x1["kyc"] # LogPages[k].None => x1'["kyc"] # LogPages[k].None
  BY <1>1, <1>2, <1>3, LogSetIs
<1>5. PICK i : i = [set |-> j.set, seen |-> j.seen, phase |-> "committed"]
  BY Zenon
<1>6. i.set = j.set /\ i.seen = j.seen /\ i.phase = "committed" /\ Log(k)!IsJob(i)
  BY <1>1, <1>2, <1>5 DEF Log!IsJob
<1>7. x2' = [x2 EXCEPT ![m] = {i}]
  <2>1. [j EXCEPT !.phase = "committed"] = i
    BY <1>2, <1>5 DEF Log!IsJob
  <2>. QED
    BY <1>1, <2>1, Zenon
<1>8. DOMAIN x2' = LogPages[k].Managers /\ x2'[m] = {i} /\ \A n \in LogPages[k].Managers :
        n # m => x2'[n] = x2[n]
  BY <1>7 DEF Log!IInv, Log!JobInv
<1>9. Log(k)!JobInv'
  BY <1>6, <1>8 DEF Log!IInv, Log!JobInv
<1>10. Log(k)!LogInv'
  BY <1>3 DEF Log!IInv, Log!LogInv, Log!EveryRowIsDrawn
<1>11. Log(k)!LastInv'
  <2>. SUFFICES ASSUME \A a, b \in LogPages[k].Managers : a = b
                PROVE  /\ x1'["kyc"] = LogPages[k].None => x1'["photo"] = LogPages[k].None
                            /\ x3'["photo"] = <<>>
                       /\ \A n \in LogPages[k].Managers : \A h \in x2'[n] : Log(k)!TellsOf(h)'
                       /\ \A n \in Log(k)!Kinds : Log(k)!Told(n)' \/ Log(k)!Untold(n)'
    BY DEF Log!LastInv
  <2>1. /\ x1["kyc"] = LogPages[k].None => x1["photo"] = LogPages[k].None /\ x3["photo"] = <<>>
        /\ Log(k)!TellsOf(j)
        /\ \A n \in Log(k)!Kinds : Log(k)!Told(n) \/ Log(k)!Untold(n)
    BY DEF Log!IInv, Log!LastInv
  <2>2. \A n \in Log(k)!Kinds \ {"card"} : j.seen[n] = x1[n]
    BY <1>1, <2>1 DEF Log!TellsOf
  <2>3. \A n \in Log(k)!Kinds : Log(k)!Told(n)
    BY <1>1, <1>2, <2>1 DEF Log!Untold
  <2>4. Log(k)!IsEdit(j.set, j.seen)
    BY <1>2 DEF Log!IsJob
  <2>5. "photo" \in DOMAIN j.set => x1'["kyc"] # LogPages[k].None
    <3>1. CASE "kyc" \in DOMAIN j.set
      BY <1>4, <2>4, <3>1, LogKindsAre DEF Log!IsEdit
    <3>2. CASE "kyc" \notin DOMAIN j.set
      BY <1>4, <2>2, <2>4, <3>2, LogKindsAre DEF Log!IsEdit
    <3>. QED
      BY <3>1, <3>2
  <2>6. x1'["kyc"] = LogPages[k].None => x1'["photo"] = LogPages[k].None /\ x3'["photo"] = <<>>
    BY <1>3, <1>4, <2>1, <2>5, LogKindsAre
  <2>7. Log(k)!TellsOf(i)'
    BY <1>4, <1>6, <2>4, <2>5 DEF Log!TellsOf, Log!IsEdit
  <2>8. ASSUME NEW n \in Log(k)!Kinds
        PROVE  Log(k)!Told(n)' \/ Log(k)!Untold(n)'
    <3>1. CASE n \notin DOMAIN j.set
      BY <1>3, <1>4, <2>3, <3>1 DEF Log!Told
    <3>2. CASE n \in DOMAIN j.set /\ Log(k)!IsLogged(i, n)
      BY <1>6, <1>8, <3>2 DEF Log!Untold
    <3>3. CASE n \in DOMAIN j.set /\ ~Log(k)!IsLogged(i, n)
      <4>1. n \in Log(k)!Document
        BY <3>3 DEF Log!IsLogged, Log!Document
      <4>2. CASE n = "photo" /\ j.seen["kyc"] = LogPages[k].None
        BY <1>3, <2>1, <2>2, <4>2, LogKindsAre DEF Log!Told
      <4>3. CASE ~(n = "photo" /\ j.seen["kyc"] = LogPages[k].None)
        <5>1. j.set[n] = j.seen[n]
          BY <1>6, <3>3, <4>1, <4>3 DEF Log!IsLogged, Log!Document
        <5>2. n # "card"
          BY <4>1, LogKindsAre
        <5>3. x1'[n] = x1[n]
          BY <1>4, <2>2, <3>3, <5>1, <5>2
        <5>. QED
          BY <1>3, <2>3, <5>3 DEF Log!Told
      <4>. QED
        BY <4>2, <4>3
    <3>. QED
      BY <3>1, <3>2, <3>3
  <2>9. \A n \in LogPages[k].Managers : n = m
    OBVIOUS
  <2>. QED
    BY <1>8, <2>6, <2>7, <2>8, <2>9
<1>. QED
  BY <1>3, <1>4, <1>9, <1>10, <1>11, LogMemberKeeps

(* A job that ends. *)
LEMMA LogJobEnds ==
  ASSUME NEW k \in DOMAIN LogPages, Log(k)!JobInv, NEW m \in LogPages[k].Managers, x2' = [x2 EXCEPT ![m] = {}]
  PROVE  Log(k)!JobInv' /\ x2'[m] = {} /\ \A n \in LogPages[k].Managers : n # m => x2'[n] = x2[n]
<1>1. DOMAIN x2' = LogPages[k].Managers /\ x2'[m] = {} /\ \A n \in LogPages[k].Managers :
        n # m => x2'[n] = x2[n]
  BY DEF Log!JobInv
<1>. QED
  BY <1>1 DEF Log!JobInv

LEMMA LogLogKeeps ==
  ASSUME NEW k \in DOMAIN LogPages, Log(k)!UpdateLogAssumption, Log(k)!IInv, NEW m \in LogPages[k].Managers,
         Log(k)!LogChange(m)
  PROVE  Log(k)!IInv'
<1>1. PICK j \in x2[m] : j.phase = "committed" /\ Log(k)!Log(j)
  BY DEF Log!LogChange
<1>2. Log(k)!IsJob(j) /\ x2[m] = {j}
  BY DEF Log!IInv, Log!JobInv
<1>3. /\ x1 \in [Log(k)!Kinds -> Log(k)!Content] /\ x1["status"] # LogPages[k].None /\ x1' = x1
           /\ UNCHANGED Log(k)!page
      /\ x2' = [x2 EXCEPT ![m] = {}]
  BY DEF Log!IInv, Log!TypeOK, Log!LogChange
<1>4. /\ Log(k)!LogInv'
      /\ \A n \in Log(k)!Kinds : IF n \in DOMAIN j.set /\ Log(k)!IsLogged(j, n)
                         THEN x3'[n] # <<>> /\ x3'[n][Len(x3'[n])].is = j.set[n]
                         ELSE x3'[n] = x3[n]
  BY <1>1, <1>2, LogLogAppends DEF Log!IInv, Log!IsJob, Log!IsEdit
<1>5. Log(k)!JobInv' /\ x2'[m] = {} /\ \A n \in LogPages[k].Managers : n # m => x2'[n] = x2[n]
  BY <1>3, LogJobEnds, Zenon DEF Log!IInv
<1>6. Log(k)!LastInv'
  <2>. SUFFICES ASSUME \A a, b \in LogPages[k].Managers : a = b
                PROVE  /\ x1'["kyc"] = LogPages[k].None => x1'["photo"] = LogPages[k].None
                            /\ x3'["photo"] = <<>>
                       /\ \A n \in LogPages[k].Managers : \A h \in x2'[n] : Log(k)!TellsOf(h)'
                       /\ \A n \in Log(k)!Kinds : Log(k)!Told(n)' \/ Log(k)!Untold(n)'
    BY DEF Log!LastInv
  <2>1. /\ x1["kyc"] = LogPages[k].None => x1["photo"] = LogPages[k].None /\ x3["photo"] = <<>>
        /\ Log(k)!TellsOf(j)
        /\ \A n \in Log(k)!Kinds : Log(k)!Told(n) \/ Log(k)!Untold(n)
    BY DEF Log!IInv, Log!LastInv
  <2>2. /\ \A n \in DOMAIN j.set : x1[n] = j.set[n]
        /\ "photo" \in DOMAIN j.set => x1["kyc"] # LogPages[k].None
    BY <1>1, <2>1 DEF Log!TellsOf
  <2>3. \A n \in LogPages[k].Managers : n = m
    OBVIOUS
  <2>4. ASSUME NEW n \in Log(k)!Kinds
        PROVE  Log(k)!Told(n)'
    <3>1. CASE n \in DOMAIN j.set /\ Log(k)!IsLogged(j, n)
      BY <1>3, <1>4, <2>2, <3>1 DEF Log!Told
    <3>2. CASE ~(n \in DOMAIN j.set /\ Log(k)!IsLogged(j, n))
      <4>1. ~Log(k)!Untold(n)
        BY <1>2, <2>3, <3>2 DEF Log!Untold
      <4>. QED
        BY <1>3, <1>4, <2>1, <3>2, <4>1 DEF Log!Told
    <3>. QED
      BY <3>1, <3>2
  <2>5. x1'["kyc"] = LogPages[k].None => x1'["photo"] = LogPages[k].None /\ x3'["photo"] = <<>>
    <3>1. "photo" \in Log(k)!Kinds
      BY LogKindsAre
    <3>. QED
      BY <1>3, <1>4, <2>1, <2>2, <3>1
  <2>. QED
    BY <1>5, <2>3, <2>4, <2>5
<1>. QED
  BY <1>3, <1>4, <1>5, <1>6, LogMemberKeeps

LEMMA LogRemoveKeeps ==
  ASSUME NEW k \in DOMAIN LogPages, Log(k)!UpdateLogAssumption, Log(k)!IInv, NEW m \in LogPages[k].Managers,
         Log(k)!RemoveCard(m)
  PROVE  Log(k)!IInv'
<1>1. PICK j \in x2[m] : /\ DOMAIN j.set = {"card"}
                         /\ IF x1["card"] # LogPages[k].None THEN Log(k)!Log(j) ELSE UNCHANGED x3
                         /\ x1' = Log(k)!Set(j)
  BY DEF Log!RemoveCard
<1>2. Log(k)!IsJob(j) /\ x2[m] = {j}
  BY DEF Log!IInv, Log!JobInv
<1>3. /\ x1 \in [Log(k)!Kinds -> Log(k)!Content] /\ x1["status"] # LogPages[k].None /\ UNCHANGED Log(k)!page
      /\ x2' = [x2 EXCEPT ![m] = {}]
  BY DEF Log!IInv, Log!TypeOK, Log!RemoveCard
<1>4. /\ x1' \in [Log(k)!Kinds -> Log(k)!Content] /\ x1'["status"] # LogPages[k].None
      /\ x1'["card"] = j.set["card"]
      /\ \A n \in Log(k)!Kinds : n # "card" => x1'[n] = x1[n]
  BY <1>1, <1>2, <1>3, LogSetIs, LogKindsAre
<1>5. /\ Log(k)!LogInv'
      /\ \A n \in Log(k)!Kinds : n # "card" => x3'[n] = x3[n]
      /\ IF x1["card"] # LogPages[k].None
           THEN x3'["card"] # <<>> /\ x3'["card"][Len(x3'["card"])].is = j.set["card"]
                                  ELSE x3' = x3
  <2>1. CASE x1["card"] # LogPages[k].None
    <3>1. /\ Log(k)!LogInv'
          /\ \A n \in Log(k)!Kinds : IF n \in DOMAIN j.set /\ Log(k)!IsLogged(j, n)
                             THEN x3'[n] # <<>> /\ x3'[n][Len(x3'[n])].is = j.set[n]
                             ELSE x3'[n] = x3[n]
      BY <1>1, <1>2, <2>1, LogLogAppends DEF Log!IInv, Log!IsJob, Log!IsEdit
    <3>2. Log(k)!IsLogged(j, "card")
      BY LogKindsAre DEF Log!IsLogged
    <3>. QED
      BY <1>1, <2>1, <3>1, <3>2, LogKindsAre
  <2>2. CASE x1["card"] = LogPages[k].None
    BY <1>1, <2>2 DEF Log!IInv, Log!LogInv, Log!EveryRowIsDrawn
  <2>. QED
    BY <2>1, <2>2
<1>6. Log(k)!JobInv' /\ x2'[m] = {} /\ \A n \in LogPages[k].Managers : n # m => x2'[n] = x2[n]
  BY <1>3, LogJobEnds, Zenon DEF Log!IInv
<1>7. Log(k)!LastInv'
  <2>. SUFFICES ASSUME \A a, b \in LogPages[k].Managers : a = b
                PROVE  /\ x1'["kyc"] = LogPages[k].None => x1'["photo"] = LogPages[k].None
                            /\ x3'["photo"] = <<>>
                       /\ \A n \in LogPages[k].Managers : \A h \in x2'[n] : Log(k)!TellsOf(h)'
                       /\ \A n \in Log(k)!Kinds : Log(k)!Told(n)' \/ Log(k)!Untold(n)'
    BY DEF Log!LastInv
  <2>1. /\ x1["kyc"] = LogPages[k].None => x1["photo"] = LogPages[k].None /\ x3["photo"] = <<>>
        /\ \A n \in Log(k)!Kinds : Log(k)!Told(n) \/ Log(k)!Untold(n)
    BY DEF Log!IInv, Log!LastInv
  <2>2. \A n \in LogPages[k].Managers : n = m
    OBVIOUS
  <2>3. j.phase # "committed"
    BY <1>1, <1>2 DEF Log!IsJob
  <2>4. \A n \in Log(k)!Kinds : Log(k)!Told(n)
    BY <1>2, <2>1, <2>2, <2>3 DEF Log!Untold
  <2>5. ASSUME NEW n \in Log(k)!Kinds
        PROVE  Log(k)!Told(n)'
    <3>1. CASE n # "card"
      BY <1>4, <1>5, <2>4, <3>1 DEF Log!Told
    <3>2. CASE n = "card" /\ x1["card"] # LogPages[k].None
      BY <1>4, <1>5, <3>2 DEF Log!Told
    <3>3. CASE n = "card" /\ x1["card"] = LogPages[k].None
      <4>1. j.set["card"] = LogPages[k].None
        BY <1>1, <1>2 DEF Log!IsJob, Log!IsEdit
      <4>2. x1'["card"] = x1["card"] /\ x3' = x3
        BY <1>4, <1>5, <3>3, <4>1
      <4>. QED
        BY <2>4, <3>3, <4>2 DEF Log!Told
    <3>. QED
      BY <3>1, <3>2, <3>3
  <2>6. x1'["kyc"] = LogPages[k].None => x1'["photo"] = LogPages[k].None /\ x3'["photo"] = <<>>
    BY <1>4, <1>5, <2>1, LogKindsAre
  <2>. QED
    BY <1>6, <2>2, <2>5, <2>6
<1>. QED
  BY <1>3, <1>4, <1>5, <1>6, <1>7, LogMemberKeeps

LEMMA LogAddKeeps ==
  ASSUME NEW k \in DOMAIN LogPages, Log(k)!UpdateLogAssumption, Log(k)!IInv, NEW v \in LogPages[k].Values,
         Log(k)!AddCard(v)
  PROVE  Log(k)!IInv'
<1>1. PICK j : j = [set |-> [card |-> v], seen |-> x1]
  BY Zenon
<1>2. DOMAIN j.set = {"card"} /\ j.set["card"] = v /\ j.seen = x1
  BY <1>1
<1>3. /\ x1 \in [Log(k)!Kinds -> Log(k)!Content] /\ x1["status"] # LogPages[k].None /\ UNCHANGED Log(k)!page
           /\ x2' = x2
      /\ x1' = [x1 EXCEPT !["card"] = v] /\ Log(k)!Log(j)
  BY <1>1 DEF Log!IInv, Log!TypeOK, Log!AddCard
<1>4. /\ x1' \in [Log(k)!Kinds -> Log(k)!Content] /\ x1'["status"] # LogPages[k].None /\ x1'["card"] = v
      /\ \A n \in Log(k)!Kinds : n # "card" => x1'[n] = x1[n]
  BY <1>3, LogKindsAre, Zenon
<1>5. /\ Log(k)!LogInv'
      /\ \A n \in Log(k)!Kinds : IF n \in DOMAIN j.set /\ Log(k)!IsLogged(j, n)
                         THEN x3'[n] # <<>> /\ x3'[n][Len(x3'[n])].is = j.set[n]
                         ELSE x3'[n] = x3[n]
  <2>1. j.seen \in [Log(k)!Kinds -> Log(k)!Content]
        /\ \A n \in DOMAIN j.set :
             j.set[n] \in Log(k)!Content /\ (n = "expiry" => j.set[n] # LogPages[k].None)
    BY <1>2, <1>3, LogKindsAre
  <2>. QED
    BY <1>3, <2>1, LogLogAppends, Zenon DEF Log!IInv
<1>6. Log(k)!IsLogged(j, "card")
  BY LogKindsAre DEF Log!IsLogged
<1>7. /\ x3'["card"] # <<>> /\ x3'["card"][Len(x3'["card"])].is = v
      /\ \A n \in Log(k)!Kinds : n # "card" => x3'[n] = x3[n]
  BY <1>2, <1>5, <1>6, LogKindsAre
<1>8. Log(k)!JobInv'
  BY <1>3 DEF Log!IInv, Log!JobInv
<1>9. Log(k)!LastInv'
  <2>. SUFFICES ASSUME \A a, b \in LogPages[k].Managers : a = b
                PROVE  /\ x1'["kyc"] = LogPages[k].None => x1'["photo"] = LogPages[k].None
                            /\ x3'["photo"] = <<>>
                       /\ \A n \in LogPages[k].Managers : \A h \in x2'[n] : Log(k)!TellsOf(h)'
                       /\ \A n \in Log(k)!Kinds : Log(k)!Told(n)' \/ Log(k)!Untold(n)'
    BY DEF Log!LastInv
  <2>1. /\ x1["kyc"] = LogPages[k].None => x1["photo"] = LogPages[k].None /\ x3["photo"] = <<>>
        /\ \A m \in LogPages[k].Managers : \A h \in x2[m] : Log(k)!TellsOf(h)
        /\ \A n \in Log(k)!Kinds : Log(k)!Told(n) \/ Log(k)!Untold(n)
    BY DEF Log!IInv, Log!LastInv
  <2>2. x1'["kyc"] = LogPages[k].None => x1'["photo"] = LogPages[k].None /\ x3'["photo"] = <<>>
    BY <1>4, <1>7, <2>1, LogKindsAre
  <2>3. ASSUME NEW m \in LogPages[k].Managers, NEW h \in x2'[m]
        PROVE  Log(k)!TellsOf(h)'
    <3>1. h \in x2[m] /\ Log(k)!TellsOf(h) /\ Log(k)!IsJob(h)
      BY <1>3, <2>1 DEF Log!IInv, Log!JobInv
    <3>2. DOMAIN h.set \subseteq Log(k)!Kinds /\ (h.phase = "committed" => "card" \notin DOMAIN h.set)
      BY <3>1 DEF Log!IsJob, Log!IsEdit
    <3>. QED
      BY <1>4, <3>1, <3>2, LogKindsAre DEF Log!TellsOf
  <2>4. ASSUME NEW n \in Log(k)!Kinds
        PROVE  Log(k)!Told(n)' \/ Log(k)!Untold(n)'
    <3>1. CASE n = "card"
      BY <1>4, <1>7, <3>1 DEF Log!Told
    <3>2. CASE n # "card"
      BY <1>3, <1>4, <1>7, <2>1, <3>2 DEF Log!Told, Log!Untold
    <3>. QED
      BY <3>1, <3>2
  <2>. QED
    BY <2>2, <2>3, <2>4
<1>. QED
  BY <1>3, <1>4, <1>5, <1>8, <1>9, LogMemberKeeps

(* What happens on the page leaves the member as it is. *)
LEMMA LogPageKeeps ==
  ASSUME NEW k \in DOMAIN LogPages, Log(k)!UpdateLogAssumption, Log(k)!IInv,
         Log(k)!viewKycImage \/ Log(k)!ImageCame \/ Log(k)!ImageFailed \/ Log(k)!CloseDialog
  PROVE  Log(k)!IInv'
<1>0. /\ UNCHANGED <<x1, x2, x3>> /\ Log(k)!PageInv /\ x5 \in Log(k)!Content /\ x7 \in Log(k)!Content
      /\ x6 \in [open : BOOLEAN, shows : Log(k)!Content] /\ LogPages[k].None \in Log(k)!Content
  BY LogKindsAre DEF Log!IInv, Log!TypeOK, Log!PageInv, Log!viewKycImage, Log!ImageCame,
      Log!ImageFailed, Log!CloseDialog, Log!member
<1>1. /\ Log(k)!PageInv' /\ x5' \in Log(k)!Content /\ x6' \in [open : BOOLEAN, shows : Log(k)!Content]
  <2>1. CASE Log(k)!viewKycImage
    <3>1. PICK i \in DOMAIN x3["photo"], side \in {"before", "after"} :
            LET cell == Log(k)!searchProfileUpdateLog("photo", x3["photo"][i])[side]
            IN  cell.value # LogPages[k].None /\ x5' = cell.value /\ x7' = cell.value
      BY <2>1, Zenon DEF Log!viewKycImage
    <3>2. /\ x3["photo"][i] \in Log(k)!Rows
          /\ Log(k)!searchProfileUpdateLog("photo", x3["photo"][i])
               = [before |-> Log(k)!Shows(x3["photo"][i].was), after |-> Log(k)!Shows(x3["photo"][i].is)]
      <4>1. x3["photo"] \in Seq(Log(k)!Rows)
        BY LogKindsAre DEF Log!IInv, Log!LogInv
      <4>. QED
        BY <4>1, LogKindsAre DEF Log!IInv, Log!LogInv, Log!EveryRowIsDrawn
    <3>3. Log(k)!searchProfileUpdateLog("photo", x3["photo"][i])[side].value \in Log(k)!Content
      <4>1. x3["photo"][i].was \in Log(k)!Content /\ x3["photo"][i].is \in Log(k)!Content
        BY <3>2 DEF Log!Rows
      <4>. QED
        BY <3>2, <4>1 DEF Log!Shows
    <3>4. x5' = x7' /\ x7' \in Log(k)!Content /\ x6' = x6 /\ ~x6.open
      BY <2>1, <3>1, <3>3 DEF Log!viewKycImage
    <3>. QED
      BY <1>0, <3>4 DEF Log!PageInv, Log!ImageOfLastClick
  <2>2. CASE Log(k)!ImageCame
    <3>1. /\ x5 # LogPages[k].None /\ x5' = LogPages[k].None /\ x7' = x7
          /\ x6' = [open |-> TRUE, shows |-> Log(k)!Image(x5)]
      BY <2>2 DEF Log!ImageCame
    <3>2. Log(k)!Image(x5) \in {x7, LogPages[k].None} /\ Log(k)!Image(x5) \in Log(k)!Content
      BY <1>0, <3>1 DEF Log!Image, Log!PageInv
    <3>. QED
      BY <1>0, <3>1, <3>2 DEF Log!PageInv, Log!ImageOfLastClick
  <2>3. CASE Log(k)!ImageFailed
    BY <1>0, <2>3 DEF Log!ImageFailed, Log!PageInv, Log!ImageOfLastClick
  <2>4. CASE Log(k)!CloseDialog
    <3>1. x6' = [x6 EXCEPT !.open = FALSE] /\ x5' = x5 /\ x7' = x7
      BY <2>4 DEF Log!CloseDialog
    <3>. QED
      BY <1>0, <3>1, Zenon DEF Log!PageInv, Log!ImageOfLastClick
  <2>. QED
    BY <2>1, <2>2, <2>3, <2>4
<1>2. Log(k)!TypeOK'
  BY <1>0, <1>1 DEF Log!IInv, Log!TypeOK
<1>3. Log(k)!JobInv' /\ Log(k)!LogInv'
  BY <1>0 DEF Log!IInv, Log!JobInv, Log!LogInv, Log!EveryRowIsDrawn
<1>4. Log(k)!LastInv'
  BY <1>0 DEF Log!IInv, Log!LastInv, Log!TellsOf, Log!Told, Log!Untold
<1>. QED
  BY <1>1, <1>2, <1>3, <1>4 DEF Log!IInv

LEMMA LogNextIInv ==
  ASSUME NEW k \in DOMAIN LogPages, Log(k)!UpdateLogAssumption, Log(k)!IInv,
         Log(k)!Next \/ UNCHANGED Log(k)!vars
  PROVE  Log(k)!IInv'
<1>1. CASE \E m \in LogPages[k].Managers :
             Log(k)!Read(m) \/ Log(k)!Commit(m) \/ Log(k)!LogChange(m) \/ Log(k)!RemoveCard(m)
  BY <1>1, LogReadKeeps, LogCommitKeeps, LogLogKeeps, LogRemoveKeeps
<1>2. CASE \E v \in LogPages[k].Values : Log(k)!AddCard(v)
  BY <1>2, LogAddKeeps
<1>3. CASE Log(k)!viewKycImage \/ Log(k)!ImageCame \/ Log(k)!ImageFailed \/ Log(k)!CloseDialog
  BY <1>3, LogPageKeeps
<1>4. CASE UNCHANGED Log(k)!vars
  <2>1. UNCHANGED <<x1, x2, x3, x4, x5, x6, x7>>
    BY <1>4 DEF Log!vars, Log!member, Log!page
  <2>2. Log(k)!TypeOK' /\ Log(k)!JobInv' /\ Log(k)!LogInv' /\ Log(k)!PageInv'
    BY <2>1 DEF Log!IInv, Log!TypeOK, Log!JobInv, Log!LogInv, Log!EveryRowIsDrawn,
        Log!PageInv, Log!ImageOfLastClick
  <2>3. Log(k)!LastInv'
    BY <2>1 DEF Log!IInv, Log!LastInv, Log!TellsOf, Log!Told, Log!Untold
  <2>. QED
    BY <2>2, <2>3 DEF Log!IInv
<1>. QED
  BY <1>1, <1>2, <1>3, <1>4 DEF Log!Next

LEMMA LogIInvImplies ==
  ASSUME NEW k \in DOMAIN LogPages, Log(k)!IInv
  PROVE  Log(k)!TypeOK /\ Log(k)!EveryRowIsDrawn /\ Log(k)!LastRowTellsStored /\ Log(k)!ImageOfLastClick
<1>1. Log(k)!TypeOK /\ Log(k)!EveryRowIsDrawn /\ Log(k)!ImageOfLastClick
  BY DEF Log!IInv, Log!LogInv, Log!PageInv
<1>2. Log(k)!LastRowTellsStored
  <2>. SUFFICES ASSUME \A m, n \in LogPages[k].Managers : m = n /\ x2[m] = {}, NEW q \in Log(k)!Kinds,
                       x3[q] # <<>>
                PROVE  Log(k)!searchProfileUpdateLog(q, x3[q][Len(x3[q])]).after = Log(k)!Shows(x1[q])
    BY DEF Log!LastRowTellsStored
  <2>1. Log(k)!Told(q)
    BY DEF Log!IInv, Log!LastInv, Log!Untold
  <2>2. x3[q] \in Seq(Log(k)!Rows)
    BY DEF Log!IInv, Log!LogInv
  <2>3. Len(x3[q]) \in DOMAIN x3[q]
    BY <2>2
  <2>4. x3[q][Len(x3[q])].is = x1[q]
    BY <2>1 DEF Log!Told
  <2>5. Log(k)!searchProfileUpdateLog(q, x3[q][Len(x3[q])])
          = [before |-> Log(k)!Shows(x3[q][Len(x3[q])].was), after |-> Log(k)!Shows(x3[q][Len(x3[q])].is)]
    BY <1>1, <2>3, Zenon DEF Log!EveryRowIsDrawn
  <2>. QED
    BY <2>4, <2>5
<1>. QED
  BY <1>1, <1>2

(* The invariant of the pages of this script. *)
LogInv == \A k \in On("log", LogPages) : Log(k)!IInv

LEMMA LogBegins ==
  ASSUME MemberInit
  PROVE  LogInv
<1>. SUFFICES ASSUME NEW k \in On("log", LogPages)
         PROVE  Log(k)!IInv
  BY DEF LogInv
<1>1. k \in DOMAIN LogPages /\ script = "log" /\ page = k
  BY DEF On
<1>2. Log(k)!Init
  BY <1>1 DEF MemberInit
<1>3. Log(k)!UpdateLogAssumption
  BY <1>1, MemberPagesAreSound DEF MemberPagesAssumption
<1>. QED
  BY <1>1, <1>2, LogInitIInv, <1>3

LEMMA LogGoesOn ==
  ASSUME LogInv, MemberStep
  PROVE  LogInv'
<1>1. script' = script /\ page' = page
  BY MemberStays
<1>2. ASSUME NEW k \in On("log", LogPages)
      PROVE  Log(k)!IInv'
  <2>1. k \in DOMAIN LogPages /\ script = "log" /\ page = k
    BY DEF On
  <2>2. Log(k)!Next \/ UNCHANGED Log(k)!vars
    BY <2>1 DEF MemberStep, MemberNext, On, vars, Log!vars, Log!member,
      Log!page
  <2>3. Log(k)!UpdateLogAssumption
    BY <2>1, MemberPagesAreSound DEF MemberPagesAssumption
  <2>4. Log(k)!IInv
    BY DEF LogInv
  <2>. QED
    BY <2>1, <2>2, LogNextIInv, <2>3, <2>4
<1>3. On("log", LogPages)' = On("log", LogPages)
  BY <1>1 DEF On
<1>. QED
  BY <1>2, <1>3 DEF LogInv

LEMMA LogShows ==
  ASSUME LogInv
  PROVE  /\ \A k \in On("log", LogPages) : Log(k)!TypeOK
         /\ \A k \in On("log", LogPages) : Log(k)!EveryRowIsDrawn
         /\ \A k \in On("log", LogPages) : Log(k)!LastRowTellsStored
         /\ \A k \in On("log", LogPages) : Log(k)!ImageOfLastClick
<1>. SUFFICES ASSUME NEW k \in On("log", LogPages)
         PROVE  Log(k)!TypeOK /\ Log(k)!EveryRowIsDrawn /\ Log(k)!LastRowTellsStored
                  /\ Log(k)!ImageOfLastClick
  OBVIOUS
<1>1. k \in DOMAIN LogPages /\ Log(k)!IInv
  BY DEF On, LogInv
<1>. QED
  BY <1>1, LogIInvImplies

-----------------------------------------------------------------------------
(* The invariant of all of these pages. *)
MemberInv ==
  /\ WithdrawInv
  /\ ReportInv
  /\ PhotoInv
  /\ ProfileInv
  /\ PasswordInv
  /\ SearchInv
  /\ LimitsInv
  /\ LogInv

MemberScripts == {"adjust", "withdraw", "amount", "report", "cells", "photo", "profile", "password", "search",
  "limits", "log", "bell"}

LEMMA MemberPagesBegin ==
  ASSUME MemberInit
  PROVE  MemberInv
BY WithdrawBegins, ReportBegins, PhotoBegins, ProfileBegins, PasswordBegins,
   SearchBegins, LimitsBegins, LogBegins DEF MemberInv

LEMMA MemberPagesGoOn ==
  ASSUME MemberInv, MemberStep
  PROVE  MemberInv'
BY WithdrawGoesOn, ReportGoesOn, PhotoGoesOn, ProfileGoesOn, PasswordGoesOn,
   SearchGoesOn, LimitsGoesOn, LogGoesOn DEF MemberInv

(* The page of another script is none of these. *)
LEMMA MemberPagesElsewhere ==
  ASSUME script \notin MemberScripts
  PROVE  MemberInv
BY DEF On, MemberScripts, MemberInv, WithdrawInv, ReportInv, PhotoInv, ProfileInv, PasswordInv, SearchInv,
   LimitsInv, LogInv

LEMMA MemberPagesStayElsewhere ==
  ASSUME script \notin MemberScripts, script' = script
  PROVE  MemberInv'
BY DEF On, MemberScripts, MemberInv, WithdrawInv, ReportInv, PhotoInv, ProfileInv, PasswordInv, SearchInv,
   LimitsInv, LogInv

=============================================================================
