-------------------------- MODULE SitePagesProofs ---------------------------
(***************************************************************************)
(* Proofs about the pages of the site, for any pages: per script its steps,*)
(* then the inductive invariant of the page, IInv of its module.  A lemma  *)
(* about a script reads as in its module, with its name before the names of*)
(* the module and x1, x2, ... for its variables.                           *)
(***************************************************************************)
EXTENDS SitePages, TLAPS, FiniteSetTheorems

-----------------------------------------------------------------------------
(* A page stays the page it is. *)
LEMMA SiteStays ==
  ASSUME SiteStep
  PROVE  script' = script /\ page' = page
BY DEF SiteStep, SiteNext, vars, Same18, Same7, Same8, Same9, Same10, Same11,
   Same12, Same13, Same14, Same15, Same16, Same17

-----------------------------------------------------------------------------
(***************************************************************************)
(* PaymentReview (Review): x1 is status, x2 is list, x3 is batch, x4 is    *)
(* detail, x5 is flight, x6 is sent, x7 is seen, x8 is selection, x9 is    *)
(* raced, x10 is settled, x11 is contested.                                *)
(***************************************************************************)
(* A new request is well made. *)
LEMMA ReviewNewRequest ==
  ASSUME NEW k \in DOMAIN ReviewPages, x6 \in Nat, NEW kind \in Review(k)!Kinds,
         NEW m \in ReviewPages[k].Managers, NEW ids \in SUBSET ReviewPages[k].Payments,
         NEW what \in Review(k)!What \cup {Review(k)!NoVerdict},
         kind = "list" => ids = ReviewPages[k].Payments,
         kind = "detail" => \E t \in ReviewPages[k].Payments : ids = {t},
         kind = "decide" => what \in Review(k)!What
  PROVE  Review(k)!WellMade(Review(k)!Request(kind, m, ids, what))
<1>1. [t \in ids |-> "NEW"] \in [ids -> Review(k)!Status]
  BY DEF Review!Status
<1>2. [t \in ids |-> "NEW"] \in Review(k)!Answers
  BY <1>1 DEF Review!Answers
<1>. QED
  BY <1>1, <1>2 DEF Review!WellMade, Review!Request, Review!Requests

(* What a decision handles and writes is left to decide. *)
LEMMA ReviewWriting ==
  ASSUME NEW k \in DOMAIN ReviewPages, NEW r, NEW S \in Review(k)!Handled(r),
         NEW done \in Review(k)!Effect(r, S)
  PROVE  done \subseteq S /\ S \subseteq r.left
BY DEF Review!Handled, Review!Effect

(* The server works on a request in place: its answer is what the rows say *)
(* then, and a row that is decided stays decided.                          *)
LEMMA ReviewInPlace ==
  ASSUME NEW k \in DOMAIN ReviewPages, Review(k)!Sound, NEW r \in x5, Review(k)!Server(r)
  PROVE  \E q \in Review(k)!Requests :
       /\ x5' = (x5 \ {r}) \cup {q}
       /\ Review(k)!WellMade(q) /\ q.id = r.id /\ q.kind = r.kind /\ q.who = r.who /\ q.ids = r.ids
       /\ q.served => (r.served /\ q.answer = r.answer) \/ \A t \in r.ids : q.answer[t] = x1'[t]
<1>a. r.ids \subseteq ReviewPages[k].Payments /\ x1 \in [ReviewPages[k].Payments -> Review(k)!Status]
        /\ x11 \subseteq ReviewPages[k].Payments
  BY DEF Review!Sound, Review!TypeOK
<1>b. r \in Review(k)!Requests /\ Review(k)!WellMade(r)
  BY DEF Review!Sound, Review!FlightInv, Review!WellMade
<1>c. ASSUME NEW a \in [r.ids -> Review(k)!Status], NEW ok \in BOOLEAN
      PROVE  LET q == [r EXCEPT !.served = TRUE, !.ok = ok, !.answer = a] IN
             q \in Review(k)!Requests /\ Review(k)!WellMade(q) /\ q.id = r.id /\ q.kind = r.kind
               /\ q.who = r.who /\ q.ids = r.ids /\ q.answer = a
  <2>1. a \in Review(k)!Answers
    BY <1>a DEF Review!Answers
  <2>. QED
    BY <1>b, <2>1 DEF Review!WellMade, Review!Requests
<1>d. [t \in r.ids |-> x1[t]] \in [r.ids -> Review(k)!Status]
  BY <1>a
<1>1. ASSUME NEW ok \in BOOLEAN, x1' = x1,
             x5' = (x5 \ {r}) \cup {[r EXCEPT !.served = TRUE, !.ok = ok, !.answer = [t \in r.ids |-> x1[t]]]}
      PROVE  \E q \in Review(k)!Requests :
               /\ x5' = (x5 \ {r}) \cup {q}
               /\ Review(k)!WellMade(q) /\ q.id = r.id /\ q.kind = r.kind /\ q.who = r.who /\ q.ids = r.ids
               /\ q.served => (r.served /\ q.answer = r.answer) \/ \A t \in r.ids : q.answer[t] = x1'[t]
  <2>1. PICK a : a = [t \in r.ids |-> x1[t]]
    OBVIOUS
  <2>2. a \in [r.ids -> Review(k)!Status] /\ \A t \in r.ids : a[t] = x1'[t]
    BY <1>1, <1>d, <2>1
  <2>. DEFINE q == [r EXCEPT !.served = TRUE, !.ok = ok, !.answer = a]
  <2>3. q \in Review(k)!Requests /\ Review(k)!WellMade(q) /\ q.id = r.id /\ q.kind = r.kind /\ q.who = r.who
          /\ q.ids = r.ids /\ q.answer = a
    BY <1>c, <2>2
  <2>4. x5' = (x5 \ {r}) \cup {q}
    BY <1>1, <2>1
  <2>. HIDE DEF q
  <2>. QED
    BY <2>2, <2>3, <2>4
<1>2. CASE Review(k)!Query(r) \/ Review(k)!Respond(r)
  BY <1>1, <1>2 DEF Review!Query, Review!Respond, Review!HearsSuccess
<1>3. CASE Review(k)!ReadRows(r)
  <2>. DEFINE q == [r EXCEPT !.read = TRUE, !.work = Review(k)!PendingOf(r), !.left = Review(k)!PendingOf(r)]
  <2>1. Review(k)!PendingOf(r) \in SUBSET ReviewPages[k].Payments
    BY <1>a DEF Review!PendingOf
  <2>2. Review(k)!WellMade(q) /\ q.id = r.id /\ q.kind = r.kind /\ q.who = r.who /\ q.ids = r.ids
          /\ q.served = r.served
        /\ q.answer = r.answer
    BY <1>3, <1>b, <2>1 DEF Review!WellMade, Review!Requests, Review!ReadRows
  <2>. QED
    BY <1>3, <1>a, <2>1, <2>2 DEF Review!ReadRows, Review!WellMade
<1>4. CASE Review(k)!Decide(r)
  <2>0a. PICK S \in Review(k)!Handled(r) : \E done \in Review(k)!Effect(r, S) :
                \E counted \in Review(k)!Counts(r, S, done) :
          /\ x1' = [t \in ReviewPages[k].Payments |-> IF t \in done THEN r.what.verdict ELSE x1[t]]
          /\ x5' = (x5 \ {r}) \cup {[r EXCEPT !.left = @ \ S, !.counted = @ \cup counted]}
    BY <1>4 DEF Review!Decide, Review!Writes
  <2>0b. PICK done \in Review(k)!Effect(r, S) : \E counted \in Review(k)!Counts(r, S, done) :
          /\ x1' = [t \in ReviewPages[k].Payments |-> IF t \in done THEN r.what.verdict ELSE x1[t]]
          /\ x5' = (x5 \ {r}) \cup {[r EXCEPT !.left = @ \ S, !.counted = @ \cup counted]}
    BY <2>0a
  <2>1. PICK counted \in Review(k)!Counts(r, S, done) :
          /\ x1' = [t \in ReviewPages[k].Payments |-> IF t \in done THEN r.what.verdict ELSE x1[t]]
          /\ x5' = (x5 \ {r}) \cup {[r EXCEPT !.left = @ \ S, !.counted = @ \cup counted]}
    BY <2>0b
  <2>. DEFINE q == [r EXCEPT !.left = @ \ S, !.counted = @ \cup counted]
  <2>2. r.what.verdict \in Review(k)!Verdicts
    BY <1>4, <1>b DEF Review!Decide, Review!Writes, Review!WellMade, Review!What
  <2>3. done \subseteq S /\ S \subseteq r.left /\ r.left \subseteq ReviewPages[k].Payments
    BY <1>b, ReviewWriting DEF Review!Requests
  <2>4. counted \subseteq ReviewPages[k].Payments
    BY <2>3 DEF Review!Counts
  <2>5. Review(k)!WellMade(q) /\ q.id = r.id /\ q.kind = r.kind /\ q.who = r.who /\ q.ids = r.ids
          /\ q.served = r.served
        /\ q.answer = r.answer
    BY <1>b, <2>3, <2>4 DEF Review!WellMade, Review!Requests
  <2>6. x1' \in [ReviewPages[k].Payments -> Review(k)!Status] /\ \A t \in ReviewPages[k].Payments :
          x1[t] # "NEW" => x1'[t] # "NEW"
    BY <1>a, <2>1, <2>2 DEF Review!Verdicts, Review!Status
  <2>. QED
    BY <1>4, <1>a, <2>1, <2>5, <2>6 DEF Review!Decide, Review!Writes, Review!WellMade
<1>. QED
  BY <1>2, <1>3, <1>4 DEF Review!Server

(* What else the server changes: a row that is decided stays decided. *)
LEMMA ReviewRowsGoOn ==
  ASSUME NEW k \in DOMAIN ReviewPages, Review(k)!Sound, NEW r \in x5, Review(k)!Server(r)
  PROVE  /\ UNCHANGED <<x2, x3, x4, x6, x7, x8, x9, x10>>
         /\ x1' \in [ReviewPages[k].Payments -> Review(k)!Status] /\ x11' \subseteq ReviewPages[k].Payments
         /\ \A t \in ReviewPages[k].Payments : x1[t] # "NEW" => x1'[t] # "NEW"
<1>a. r.ids \subseteq ReviewPages[k].Payments /\ x1 \in [ReviewPages[k].Payments -> Review(k)!Status]
        /\ x11 \subseteq ReviewPages[k].Payments
  BY DEF Review!Sound, Review!TypeOK
<1>b. r \in Review(k)!Requests /\ Review(k)!WellMade(r)
  BY DEF Review!Sound, Review!FlightInv, Review!WellMade
<1>1. CASE Review(k)!Query(r) \/ Review(k)!Respond(r)
  BY <1>1, <1>a DEF Review!Query, Review!Respond
<1>2. CASE Review(k)!ReadRows(r)
  BY <1>2, <1>a DEF Review!ReadRows, Review!PendingOf
<1>3. CASE Review(k)!Decide(r)
  <2>1. PICK done : x1' = [t \in ReviewPages[k].Payments |-> IF t \in done THEN r.what.verdict ELSE x1[t]]
    BY <1>3 DEF Review!Decide, Review!Writes
  <2>2. r.what.verdict \in Review(k)!Verdicts
    BY <1>3, <1>b DEF Review!Decide, Review!Writes, Review!WellMade, Review!What
  <2>3. x1' \in [ReviewPages[k].Payments -> Review(k)!Status] /\ \A t \in ReviewPages[k].Payments :
          x1[t] # "NEW" => x1'[t] # "NEW"
    BY <1>a, <2>1, <2>2 DEF Review!Verdicts, Review!Status
  <2>. QED
    BY <1>3, <1>a, <2>3 DEF Review!Decide, Review!Writes
<1>. QED
  BY <1>1, <1>2, <1>3 DEF Review!Server

(* A request sent with Send joins the well-made ones. *)
LEMMA ReviewSendKeeps ==
  ASSUME NEW k \in DOMAIN ReviewPages, Review(k)!Sound, NEW kind \in Review(k)!Kinds,
         NEW m \in ReviewPages[k].Managers, NEW ids \in SUBSET ReviewPages[k].Payments,
         NEW what \in Review(k)!What \cup {Review(k)!NoVerdict},
         kind = "list" => ids = ReviewPages[k].Payments,
         kind = "detail" => \E t \in ReviewPages[k].Payments : ids = {t},
         kind = "decide" => what \in Review(k)!What,
         Review(k)!Send(kind, m, ids, what), ReviewPages[k].MaxRequests \in Nat
  PROVE  /\ x6' \in 0..ReviewPages[k].MaxRequests
         /\ \A r \in x5' : /\ Review(k)!WellMade(r) /\ r.id \in 1..x6' /\ r.kind \in Review(k)!Kinds
                           /\ r.who \in ReviewPages[k].Managers /\ r.ids \subseteq ReviewPages[k].Payments
         /\ x9' \subseteq ReviewPages[k].Managers
<1>0. x6 \in Nat
  BY DEF Review!Sound, Review!TypeOK
<1>1. Review(k)!WellMade(Review(k)!Request(kind, m, ids, what))
  BY <1>0, ReviewNewRequest, Zenon
<1>2. /\ Review(k)!Request(kind, m, ids, what).id = x6 + 1
           /\ Review(k)!Request(kind, m, ids, what).kind = kind
      /\ Review(k)!Request(kind, m, ids, what).who = m /\ Review(k)!Request(kind, m, ids, what).ids = ids
  BY DEF Review!Request
<1>. QED
  BY <1>1, <1>2 DEF Review!Send, Review!Sound, Review!TypeOK, Review!FlightInv

(* A dialog stays well formed when it is shown or hidden. *)
LEMMA ReviewDialogKeeps ==
  ASSUME NEW k \in DOMAIN ReviewPages, Review(k)!TypeOK, NEW m \in ReviewPages[k].Managers, NEW b \in BOOLEAN
  PROVE  /\ [x3 EXCEPT ![m].open = b]
              \in [ReviewPages[k].Managers -> [open : BOOLEAN, rows : SUBSET ReviewPages[k].Payments]]
         /\ [x4 EXCEPT ![m].open = b]
              \in [ReviewPages[k].Managers -> [open : BOOLEAN,
                shown : ReviewPages[k].Payments \cup {Review(k)!NoOne},
                  buttons : ReviewPages[k].Payments \cup {Review(k)!NoOne}]]
<1>1. x3[m] \in [open : BOOLEAN, rows : SUBSET ReviewPages[k].Payments]
  BY DEF Review!TypeOK
<1>2. [x3[m] EXCEPT !.open = b] \in [open : BOOLEAN, rows : SUBSET ReviewPages[k].Payments]
  BY <1>1
<1>3. [x3 EXCEPT ![m].open = b] = [x3 EXCEPT ![m] = [x3[m] EXCEPT !.open = b]]
  BY DEF Review!TypeOK
<1>4. x4[m] \in [open : BOOLEAN, shown : ReviewPages[k].Payments \cup {Review(k)!NoOne},
        buttons : ReviewPages[k].Payments \cup {Review(k)!NoOne}]
  BY DEF Review!TypeOK
<1>5. [x4[m] EXCEPT !.open = b]
        \in [open : BOOLEAN, shown : ReviewPages[k].Payments \cup {Review(k)!NoOne},
          buttons : ReviewPages[k].Payments \cup {Review(k)!NoOne}]
  BY <1>4
<1>6. [x4 EXCEPT ![m].open = b] = [x4 EXCEPT ![m] = [x4[m] EXCEPT !.open = b]]
  BY DEF Review!TypeOK
<1>. QED
  BY <1>2, <1>3, <1>5, <1>6 DEF Review!TypeOK

(* Every action keeps the types and the requests well made. *)
LEMMA ReviewStepSound ==
  ASSUME NEW k \in DOMAIN ReviewPages, Review(k)!Sound, Review(k)!Next \/ UNCHANGED Review(k)!vars,
         Review(k)!PaymentReviewAssumption
  PROVE  Review(k)!Sound'
<1>. USE DEF Review!PaymentReviewAssumption
<1>. SUFFICES Review(k)!TypeOK' /\ Review(k)!FlightInv'
  BY DEF Review!Sound
<1>a. Review(k)!TypeOK
  BY DEF Review!Sound
<1>1. ASSUME NEW m \in ReviewPages[k].Managers, Review(k)!Search(m)
      PROVE  Review(k)!TypeOK' /\ Review(k)!FlightInv'
  <2>1. Review(k)!Send("list", m, ReviewPages[k].Payments, Review(k)!NoVerdict)
    BY <1>1 DEF Review!Search
  <2>2. "list" \in Review(k)!Kinds
    BY DEF Review!Kinds
  <2>3. /\ x6' \in 0..ReviewPages[k].MaxRequests
        /\ \A r \in x5' : /\ Review(k)!WellMade(r) /\ r.id \in 1..x6' /\ r.kind \in Review(k)!Kinds
                          /\ r.who \in ReviewPages[k].Managers /\ r.ids \subseteq ReviewPages[k].Payments
        /\ x9' \subseteq ReviewPages[k].Managers
    BY <1>1, <2>1, <2>2, ReviewSendKeeps, Zenon
  <2>. QED
    BY <1>1, <1>a, <2>3 DEF Review!Search, Review!TypeOK, Review!FlightInv,
        Review!WellMade
<1>2. ASSUME NEW m \in ReviewPages[k].Managers, NEW S \in SUBSET ReviewPages[k].Payments,
             Review(k)!GoToBatchApprove(m, S)
      PROVE  Review(k)!TypeOK' /\ Review(k)!FlightInv'
  <2>1. Review(k)!Send("rows", m, S, Review(k)!NoVerdict)
    BY <1>2 DEF Review!GoToBatchApprove
  <2>2. "rows" \in Review(k)!Kinds
    BY DEF Review!Kinds
  <2>3. /\ x6' \in 0..ReviewPages[k].MaxRequests
        /\ \A r \in x5' : /\ Review(k)!WellMade(r) /\ r.id \in 1..x6' /\ r.kind \in Review(k)!Kinds
                          /\ r.who \in ReviewPages[k].Managers /\ r.ids \subseteq ReviewPages[k].Payments
        /\ x9' \subseteq ReviewPages[k].Managers
    BY <1>2, <2>1, <2>2, ReviewSendKeeps, Zenon
  <2>4. x3' \in [ReviewPages[k].Managers -> [open : BOOLEAN, rows : SUBSET ReviewPages[k].Payments]]
    <3>1. (ReviewPages[k].Page = "deposit") \in BOOLEAN
      OBVIOUS
    <3>. QED
      BY <1>2, <1>a, <3>1, ReviewDialogKeeps, Zenon DEF Review!GoToBatchApprove
  <2>5. x8' \in [ReviewPages[k].Managers -> SUBSET ReviewPages[k].Payments]
    BY <1>2, <1>a DEF Review!GoToBatchApprove, Review!TypeOK
  <2>. QED
    BY <1>2, <1>a, <2>3, <2>4, <2>5 DEF Review!GoToBatchApprove, Review!TypeOK,
        Review!FlightInv, Review!WellMade
<1>3. ASSUME NEW m \in ReviewPages[k].Managers, NEW t \in ReviewPages[k].Payments, Review(k)!GotoDetail(m, t)
      PROVE  Review(k)!TypeOK' /\ Review(k)!FlightInv'
  <2>1. Review(k)!Send("detail", m, {t}, Review(k)!NoVerdict)
    BY <1>3 DEF Review!GotoDetail
  <2>2. "detail" \in Review(k)!Kinds
    BY DEF Review!Kinds
  <2>3. /\ x6' \in 0..ReviewPages[k].MaxRequests
        /\ \A r \in x5' : /\ Review(k)!WellMade(r) /\ r.id \in 1..x6' /\ r.kind \in Review(k)!Kinds
                          /\ r.who \in ReviewPages[k].Managers /\ r.ids \subseteq ReviewPages[k].Payments
        /\ x9' \subseteq ReviewPages[k].Managers
    BY <1>3, <2>1, <2>2, ReviewSendKeeps, Zenon
  <2>. QED
    BY <1>3, <1>a, <2>3 DEF Review!GotoDetail, Review!TypeOK, Review!FlightInv,
        Review!WellMade
<1>4. ASSUME NEW m \in ReviewPages[k].Managers, NEW v \in Review(k)!Verdicts, Review(k)!BatchDecide(m, v)
      PROVE  Review(k)!TypeOK' /\ Review(k)!FlightInv'
  <2>1. Review(k)!Send("decide", m, x3[m].rows, [verdict |-> v, dialog |-> "batch"])
    BY <1>4 DEF Review!BatchDecide
  <2>2. "decide" \in Review(k)!Kinds /\ [verdict |-> v, dialog |-> "batch"] \in Review(k)!What
          /\ x3[m].rows \subseteq ReviewPages[k].Payments
    BY <1>a DEF Review!Kinds, Review!What, Review!TypeOK
  <2>3. /\ x6' \in 0..ReviewPages[k].MaxRequests
        /\ \A r \in x5' : /\ Review(k)!WellMade(r) /\ r.id \in 1..x6' /\ r.kind \in Review(k)!Kinds
                          /\ r.who \in ReviewPages[k].Managers /\ r.ids \subseteq ReviewPages[k].Payments
        /\ x9' \subseteq ReviewPages[k].Managers
    BY <1>4, <2>1, <2>2, ReviewSendKeeps, Zenon
  <2>. QED
    BY <1>4, <1>a, <2>3 DEF Review!BatchDecide, Review!TypeOK, Review!FlightInv,
        Review!WellMade
<1>5. ASSUME NEW m \in ReviewPages[k].Managers, NEW v \in Review(k)!Verdicts, Review(k)!SingleDecide(m, v)
      PROVE  Review(k)!TypeOK' /\ Review(k)!FlightInv'
  <2>1. Review(k)!Send("decide", m, {x4[m].buttons}, [verdict |-> v, dialog |-> "detail"])
    BY <1>5 DEF Review!SingleDecide
  <2>2. "decide" \in Review(k)!Kinds /\ [verdict |-> v, dialog |-> "detail"] \in Review(k)!What
          /\ {x4[m].buttons} \subseteq ReviewPages[k].Payments
    BY <1>5, <1>a DEF Review!Kinds, Review!What, Review!TypeOK, Review!SingleDecide
  <2>3. /\ x6' \in 0..ReviewPages[k].MaxRequests
        /\ \A r \in x5' : /\ Review(k)!WellMade(r) /\ r.id \in 1..x6' /\ r.kind \in Review(k)!Kinds
                          /\ r.who \in ReviewPages[k].Managers /\ r.ids \subseteq ReviewPages[k].Payments
        /\ x9' \subseteq ReviewPages[k].Managers
    BY <1>5, <2>1, <2>2, ReviewSendKeeps, Zenon
  <2>. QED
    BY <1>5, <1>a, <2>3 DEF Review!SingleDecide, Review!TypeOK, Review!FlightInv,
        Review!WellMade
<1>6. ASSUME NEW m \in ReviewPages[k].Managers, Review(k)!CloseDialogs(m)
      PROVE  Review(k)!TypeOK' /\ Review(k)!FlightInv'
  <2>1. /\ x3' \in [ReviewPages[k].Managers -> [open : BOOLEAN, rows : SUBSET ReviewPages[k].Payments]]
        /\ x4' \in [ReviewPages[k].Managers -> [open : BOOLEAN,
             shown : ReviewPages[k].Payments \cup {Review(k)!NoOne},
                                     buttons : ReviewPages[k].Payments \cup {Review(k)!NoOne}]]
    BY <1>6, <1>a, ReviewDialogKeeps, Zenon DEF Review!CloseDialogs
  <2>. QED
    BY <1>6, <1>a, <2>1 DEF Review!CloseDialogs, Review!TypeOK, Review!FlightInv,
        Review!WellMade, Review!Sound
<1>7. ASSUME NEW r \in x5, Review(k)!Server(r)
      PROVE  Review(k)!TypeOK' /\ Review(k)!FlightInv'
  <2>1. PICK q \in Review(k)!Requests :
       /\ x5' = (x5 \ {r}) \cup {q}
       /\ Review(k)!WellMade(q) /\ q.id = r.id /\ q.kind = r.kind /\ q.who = r.who /\ q.ids = r.ids
       /\ q.served => (r.served /\ q.answer = r.answer) \/ \A t \in r.ids : q.answer[t] = x1'[t]
    BY <1>7, ReviewInPlace
  <2>2. /\ UNCHANGED <<x2, x3, x4, x6, x7, x8, x9, x10>>
        /\ x1' \in [ReviewPages[k].Payments -> Review(k)!Status] /\ x11' \subseteq ReviewPages[k].Payments
    BY <1>7, ReviewRowsGoOn
  <2>3. \A p \in x5' :
          p.id \in 1..x6' /\ p.kind \in Review(k)!Kinds /\ p.who \in ReviewPages[k].Managers
            /\ p.ids \subseteq ReviewPages[k].Payments
    BY <1>a, <2>1, <2>2 DEF Review!TypeOK
  <2>4. Review(k)!FlightInv'
    BY <2>1 DEF Review!Sound, Review!FlightInv, Review!WellMade
  <2>. QED
    BY <1>a, <2>2, <2>3, <2>4 DEF Review!TypeOK
<1>9. ASSUME NEW r \in x5, Review(k)!DrawList(r)
      PROVE  Review(k)!TypeOK' /\ Review(k)!FlightInv'
  <2>1. r.answer \in [ReviewPages[k].Payments -> Review(k)!Status] /\ r.who \in ReviewPages[k].Managers
    BY <1>9, <1>a DEF Review!DrawList, Review!Ready, Review!Sound, Review!FlightInv,
        Review!WellMade, Review!TypeOK
  <2>. QED
    BY <1>9, <1>a, <2>1 DEF Review!DrawList, Review!TypeOK, Review!Sound,
        Review!FlightInv, Review!WellMade, Review!Pending
<1>10. ASSUME NEW r \in x5, Review(k)!ShowBatch(r)
       PROVE  Review(k)!TypeOK' /\ Review(k)!FlightInv'
  BY <1>10, <1>a DEF Review!ShowBatch, Review!TypeOK, Review!Sound, Review!FlightInv,
      Review!WellMade
<1>11. ASSUME NEW r \in x5, Review(k)!ShowDetail(r)
       PROVE  Review(k)!TypeOK' /\ Review(k)!FlightInv'
  <2>1. PICK t \in ReviewPages[k].Payments : r.ids = {t}
    BY <1>11 DEF Review!ShowDetail, Review!Ready, Review!Sound, Review!FlightInv,
        Review!WellMade
  <2>2. Review(k)!TheOne(r.ids) = t
    BY <2>1 DEF Review!TheOne
  <2>. QED
    BY <1>11, <1>a, <2>1, <2>2 DEF Review!ShowDetail, Review!TypeOK, Review!Sound,
        Review!FlightInv, Review!WellMade
<1>12. ASSUME NEW r \in x5, Review(k)!Succeed(r)
       PROVE  Review(k)!TypeOK' /\ Review(k)!FlightInv'
  <2>1. Review(k)!WellMade(Review(k)!Request("list", r.who, ReviewPages[k].Payments, Review(k)!NoVerdict))
    BY <1>a, ReviewNewRequest DEF Review!TypeOK, Review!Kinds
  <2>2. /\ Review(k)!Request("list", r.who, ReviewPages[k].Payments, Review(k)!NoVerdict).id = x6 + 1
        /\ Review(k)!Request("list", r.who, ReviewPages[k].Payments, Review(k)!NoVerdict).kind
             \in Review(k)!Kinds
        /\ Review(k)!Request("list", r.who, ReviewPages[k].Payments, Review(k)!NoVerdict).who
             \in ReviewPages[k].Managers
        /\ Review(k)!Request("list", r.who, ReviewPages[k].Payments, Review(k)!NoVerdict).ids
             = ReviewPages[k].Payments
    BY <1>a DEF Review!Request, Review!Kinds, Review!TypeOK
  <2>3. /\ x6' \in 0..ReviewPages[k].MaxRequests
        /\ \A q \in x5' : /\ q.id \in 1..x6' /\ q.kind \in Review(k)!Kinds
                          /\ q.who \in ReviewPages[k].Managers /\ q.ids \subseteq ReviewPages[k].Payments
    BY <1>12, <1>a, <2>2 DEF Review!Succeed, Review!TypeOK
  <2>4. \A q \in x5' : Review(k)!WellMade(q)
    BY <1>12, <2>1 DEF Review!Succeed, Review!Sound, Review!FlightInv
  <2>5. Review(k)!FlightInv'
    BY <2>4 DEF Review!FlightInv, Review!WellMade
  <2>6. r.who \in ReviewPages[k].Managers /\ r.ids \subseteq ReviewPages[k].Payments
    BY <1>a DEF Review!TypeOK
  <2>7. \A d \in {"batch", "detail"} : /\ (x3[r.who].open /\ r.what.dialog # d) \in BOOLEAN
                                      /\ (x4[r.who].open /\ r.what.dialog # d) \in BOOLEAN
    OBVIOUS
  <2>8. /\ x3' \in [ReviewPages[k].Managers -> [open : BOOLEAN, rows : SUBSET ReviewPages[k].Payments]]
        /\ x4' \in [ReviewPages[k].Managers -> [open : BOOLEAN,
             shown : ReviewPages[k].Payments \cup {Review(k)!NoOne},
                                     buttons : ReviewPages[k].Payments \cup {Review(k)!NoOne}]]
    BY <1>12, <1>a, <2>6, <2>7, ReviewDialogKeeps DEF Review!Succeed
  <2>9. x10' \in [ReviewPages[k].Managers -> SUBSET ReviewPages[k].Payments]
          /\ x9' \subseteq ReviewPages[k].Managers
    BY <1>12, <1>a, <2>6 DEF Review!Succeed, Review!TypeOK
  <2>. QED
    BY <1>12, <1>a, <2>3, <2>5, <2>8, <2>9 DEF Review!Succeed, Review!TypeOK
<1>13. ASSUME NEW r \in x5, Review(k)!GiveUp(r)
       PROVE  Review(k)!TypeOK' /\ Review(k)!FlightInv'
  BY <1>13, <1>a DEF Review!GiveUp, Review!TypeOK, Review!Sound, Review!FlightInv,
      Review!WellMade
<1>14. ASSUME UNCHANGED Review(k)!vars
       PROVE  Review(k)!TypeOK' /\ Review(k)!FlightInv'
  BY <1>14, <1>a DEF Review!vars, Review!TypeOK, Review!Sound, Review!FlightInv,
      Review!WellMade
<1>. QED
  BY <1>1, <1>2, <1>3, <1>4, <1>5, <1>6, <1>7, <1>9, <1>10, <1>11, <1>12, <1>13, <1>14
     DEF Review!Next, Review!Manager, Review!Browser

LEMMA ReviewInitSound ==
  ASSUME NEW k \in DOMAIN ReviewPages, Review(k)!PaymentReviewAssumption, Review(k)!Init
  PROVE  Review(k)!Sound /\ Review(k)!WorkInv /\ Review(k)!SeenInv /\ Review(k)!Queue!Init
<1>1. Review(k)!Sound
  BY DEF Review!PaymentReviewAssumption, Review!Init, Review!Sound, Review!TypeOK,
      Review!FlightInv, Review!Pending
<1>2. Review(k)!SeenInv
  BY DEF Review!Init, Review!SeenInv
<1>3. Review(k)!Queue!Init
  BY DEF Review!Init, Review!Status, Review!Queue!Init
<1>4. Review(k)!WorkInv
  BY DEF Review!Init, Review!WorkInv
<1>. QED
  BY <1>1, <1>2, <1>3, <1>4

-----------------------------------------------------------------------------
(* Every action keeps what can be decided on among what was shown pending. *)
LEMMA ReviewStepSeen ==
  ASSUME NEW k \in DOMAIN ReviewPages, Review(k)!Sound, Review(k)!SeenInv,
         Review(k)!Next \/ UNCHANGED Review(k)!vars
  PROVE  Review(k)!SeenInv'
<1>a. Review(k)!TypeOK
  BY DEF Review!Sound
<1>b. \A kind, m, ids, what :
        Review(k)!Request(kind, m, ids, what).kind = kind /\ Review(k)!Request(kind, m, ids, what).who = m
          /\ Review(k)!Request(kind, m, ids, what).ids = ids
  BY DEF Review!Request
<1>1. ASSUME NEW m \in ReviewPages[k].Managers, Review(k)!Search(m)
      PROVE  Review(k)!SeenInv'
  BY <1>1, <1>b DEF Review!Search, Review!Send, Review!SeenInv
<1>2. ASSUME NEW m \in ReviewPages[k].Managers, NEW S \in SUBSET ReviewPages[k].Payments,
             Review(k)!GoToBatchApprove(m, S)
      PROVE  Review(k)!SeenInv'
  <2>1. S \subseteq x7[m]
    BY <1>2 DEF Review!GoToBatchApprove, Review!SeenInv
  <2>2. \A n \in ReviewPages[k].Managers : x3'[n].rows = x3[n].rows
    BY <1>2, <1>a DEF Review!GoToBatchApprove, Review!TypeOK
  <2>3. \A r \in x5' : r.kind \in {"rows", "decide"} => r.ids \subseteq x7[r.who]
    BY <1>2, <1>b, <2>1 DEF Review!GoToBatchApprove, Review!Send, Review!SeenInv
  <2>. QED
    BY <1>2, <2>2, <2>3 DEF Review!GoToBatchApprove, Review!SeenInv
<1>3. ASSUME NEW m \in ReviewPages[k].Managers, NEW t \in ReviewPages[k].Payments, Review(k)!GotoDetail(m, t)
      PROVE  Review(k)!SeenInv'
  BY <1>3, <1>b DEF Review!GotoDetail, Review!Send, Review!SeenInv
<1>4. ASSUME NEW m \in ReviewPages[k].Managers, NEW v \in Review(k)!Verdicts, Review(k)!BatchDecide(m, v)
      PROVE  Review(k)!SeenInv'
  BY <1>4, <1>b DEF Review!BatchDecide, Review!Send, Review!SeenInv
<1>5. ASSUME NEW m \in ReviewPages[k].Managers, NEW v \in Review(k)!Verdicts, Review(k)!SingleDecide(m, v)
      PROVE  Review(k)!SeenInv'
  BY <1>5, <1>b DEF Review!SingleDecide, Review!Send, Review!SeenInv
<1>6. ASSUME NEW m \in ReviewPages[k].Managers, Review(k)!CloseDialogs(m)
      PROVE  Review(k)!SeenInv'
  <2>1. \A n \in ReviewPages[k].Managers : /\ x3'[n].rows = x3[n].rows
                                           /\ x4'[n].buttons = x4[n].buttons /\ x4'[n].shown = x4[n].shown
    BY <1>6, <1>a DEF Review!CloseDialogs, Review!TypeOK
  <2>. QED
    BY <1>6, <2>1 DEF Review!CloseDialogs, Review!SeenInv
<1>7. ASSUME NEW r \in x5, Review(k)!Server(r)
      PROVE  Review(k)!SeenInv'
  <2>1. PICK q \in Review(k)!Requests :
       /\ x5' = (x5 \ {r}) \cup {q}
       /\ Review(k)!WellMade(q) /\ q.id = r.id /\ q.kind = r.kind /\ q.who = r.who /\ q.ids = r.ids
       /\ q.served => (r.served /\ q.answer = r.answer) \/ \A t \in r.ids : q.answer[t] = x1'[t]
    BY <1>7, ReviewInPlace
  <2>2. UNCHANGED <<x2, x3, x4, x7>>
    BY <1>7, ReviewRowsGoOn
  <2>3. \A p \in x5' : p.kind \in {"rows", "decide"} => p.ids \subseteq x7[p.who]
    BY <2>1 DEF Review!SeenInv
  <2>. QED
    BY <2>2, <2>3 DEF Review!SeenInv
<1>10. ASSUME NEW r \in x5, Review(k)!DrawList(r)
       PROVE  Review(k)!SeenInv'
  <2>1. r.who \in ReviewPages[k].Managers
    BY <1>a DEF Review!TypeOK
  <2>2. \A n \in ReviewPages[k].Managers :
          x7[n] \subseteq x7'[n] /\ Review(k)!Pending(x2'[n]) \subseteq x7'[n]
    BY <1>10, <1>a, <2>1 DEF Review!DrawList, Review!TypeOK, Review!SeenInv
  <2>3. \A q \in x5 : q.who \in ReviewPages[k].Managers
    BY <1>a DEF Review!TypeOK
  <2>. QED
    BY <1>10, <2>2, <2>3 DEF Review!DrawList, Review!SeenInv
<1>11. ASSUME NEW r \in x5, Review(k)!ShowBatch(r)
       PROVE  Review(k)!SeenInv'
  <2>1. r.who \in ReviewPages[k].Managers /\ r.ids \subseteq x7[r.who]
    BY <1>11, <1>a DEF Review!ShowBatch, Review!Ready, Review!TypeOK, Review!SeenInv
  <2>2. \A n \in ReviewPages[k].Managers : x3'[n].rows \subseteq x7[n]
    BY <1>11, <1>a, <2>1 DEF Review!ShowBatch, Review!TypeOK, Review!SeenInv
  <2>. QED
    BY <1>11, <2>2 DEF Review!ShowBatch, Review!SeenInv
<1>12. ASSUME NEW r \in x5, Review(k)!ShowDetail(r)
       PROVE  Review(k)!SeenInv'
  <2>1. PICK t \in ReviewPages[k].Payments : r.ids = {t}
    BY <1>12 DEF Review!ShowDetail, Review!Ready, Review!Sound, Review!FlightInv,
        Review!WellMade
  <2>2. Review(k)!TheOne(r.ids) = t
    BY <2>1 DEF Review!TheOne
  <2>3. r.who \in ReviewPages[k].Managers
    BY <1>a DEF Review!TypeOK
  <2>4. \A n \in ReviewPages[k].Managers : x7[n] \subseteq x7'[n]
    BY <1>12, <1>a, <2>3 DEF Review!ShowDetail, Review!TypeOK
  <2>5. \A n \in ReviewPages[k].Managers : /\ x4'[n].buttons # Review(k)!NoOne => x4'[n].buttons \in x7'[n]
                                           /\ x4'[n].buttons \in {x4'[n].shown, Review(k)!NoOne}
    BY <1>12, <1>a, <2>2, <2>3, <2>4 DEF Review!ShowDetail, Review!TypeOK, Review!SeenInv
  <2>6. \A q \in x5 : q.who \in ReviewPages[k].Managers
    BY <1>a DEF Review!TypeOK
  <2>7. \A q \in x5' : q.kind \in {"rows", "decide"} => q.ids \subseteq x7'[q.who]
    BY <1>12, <2>4, <2>6 DEF Review!ShowDetail, Review!SeenInv
  <2>. QED
    BY <1>12, <2>4, <2>5, <2>7 DEF Review!ShowDetail, Review!SeenInv
<1>13. ASSUME NEW r \in x5, Review(k)!Succeed(r)
       PROVE  Review(k)!SeenInv'
  <2>1. \A n \in ReviewPages[k].Managers : /\ x3'[n].rows = x3[n].rows
                                           /\ x4'[n].buttons = x4[n].buttons /\ x4'[n].shown = x4[n].shown
    BY <1>13, <1>a DEF Review!Succeed, Review!TypeOK
  <2>2. \A q \in x5' : q.kind \in {"rows", "decide"} => q.ids \subseteq x7[q.who]
    BY <1>13, <1>b DEF Review!Succeed, Review!SeenInv
  <2>. QED
    BY <1>13, <2>1, <2>2 DEF Review!Succeed, Review!SeenInv
<1>14. ASSUME NEW r \in x5, Review(k)!GiveUp(r)
       PROVE  Review(k)!SeenInv'
  BY <1>14 DEF Review!GiveUp, Review!SeenInv
<1>15. CASE UNCHANGED Review(k)!vars
  BY <1>15 DEF Review!vars, Review!SeenInv, Review!Pending
<1>. QED
  BY <1>1, <1>2, <1>3, <1>4, <1>5, <1>6, <1>7, <1>10, <1>11, <1>12, <1>13, <1>14, <1>15
     DEF Review!Next, Review!Manager, Review!Browser

-----------------------------------------------------------------------------
(* What a step does to the rows is done by the server. *)
LEMMA ReviewOthersAsk ==
  ASSUME NEW k \in DOMAIN ReviewPages, Review(k)!Next \/ UNCHANGED Review(k)!vars
  PROVE  \/ \E r \in x5 : Review(k)!Server(r)
         \/ /\ x1' = x1 /\ x11' = x11
            /\ \A p \in x5' : p \in x5 \/ p.left = {}
<1>1. \A kind, m, ids, what : Review(k)!Request(kind, m, ids, what).left = {}
  BY DEF Review!Request
<1>2. \A kind, m, ids, what : Review(k)!Send(kind, m, ids, what) => \A p \in x5' : p \in x5 \/ p.left = {}
  BY <1>1 DEF Review!Send
<1>. HIDE DEF Review!Request
<1>3. ASSUME NEW m \in ReviewPages[k].Managers, Review(k)!Manager(m)
      PROVE  x1' = x1 /\ x11' = x11 /\ \A p \in x5' : p \in x5 \/ p.left = {}
  BY <1>2, <1>3 DEF Review!Manager, Review!Search, Review!GoToBatchApprove,
      Review!GotoDetail, Review!BatchDecide, Review!SingleDecide, Review!CloseDialogs
<1>4. ASSUME NEW r \in x5, Review(k)!Browser(r)
      PROVE  x1' = x1 /\ x11' = x11 /\ \A p \in x5' : p \in x5 \/ p.left = {}
  BY <1>1, <1>4 DEF Review!Browser, Review!DrawList, Review!ShowBatch, Review!ShowDetail,
      Review!Succeed, Review!GiveUp
<1>. QED
  BY <1>3, <1>4 DEF Review!Next, Review!vars

(* Every action keeps what is left to decide pending or contested. *)
LEMMA ReviewStepWork ==
  ASSUME NEW k \in DOMAIN ReviewPages, Review(k)!Sound, Review(k)!WorkInv,
         Review(k)!Next \/ UNCHANGED Review(k)!vars
  PROVE  Review(k)!WorkInv'
<1>1. ASSUME x1' = x1, x11' = x11, \A p \in x5' : p \in x5 \/ p.left = {}
      PROVE  Review(k)!WorkInv'
  BY <1>1 DEF Review!WorkInv
<1>2. ASSUME NEW r \in x5, NEW q, NEW done, x5' = (x5 \ {r}) \cup {q}, x11' = x11,
             q.left \subseteq r.left, done \subseteq r.left, done \cap q.left = {},
               r.left \subseteq ReviewPages[k].Payments,
             \A t \in ReviewPages[k].Payments \ done : x1'[t] = x1[t]
      PROVE  Review(k)!WorkInv'
  <2>1. \A p \in x5 : p.left \subseteq ReviewPages[k].Payments
    BY DEF Review!Sound, Review!FlightInv, Review!WellMade, Review!Requests
  <2>2. \A t \in q.left : x1'[t] = "NEW" \/ t \in x11
    BY <1>2 DEF Review!WorkInv
  <2>3. \A p \in x5 \ {r} : \A t \in p.left : x1'[t] = "NEW" \/ t \in x11
    BY <1>2, <2>1 DEF Review!WorkInv
  <2>4. \A p \in x5 \ {r} : p.left \cap q.left \subseteq x11
    BY <1>2 DEF Review!WorkInv
  <2>. QED
    BY <1>2, <2>2, <2>3, <2>4 DEF Review!WorkInv
<1>3. ASSUME NEW r \in x5, Review(k)!Server(r)
      PROVE  Review(k)!WorkInv'
  <2>0. r \in Review(k)!Requests /\ r.left \subseteq ReviewPages[k].Payments
    BY DEF Review!Sound, Review!FlightInv, Review!WellMade, Review!Requests
  <2>1. CASE Review(k)!Query(r)
    <3>1. PICK q : q = [r EXCEPT !.served = TRUE, !.ok = TRUE, !.answer = [t \in r.ids |-> x1[t]]]
      OBVIOUS
    <3>2. q.left = r.left /\ x5' = (x5 \ {r}) \cup {q} /\ x11' = x11 /\ x1' = x1
      BY <2>1, <3>1, <2>0 DEF Review!Query, Review!Requests
    <3>. DEFINE done == {}
    <3>3. q.left \subseteq r.left /\ done \subseteq r.left /\ done \cap q.left = {}
            /\ \A t \in ReviewPages[k].Payments \ done : x1'[t] = x1[t]
      BY <3>2
    <3>. HIDE DEF done
    <3>. QED
      BY <1>2, <3>2, <3>3, <2>0
  <2>2. CASE Review(k)!Respond(r)
    <3>1. PICK q : q = [r EXCEPT !.served = TRUE, !.ok = Review(k)!HearsSuccess(r),
                 !.answer = [t \in r.ids |-> x1[t]]]
      OBVIOUS
    <3>2. q.left = r.left /\ x5' = (x5 \ {r}) \cup {q} /\ x11' = x11 /\ x1' = x1
      BY <2>2, <3>1, <2>0 DEF Review!Respond, Review!Requests
    <3>. DEFINE done == {}
    <3>3. q.left \subseteq r.left /\ done \subseteq r.left /\ done \cap q.left = {}
            /\ \A t \in ReviewPages[k].Payments \ done : x1'[t] = x1[t]
      BY <3>2
    <3>. HIDE DEF done
    <3>. QED
      BY <1>2, <3>2, <3>3, <2>0
  <2>3. CASE Review(k)!ReadRows(r)
    <3>1. PICK q : q = [r EXCEPT !.read = TRUE, !.work = Review(k)!PendingOf(r),
                 !.left = Review(k)!PendingOf(r)]
      OBVIOUS
    <3>2. /\ q.left = Review(k)!PendingOf(r) /\ x5' = (x5 \ {r}) \cup {q} /\ x1' = x1
          /\ x11' = x11 \cup {t \in Review(k)!PendingOf(r) : \E p \in x5 \ {r} : t \in p.left}
      BY <2>3, <3>1, <2>0 DEF Review!ReadRows, Review!Requests
    <3>3. \A t \in q.left : x1[t] = "NEW"
      BY <3>2 DEF Review!PendingOf
    <3>. QED
      BY <3>2, <3>3 DEF Review!WorkInv
  <2>4. CASE Review(k)!Decide(r)
    <3>0a. PICK S \in Review(k)!Handled(r) : \E done \in Review(k)!Effect(r, S) :
                  \E counted \in Review(k)!Counts(r, S, done) :
            /\ x1' = [t \in ReviewPages[k].Payments |-> IF t \in done THEN r.what.verdict ELSE x1[t]]
            /\ x5' = (x5 \ {r}) \cup {[r EXCEPT !.left = @ \ S, !.counted = @ \cup counted]}
      BY <2>4 DEF Review!Decide, Review!Writes
    <3>0b. PICK done \in Review(k)!Effect(r, S) : \E counted \in Review(k)!Counts(r, S, done) :
            /\ x1' = [t \in ReviewPages[k].Payments |-> IF t \in done THEN r.what.verdict ELSE x1[t]]
            /\ x5' = (x5 \ {r}) \cup {[r EXCEPT !.left = @ \ S, !.counted = @ \cup counted]}
      BY <3>0a
    <3>1. PICK counted \in Review(k)!Counts(r, S, done) :
            /\ x1' = [t \in ReviewPages[k].Payments |-> IF t \in done THEN r.what.verdict ELSE x1[t]]
            /\ x5' = (x5 \ {r}) \cup {[r EXCEPT !.left = @ \ S, !.counted = @ \cup counted]}
      BY <3>0b
    <3>2. PICK q : q = [r EXCEPT !.left = @ \ S, !.counted = @ \cup counted]
      OBVIOUS
    <3>3. q.left = r.left \ S
      BY <3>2, <2>0 DEF Review!Requests
    <3>4. done \subseteq S /\ S \subseteq r.left
      BY ReviewWriting
    <3>5. x11' = x11
      BY <2>4 DEF Review!Decide, Review!Writes
    <3>6. /\ q.left \subseteq r.left /\ done \subseteq r.left /\ done \cap q.left = {}
          /\ \A t \in ReviewPages[k].Payments \ done : x1'[t] = x1[t]
      BY <3>1, <3>3, <3>4
    <3>. QED
      BY <1>2, <2>0, <3>1, <3>2, <3>5, <3>6
  <2>. QED
    BY <1>3, <2>1, <2>2, <2>3, <2>4 DEF Review!Server
<1>. QED
  BY <1>1, <1>3, ReviewOthersAsk

-----------------------------------------------------------------------------
(* Deciding on rows that are pending or contested is a step of the queue. *)
LEMMA ReviewDecideIsQueueStep ==
  ASSUME NEW k \in DOMAIN ReviewPages, Review(k)!TypeOK, NEW done,
         done \subseteq {t \in ReviewPages[k].Payments : x1[t] = "NEW"} \cup x11,
           NEW v \in Review(k)!Verdicts,
         x1' = [t \in ReviewPages[k].Payments |-> IF t \in done THEN v ELSE x1[t]], x11' = x11
  PROVE  Review(k)!Queue!Next
<1>1. \A t \in ReviewPages[k].Payments : x1'[t] = IF t \in done THEN v ELSE x1[t]
  OBVIOUS
<1>0. done \in SUBSET ReviewPages[k].Payments
  BY DEF Review!TypeOK
<1>2. CASE v = "CONFIRMED"
  <2>1. Review(k)!Queue!Approve(done)
    BY <1>0, <1>1, <1>2 DEF Review!Queue!Approve
  <2>. QED
    BY <1>0, <2>1 DEF Review!Queue!Next
<1>3. CASE v = "CLOSE"
  <2>1. Review(k)!Queue!Reject(done)
    BY <1>0, <1>1, <1>3 DEF Review!Queue!Reject
  <2>. QED
    BY <1>0, <2>1 DEF Review!Queue!Next
<1>. QED
  BY <1>2, <1>3 DEF Review!Verdicts

(* Every step of the pages is a step of the queue or leaves it alone. *)
LEMMA ReviewStepQueue ==
  ASSUME NEW k \in DOMAIN ReviewPages, Review(k)!Sound, Review(k)!WorkInv,
         Review(k)!Next \/ UNCHANGED Review(k)!vars
  PROVE  Review(k)!DecidesOnce
<1>1. ASSUME NEW r \in x5, Review(k)!Decide(r)
      PROVE  Review(k)!Queue!Next
  <2>1. Review(k)!WellMade(r) /\ r.left \subseteq ReviewPages[k].Payments /\ Review(k)!TypeOK
    BY DEF Review!Sound, Review!FlightInv, Review!WellMade, Review!Requests
  <2>2. r.what.verdict \in Review(k)!Verdicts /\ x11' = x11
    BY <1>1, <2>1 DEF Review!Decide, Review!Writes, Review!WellMade, Review!What
  <2>a. PICK S \in Review(k)!Handled(r) : \E done \in Review(k)!Effect(r, S) :
          x1' = [t \in ReviewPages[k].Payments |-> IF t \in done THEN r.what.verdict ELSE x1[t]]
    BY <1>1 DEF Review!Decide, Review!Writes
  <2>3. PICK done \in Review(k)!Effect(r, S) :
               x1' = [t \in ReviewPages[k].Payments |-> IF t \in done THEN r.what.verdict ELSE x1[t]]
    BY <2>a
  <2>4. done \subseteq r.left
    BY ReviewWriting
  <2>5. done \subseteq {t \in ReviewPages[k].Payments : x1[t] = "NEW"} \cup x11
    BY <2>1, <2>4 DEF Review!WorkInv
  <2>. QED
    BY <2>1, <2>2, <2>3, <2>5, ReviewDecideIsQueueStep
<1>2. ASSUME NEW r \in x5, Review(k)!ReadRows(r)
      PROVE  Review(k)!Queue!Next
  <2>. DEFINE S == {t \in Review(k)!PendingOf(r) : \E q \in x5 \ {r} : t \in q.left}
  <2>1. S \subseteq {t \in ReviewPages[k].Payments : x1[t] = "NEW"} /\ S \in SUBSET ReviewPages[k].Payments
    BY DEF Review!Sound, Review!TypeOK, Review!PendingOf
  <2>2. x11' = x11 \cup S /\ x1' = x1
    BY <1>2 DEF Review!ReadRows
  <2>. HIDE DEF S
  <2>3. Review(k)!Queue!Contest(S)
    BY <2>1, <2>2 DEF Review!Queue!Contest
  <2>. QED
    BY <2>1, <2>3 DEF Review!Queue!Next
<1>3. CASE x1' = x1 /\ x11' = x11
  BY <1>3 DEF Review!DecidesOnce
<1>4. (\E r \in x5 : Review(k)!Decide(r) \/ Review(k)!ReadRows(r)) \/ (x1' = x1 /\ x11' = x11)
  BY ReviewOthersAsk DEF Review!Server, Review!Query, Review!Respond
<1>. QED
  BY <1>1, <1>2, <1>3, <1>4 DEF Review!DecidesOnce

-----------------------------------------------------------------------------
(* Working on a request in place leaves who asked for what. *)
LEMMA ReviewServedAsks ==
  ASSUME NEW k \in DOMAIN ReviewPages, NEW r \in x5, NEW q, q.kind = r.kind, q.who = r.who,
         x5' = (x5 \ {r}) \cup {q}
  PROVE  \A m \in ReviewPages[k].Managers, kind \in Review(k)!Kinds :
           Review(k)!Asks(m, kind)' = IF r \in Review(k)!Asks(m, kind)
             THEN (Review(k)!Asks(m, kind) \ {r}) \cup {q} ELSE Review(k)!Asks(m, kind)
BY DEF Review!Asks

LEMMA ReviewGoneAsks ==
  ASSUME NEW k \in DOMAIN ReviewPages, NEW r, x5' = x5 \ {r}
  PROVE  \A n \in ReviewPages[k].Managers,
           kind \in Review(k)!Kinds : Review(k)!Asks(n, kind)' = Review(k)!Asks(n, kind) \ {r}
BY DEF Review!Asks

(* What Send means for those who have not raced.                           *)
LEMMA ReviewSendAsks ==
  ASSUME NEW k \in DOMAIN ReviewPages, NEW kind \in Review(k)!Kinds, NEW m \in ReviewPages[k].Managers,
         NEW ids, NEW what, Review(k)!Send(kind, m, ids, what), x9 \subseteq ReviewPages[k].Managers
  PROVE  /\ \A n \in ReviewPages[k].Managers, other \in Review(k)!Kinds :
              Review(k)!Asks(n, other)' = IF n = m /\ other = kind
                THEN Review(k)!Asks(n, other) \cup {Review(k)!Request(kind, m, ids, what)}
                                ELSE Review(k)!Asks(n, other)
         /\ x9 \subseteq x9'
         /\ m \notin x9' => Review(k)!Asks(m, kind) = {}
<1>. DEFINE q == Review(k)!Request(kind, m, ids, what)
<1>1. q.kind = kind /\ q.who = m /\ x5' = x5 \cup {q}
  BY DEF Review!Request, Review!Send
<1>. HIDE DEF q
<1>2. \A n \in ReviewPages[k].Managers, other \in Review(k)!Kinds :
        Review(k)!Asks(n, other)' = IF n = m /\ other = kind THEN Review(k)!Asks(n, other) \cup {q}
          ELSE Review(k)!Asks(n, other)
  BY <1>1 DEF Review!Asks
<1>3. x9 \subseteq x9' /\ (m \notin x9' => Review(k)!Asks(m, kind) = {})
  BY DEF Review!Send, Review!Asks
<1>. QED
  BY <1>2, <1>3 DEF q

(* Every action keeps the rows on their way those of the selection.        *)
LEMMA ReviewStepRows ==
  ASSUME NEW k \in DOMAIN ReviewPages, Review(k)!Sound, Review(k)!RowsInv,
         Review(k)!Next \/ UNCHANGED Review(k)!vars
  PROVE  Review(k)!RowsInv'
<1>a. Review(k)!TypeOK /\ "rows" \in Review(k)!Kinds
  BY DEF Review!Sound, Review!Kinds
<1>c. ASSUME x9 \subseteq x9',
             \A n \in ReviewPages[k].Managers : Review(k)!Asks(n, "rows")' = Review(k)!Asks(n, "rows"),
             \A n \in ReviewPages[k].Managers : x3'[n].rows = x3[n].rows,
             x8' = x8
      PROVE  Review(k)!RowsInv'
  BY <1>c DEF Review!RowsInv
<1>1. ASSUME NEW m \in ReviewPages[k].Managers, NEW kind \in Review(k)!Kinds \ {"rows"}, NEW ids, NEW what,
             Review(k)!Send(kind, m, ids, what), UNCHANGED <<x3, x8>>
      PROVE  Review(k)!RowsInv'
  <2>1. kind \in Review(k)!Kinds /\ kind # "rows" /\ x9 \subseteq ReviewPages[k].Managers
    BY <1>a DEF Review!TypeOK
  <2>2. x9 \subseteq x9' /\ \A n \in ReviewPages[k].Managers :
          Review(k)!Asks(n, "rows")' = Review(k)!Asks(n, "rows")
    BY <1>1, <1>a, <2>1, ReviewSendAsks
  <2>. QED
    BY <1>1, <1>c, <2>2
<1>2. ASSUME NEW m \in ReviewPages[k].Managers, NEW S \in SUBSET ReviewPages[k].Payments,
             Review(k)!GoToBatchApprove(m, S)
      PROVE  Review(k)!RowsInv'
  <2>1. Review(k)!Send("rows", m, S, Review(k)!NoVerdict) /\ x8' = [x8 EXCEPT ![m] = S]
    BY <1>2 DEF Review!GoToBatchApprove
  <2>2. \A n \in ReviewPages[k].Managers : x3'[n].rows = x3[n].rows
    BY <1>2, <1>a DEF Review!GoToBatchApprove, Review!TypeOK
  <2>3. /\ \A n \in ReviewPages[k].Managers :
             n # m => Review(k)!Asks(n, "rows")' = Review(k)!Asks(n, "rows") /\ x8'[n] = x8[n]
        /\ m \notin x9' => Review(k)!Asks(m, "rows")' = {Review(k)!Request("rows", m, S, Review(k)!NoVerdict)}
        /\ x9 \subseteq x9'
    BY <2>1, <1>a, ReviewSendAsks DEF Review!TypeOK
  <2>4. Review(k)!Request("rows", m, S, Review(k)!NoVerdict).ids = S /\ x8'[m] = S
    BY <2>1, <1>a DEF Review!Request, Review!TypeOK
  <2>. QED
    BY <2>2, <2>3, <2>4 DEF Review!RowsInv
<1>3. ASSUME NEW r \in x5, Review(k)!Server(r)
      PROVE  Review(k)!RowsInv'
  <2>1. PICK q \in Review(k)!Requests :
       /\ x5' = (x5 \ {r}) \cup {q}
       /\ Review(k)!WellMade(q) /\ q.id = r.id /\ q.kind = r.kind /\ q.who = r.who /\ q.ids = r.ids
       /\ q.served => (r.served /\ q.answer = r.answer) \/ \A t \in r.ids : q.answer[t] = x1'[t]
    BY <1>3, ReviewInPlace
  <2>2. UNCHANGED <<x3, x8, x9>>
    BY <1>3, ReviewRowsGoOn
  <2>3. \A n \in ReviewPages[k].Managers :
          Review(k)!Asks(n, "rows")' = IF r \in Review(k)!Asks(n, "rows")
            THEN (Review(k)!Asks(n, "rows") \ {r}) \cup {q}
                                               ELSE Review(k)!Asks(n, "rows")
    BY <1>a, <2>1, ReviewServedAsks
  <2>. QED
    BY <2>1, <2>2, <2>3 DEF Review!RowsInv
<1>4. ASSUME NEW r \in x5, r.kind # "rows", x5' = x5 \ {r}, x9 \subseteq x9',
             \A n \in ReviewPages[k].Managers : x3'[n].rows = x3[n].rows, x8' = x8
      PROVE  Review(k)!RowsInv'
  <2>1. \A n \in ReviewPages[k].Managers : Review(k)!Asks(n, "rows")' = Review(k)!Asks(n, "rows")
    BY <1>4, <1>a, ReviewGoneAsks DEF Review!Asks
  <2>. QED
    BY <1>4, <1>c, <2>1
<1>5. ASSUME NEW m \in ReviewPages[k].Managers, Review(k)!CloseDialogs(m)
      PROVE  Review(k)!RowsInv'
  <2>1. /\ \A n \in ReviewPages[k].Managers : x3'[n].rows = x3[n].rows
        /\ x5' = x5 /\ x8' = x8 /\ x9' = x9
    BY <1>5, <1>a DEF Review!CloseDialogs, Review!TypeOK
  <2>2. \A n \in ReviewPages[k].Managers : Review(k)!Asks(n, "rows")' = Review(k)!Asks(n, "rows")
    BY <2>1 DEF Review!Asks
  <2>. QED
    BY <1>c, <2>1, <2>2
<1>6. ASSUME NEW r \in x5, Review(k)!ShowBatch(r)
      PROVE  Review(k)!RowsInv'
  <2>1. r \in Review(k)!Asks(r.who, "rows") /\ r.who \in ReviewPages[k].Managers
    BY <1>6, <1>a DEF Review!ShowBatch, Review!Ready, Review!TypeOK, Review!Asks
  <2>2. \A n \in ReviewPages[k].Managers : Review(k)!Asks(n, "rows")' = Review(k)!Asks(n, "rows") \ {r}
    BY <1>6, <1>a, ReviewGoneAsks DEF Review!ShowBatch
  <2>3. x3'[r.who].rows = r.ids /\ \A n \in ReviewPages[k].Managers :
          n # r.who => x3'[n].rows = x3[n].rows /\ r \notin Review(k)!Asks(n, "rows")
    BY <1>6, <1>a, <2>1 DEF Review!ShowBatch, Review!TypeOK, Review!Asks
  <2>4. x8' = x8 /\ x9' = x9
    BY <1>6 DEF Review!ShowBatch
  <2>. QED
    BY <2>1, <2>2, <2>3, <2>4 DEF Review!RowsInv
<1>7. ASSUME NEW r \in x5, Review(k)!Succeed(r)
      PROVE  Review(k)!RowsInv'
  <2>1. /\ \A n \in ReviewPages[k].Managers : x3'[n].rows = x3[n].rows
        /\ x8' = x8 /\ x9 \subseteq x9' /\ r.kind = "decide"
    BY <1>7, <1>a DEF Review!Succeed, Review!TypeOK, Review!Ready
  <2>2. x5' = (x5 \ {r}) \cup {Review(k)!Request("list", r.who, ReviewPages[k].Payments, Review(k)!NoVerdict)}
    BY <1>7 DEF Review!Succeed
  <2>3. \A n \in ReviewPages[k].Managers : Review(k)!Asks(n, "rows")' = Review(k)!Asks(n, "rows") \ {r}
    <3>. DEFINE q == Review(k)!Request("list", r.who, ReviewPages[k].Payments, Review(k)!NoVerdict)
    <3>1. q.kind = "list"
      BY DEF Review!Request
    <3>. HIDE DEF q
    <3>2. x5' = (x5 \ {r}) \cup {q}
      BY <2>2 DEF q
    <3>. QED
      BY <3>1, <3>2 DEF Review!Asks
  <2>4. \A n \in ReviewPages[k].Managers : Review(k)!Asks(n, "rows")' = Review(k)!Asks(n, "rows")
    BY <2>1, <2>3 DEF Review!Asks
  <2>. QED
    BY <1>c, <2>1, <2>4
<1>8. ASSUME NEW r \in x5, Review(k)!GiveUp(r)
      PROVE  Review(k)!RowsInv'
  <2>1. \A n \in ReviewPages[k].Managers \ x9' : r \notin Review(k)!Asks(n, "rows")
    BY <1>8 DEF Review!GiveUp, Review!Asks
  <2>2. \A n \in ReviewPages[k].Managers : Review(k)!Asks(n, "rows")' = Review(k)!Asks(n, "rows") \ {r}
    BY <1>8, <1>a, ReviewGoneAsks DEF Review!GiveUp
  <2>. QED
    BY <1>8, <2>1, <2>2 DEF Review!GiveUp, Review!RowsInv
<1>9. CASE UNCHANGED Review(k)!vars
  BY <1>9 DEF Review!vars, Review!RowsInv, Review!Asks
<1>10. ASSUME NEW m \in ReviewPages[k].Managers, Review(k)!Manager(m)
       PROVE  Review(k)!RowsInv'
  <2>1. {"list", "detail", "decide"} \subseteq Review(k)!Kinds \ {"rows"}
    BY DEF Review!Kinds
  <2>2. CASE Review(k)!Search(m)
    BY <2>1, <2>2, <1>1 DEF Review!Search
  <2>3. ASSUME NEW t \in ReviewPages[k].Payments, Review(k)!GotoDetail(m, t)
        PROVE  Review(k)!RowsInv'
    BY <2>1, <2>3, <1>1 DEF Review!GotoDetail
  <2>4. ASSUME NEW v \in Review(k)!Verdicts, Review(k)!BatchDecide(m, v)
        PROVE  Review(k)!RowsInv'
    BY <2>1, <2>4, <1>1 DEF Review!BatchDecide
  <2>5. ASSUME NEW v \in Review(k)!Verdicts, Review(k)!SingleDecide(m, v)
        PROVE  Review(k)!RowsInv'
    BY <2>1, <2>5, <1>1 DEF Review!SingleDecide
  <2>. QED
    BY <1>10, <2>2, <2>3, <2>4, <2>5, <1>2, <1>5 DEF Review!Manager
<1>12. ASSUME NEW r \in x5, Review(k)!Browser(r)
       PROVE  Review(k)!RowsInv'
  <2>1. CASE Review(k)!DrawList(r)
    BY <2>1, <1>4 DEF Review!DrawList, Review!Ready
  <2>2. CASE Review(k)!ShowDetail(r)
    BY <2>2, <1>4 DEF Review!ShowDetail, Review!Ready
  <2>. QED
    BY <1>12, <2>1, <2>2, <1>6, <1>7, <1>8 DEF Review!Browser
<1>. QED
  BY <1>3, <1>9, <1>10, <1>12 DEF Review!Next

(* Every action keeps the decisions of a manager out of the manager's list. *)
LEMMA ReviewStepFresh ==
  ASSUME NEW k \in DOMAIN ReviewPages, Review(k)!Sound, Review(k)!FreshInv,
         Review(k)!Next \/ UNCHANGED Review(k)!vars
  PROVE  Review(k)!FreshInv'
<1>a. Review(k)!TypeOK /\ "list" \in Review(k)!Kinds
  BY DEF Review!Sound, Review!Kinds
<1>c. \A t \in ReviewPages[k].Payments : x1[t] # "NEW" => x1'[t] # "NEW"
  BY ReviewOthersAsk, ReviewRowsGoOn
(* The parts of the invariant, for steps that only move a request.         *)
<1>d. ASSUME x10' = x10, x2' = x2, x9 \subseteq x9',
             \A r \in x5' : r.kind = "decide" => r \in x5,
             \A n \in ReviewPages[k].Managers : Review(k)!Asks(n, "list")' = Review(k)!Asks(n, "list")
      PROVE  Review(k)!FreshInv'
  <2>1. \A r \in x5 : r.ids \subseteq ReviewPages[k].Payments
    BY <1>a DEF Review!TypeOK
  <2>2. \A n \in ReviewPages[k].Managers : x10[n] \subseteq ReviewPages[k].Payments
    BY <1>a DEF Review!TypeOK
  <2>3. \A r \in x5' : r.kind = "decide" /\ r.served => \A t \in r.ids : r.answer[t] # "NEW" => x1'[t] # "NEW"
    BY <1>c, <1>d, <2>1 DEF Review!FreshInv
  <2>4. \A m \in ReviewPages[k].Managers : \A t \in x10'[m] : x1'[t] # "NEW"
    BY <1>c, <1>d, <2>2 DEF Review!FreshInv
  <2>. QED
    BY <1>d, <2>3, <2>4 DEF Review!FreshInv
<1>1. ASSUME NEW m \in ReviewPages[k].Managers, NEW kind \in Review(k)!Kinds \ {"list"}, NEW ids, NEW what,
             Review(k)!Send(kind, m, ids, what), UNCHANGED <<x2, x10>>
      PROVE  Review(k)!FreshInv'
  <2>0. kind \in Review(k)!Kinds /\ kind # "list" /\ x9 \subseteq ReviewPages[k].Managers
    BY <1>a DEF Review!TypeOK
  <2>1. \A n \in ReviewPages[k].Managers : Review(k)!Asks(n, "list")' = Review(k)!Asks(n, "list")
    BY <1>1, <1>a, <2>0, ReviewSendAsks
  <2>. DEFINE q == Review(k)!Request(kind, m, ids, what)
  <2>2. x5' = x5 \cup {q} /\ x9 \subseteq x9' /\ q.kind = kind /\ ~q.served
    BY <1>1 DEF Review!Send, Review!Request
  <2>. HIDE DEF q
  <2>3. \A r \in x5 : r.ids \subseteq ReviewPages[k].Payments
    BY <1>a DEF Review!TypeOK
  <2>4. \A n \in ReviewPages[k].Managers : x10[n] \subseteq ReviewPages[k].Payments
    BY <1>a DEF Review!TypeOK
  <2>. QED
    BY <1>1, <1>c, <2>1, <2>2, <2>3, <2>4 DEF Review!FreshInv
<1>2. ASSUME NEW m \in ReviewPages[k].Managers, Review(k)!Search(m)
      PROVE  Review(k)!FreshInv'
  <2>. DEFINE q == Review(k)!Request("list", m, ReviewPages[k].Payments, Review(k)!NoVerdict)
  <2>1. x5' = x5 \cup {q} /\ q.kind = "list" /\ q.who = m /\ ~q.served
    BY <1>2 DEF Review!Search, Review!Send, Review!Request
  <2>. HIDE DEF q
  <2>2. /\ Review(k)!Asks(m, "list") = {} /\ Review(k)!Asks(m, "list")' = {q}
        /\ \A n \in ReviewPages[k].Managers \ {m} : Review(k)!Asks(n, "list")' = Review(k)!Asks(n, "list")
    BY <1>2, <2>1 DEF Review!Asks, Review!Search, Review!Loading
  <2>3. UNCHANGED <<x1, x2, x10>> /\ x9 \subseteq x9'
    BY <1>2 DEF Review!Search, Review!Send
  <2>. QED
    BY <2>1, <2>2, <2>3 DEF Review!FreshInv
<1>3. ASSUME NEW r \in x5, Review(k)!Server(r)
      PROVE  Review(k)!FreshInv'
  <2>1. PICK q \in Review(k)!Requests :
       /\ x5' = (x5 \ {r}) \cup {q}
       /\ Review(k)!WellMade(q) /\ q.id = r.id /\ q.kind = r.kind /\ q.who = r.who /\ q.ids = r.ids
       /\ q.served => (r.served /\ q.answer = r.answer) \/ \A t \in r.ids : q.answer[t] = x1'[t]
    BY <1>3, ReviewInPlace
  <2>2. UNCHANGED <<x2, x10, x9>>
    BY <1>3, ReviewRowsGoOn
  <2>3. \A p \in x5 : p.ids \subseteq ReviewPages[k].Payments
    BY <1>a DEF Review!TypeOK
  <2>4. \A n \in ReviewPages[k].Managers : x10[n] \subseteq ReviewPages[k].Payments
    BY <1>a DEF Review!TypeOK
  <2>5. \A n \in ReviewPages[k].Managers : \A t \in x10[n] : x1'[t] # "NEW"
    BY <1>c, <2>4 DEF Review!FreshInv
  <2>6. \A p \in x5' : p.kind = "decide" /\ p.served => \A t \in p.ids : p.answer[t] # "NEW" => x1'[t] # "NEW"
    <3>1. q.kind = "decide" /\ q.served => \A t \in q.ids : q.answer[t] # "NEW" => x1'[t] # "NEW"
      BY <1>c, <2>1, <2>3 DEF Review!FreshInv
    <3>. QED
      BY <1>c, <2>1, <2>3, <3>1 DEF Review!FreshInv
  <2>7. \A n \in ReviewPages[k].Managers :
          Review(k)!Asks(n, "list")' = IF r \in Review(k)!Asks(n, "list")
            THEN (Review(k)!Asks(n, "list") \ {r}) \cup {q}
                                               ELSE Review(k)!Asks(n, "list")
    BY <1>a, <2>1, ReviewServedAsks
  <2>8. ASSUME NEW n \in ReviewPages[k].Managers \ x9, r \in Review(k)!Asks(n, "list"), q.served
        PROVE  x10[n] \cap Review(k)!Pending(q.answer) = {}
    <3>1. CASE r.served /\ q.answer = r.answer
      BY <2>8, <3>1 DEF Review!FreshInv
    <3>2. CASE \A t \in r.ids : q.answer[t] = x1'[t]
      <4>1. r.kind = "list" /\ r.ids = ReviewPages[k].Payments
        BY <2>1, <2>8 DEF Review!Asks, Review!WellMade
      <4>2. \A t \in Review(k)!Pending(q.answer) : x1'[t] = "NEW"
        BY <3>2, <4>1 DEF Review!Pending
      <4>. QED
        BY <2>5, <4>2
    <3>. QED
      BY <2>1, <2>8, <3>1, <3>2
  <2>9. ASSUME NEW n \in ReviewPages[k].Managers \ x9
        PROVE  /\ \A p, o \in Review(k)!Asks(n, "list")' : p = o
               /\ \A p \in Review(k)!Asks(n, "list")' :
                    p.served => x10[n] \cap Review(k)!Pending(p.answer) = {}
               /\ Review(k)!Asks(n, "list")' = {} => x10[n] \cap Review(k)!Pending(x2[n]) = {}
    <3>1. CASE r \in Review(k)!Asks(n, "list")
      BY <2>7, <2>8, <3>1 DEF Review!FreshInv
    <3>2. CASE r \notin Review(k)!Asks(n, "list")
      BY <2>7, <3>2 DEF Review!FreshInv
    <3>. QED
      BY <3>1, <3>2
  <2>. QED
    BY <2>2, <2>5, <2>6, <2>9 DEF Review!FreshInv, Review!Pending
<1>5. ASSUME NEW r \in x5, Review(k)!DrawList(r)
      PROVE  Review(k)!FreshInv'
  <2>1. /\ r.served /\ r.kind = "list" /\ r.who \in ReviewPages[k].Managers /\ x5' = x5 \ {r}
        /\ x2' = [x2 EXCEPT ![r.who] = r.answer] /\ UNCHANGED <<x1, x9, x10>>
    BY <1>5, <1>a DEF Review!DrawList, Review!Ready, Review!TypeOK
  <2>2. \A n \in ReviewPages[k].Managers : Review(k)!Asks(n, "list")' = Review(k)!Asks(n, "list") \ {r}
    BY <2>1, <1>a, ReviewGoneAsks
  <2>3. r \in Review(k)!Asks(r.who, "list") /\ \A n \in ReviewPages[k].Managers \ {r.who} :
          r \notin Review(k)!Asks(n, "list")
    BY <2>1 DEF Review!Asks
  <2>4. x2'[r.who] = r.answer /\ \A n \in ReviewPages[k].Managers \ {r.who} : x2'[n] = x2[n]
    BY <2>1, <1>a DEF Review!TypeOK
  <2>. QED
    BY <2>1, <2>2, <2>3, <2>4 DEF Review!FreshInv
<1>6. ASSUME NEW r \in x5, x5' = x5 \ {r}, r.kind # "list" \/ r.who \notin ReviewPages[k].Managers \ x9',
             UNCHANGED <<x1, x2, x10>>, x9 \subseteq x9'
      PROVE  Review(k)!FreshInv'
  <2>1. \A n \in ReviewPages[k].Managers : Review(k)!Asks(n, "list")' = Review(k)!Asks(n, "list") \ {r}
    BY <1>6, <1>a, ReviewGoneAsks
  <2>2. \A n \in ReviewPages[k].Managers \ x9' : r \notin Review(k)!Asks(n, "list")
    BY <1>6 DEF Review!Asks
  <2>. QED
    BY <1>6, <2>1, <2>2 DEF Review!FreshInv
<1>7. ASSUME NEW r \in x5, Review(k)!Succeed(r)
      PROVE  Review(k)!FreshInv'
  <2>. DEFINE q == Review(k)!Request("list", r.who, ReviewPages[k].Payments, Review(k)!NoVerdict)
  <2>1. q.kind = "list" /\ q.who = r.who /\ ~q.served
    BY DEF Review!Request
  <2>. HIDE DEF q
  <2>2. /\ r.who \in ReviewPages[k].Managers /\ r.served /\ r.kind = "decide" /\ x5' = (x5 \ {r}) \cup {q}
        /\ x10' = [x10 EXCEPT ![r.who] = @ \cup {t \in r.ids : r.answer[t] # "NEW"}]
        /\ UNCHANGED <<x1, x2>> /\ x9 \subseteq x9'
    BY <1>7, <1>a DEF Review!Succeed, Review!Ready, Review!TypeOK, q
  <2>3. r.who \notin x9' => Review(k)!Asks(r.who, "list") = {}
    BY <1>7, <2>2 DEF Review!Succeed, Review!Loading, Review!Asks
  <2>4. Review(k)!Asks(r.who, "list")' = Review(k)!Asks(r.who, "list") \cup {q}
        /\ \A n \in ReviewPages[k].Managers \ {r.who} :
             Review(k)!Asks(n, "list")' = Review(k)!Asks(n, "list") /\ x10'[n] = x10[n]
    BY <2>1, <2>2, <1>a DEF Review!Asks, Review!TypeOK
  <2>5. \A t \in x10'[r.who] : x1'[t] # "NEW"
    BY <2>2, <1>a DEF Review!FreshInv, Review!TypeOK
  <2>6. \A n \in ReviewPages[k].Managers : \A t \in x10'[n] : x1'[t] # "NEW"
    BY <2>2, <2>4, <2>5 DEF Review!FreshInv
  <2>7. \A p \in x5' : p.kind = "decide" => p \in x5
    BY <2>1, <2>2
  <2>8. \A p \in x5' : p.kind = "decide" /\ p.served => \A t \in p.ids : p.answer[t] # "NEW" => x1'[t] # "NEW"
    BY <2>2, <2>7 DEF Review!FreshInv
  <2>9. ASSUME NEW n \in ReviewPages[k].Managers \ x9'
        PROVE  /\ \A p, o \in Review(k)!Asks(n, "list")' : p = o
               /\ \A p \in Review(k)!Asks(n, "list")' :
                    p.served => x10'[n] \cap Review(k)!Pending(p.answer) = {}
               /\ Review(k)!Asks(n, "list")' = {} => x10'[n] \cap Review(k)!Pending(x2'[n]) = {}
    <3>1. CASE n = r.who
      BY <2>1, <2>3, <2>4, <3>1
    <3>2. CASE n # r.who
      <4>1. n \in ReviewPages[k].Managers \ x9 /\ x2' = x2
        BY <2>2
      <4>2. Review(k)!Asks(n, "list")' = Review(k)!Asks(n, "list") /\ x10'[n] = x10[n]
        BY <2>4, <3>2
      <4>. QED
        BY <4>1, <4>2 DEF Review!FreshInv
    <3>. QED
      BY <3>1, <3>2
  <2>. QED
    BY <2>6, <2>8, <2>9 DEF Review!FreshInv, Review!Pending
<1>8. CASE UNCHANGED Review(k)!vars
  BY <1>8 DEF Review!vars, Review!FreshInv, Review!Asks, Review!Pending
<1>9. ASSUME NEW m \in ReviewPages[k].Managers, Review(k)!Manager(m)
      PROVE  Review(k)!FreshInv'
  <2>1. {"rows", "detail", "decide"} \subseteq Review(k)!Kinds \ {"list"}
    BY DEF Review!Kinds
  <2>2. ASSUME NEW S \in SUBSET ReviewPages[k].Payments, Review(k)!GoToBatchApprove(m, S)
        PROVE  Review(k)!FreshInv'
    BY <2>1, <2>2, <1>1 DEF Review!GoToBatchApprove
  <2>3. ASSUME NEW t \in ReviewPages[k].Payments, Review(k)!GotoDetail(m, t)
        PROVE  Review(k)!FreshInv'
    BY <2>1, <2>3, <1>1 DEF Review!GotoDetail
  <2>4. ASSUME NEW v \in Review(k)!Verdicts, Review(k)!BatchDecide(m, v)
        PROVE  Review(k)!FreshInv'
    BY <2>1, <2>4, <1>1 DEF Review!BatchDecide
  <2>5. ASSUME NEW v \in Review(k)!Verdicts, Review(k)!SingleDecide(m, v)
        PROVE  Review(k)!FreshInv'
    BY <2>1, <2>5, <1>1 DEF Review!SingleDecide
  <2>6. CASE Review(k)!CloseDialogs(m)
    BY <2>6, <1>d DEF Review!CloseDialogs, Review!Asks
  <2>. QED
    BY <1>9, <1>2, <2>2, <2>3, <2>4, <2>5, <2>6 DEF Review!Manager
<1>10. ASSUME NEW r \in x5, Review(k)!Browser(r)
       PROVE  Review(k)!FreshInv'
  <2>1. CASE Review(k)!ShowBatch(r)
    BY <2>1, <1>6 DEF Review!ShowBatch, Review!Ready
  <2>2. CASE Review(k)!ShowDetail(r)
    BY <2>2, <1>6 DEF Review!ShowDetail, Review!Ready
  <2>3. CASE Review(k)!GiveUp(r)
    BY <2>3, <1>6 DEF Review!GiveUp
  <2>. QED
    BY <1>10, <2>1, <2>2, <2>3, <1>5, <1>7 DEF Review!Browser
<1>. QED
  BY <1>3, <1>8, <1>9, <1>10 DEF Review!Next

-----------------------------------------------------------------------------
(* The invariant, and what it is for.                                      *)
LEMMA ReviewInitIInv ==
  ASSUME NEW k \in DOMAIN ReviewPages, Review(k)!PaymentReviewAssumption, Review(k)!Init
  PROVE  Review(k)!IInv /\ Review(k)!Queue!Init
<1>1. Review(k)!RowsInv
  BY DEF Review!Init, Review!RowsInv, Review!Asks
<1>2. Review(k)!FreshInv
  BY DEF Review!Init, Review!FreshInv, Review!Asks
<1>. QED
  BY ReviewInitSound, <1>1, <1>2 DEF Review!IInv

LEMMA ReviewNextIInv ==
  ASSUME NEW k \in DOMAIN ReviewPages, Review(k)!PaymentReviewAssumption, Review(k)!IInv,
         Review(k)!Next \/ UNCHANGED Review(k)!vars
  PROVE  Review(k)!IInv' /\ Review(k)!DecidesOnce
BY ReviewStepSound, ReviewStepWork, ReviewStepSeen, ReviewStepRows, ReviewStepFresh, ReviewStepQueue DEF
    Review!IInv

LEMMA ReviewIInvImplies ==
  ASSUME NEW k \in DOMAIN ReviewPages, Review(k)!IInv
  PROVE  Review(k)!TypeOK /\ Review(k)!DecidesWhatWasPending /\ Review(k)!BatchShowsSelection
           /\ Review(k)!OwnDecisionsShown
<1>1. Review(k)!DecidesWhatWasPending
  BY DEF Review!IInv, Review!SeenInv, Review!DecidesWhatWasPending
<1>2. \A m \in ReviewPages[k].Managers : (Review(k)!Asks(m, "list") = {} <=> ~Review(k)!Loading(m))
                          /\ (Review(k)!Asks(m, "rows") = {} <=> \A r \in x5 : r.who = m => r.kind # "rows")
  BY DEF Review!Asks, Review!Loading
<1>3. Review(k)!BatchShowsSelection
  BY <1>2 DEF Review!IInv, Review!RowsInv, Review!BatchShowsSelection
<1>4. Review(k)!OwnDecisionsShown
  BY <1>2 DEF Review!IInv, Review!FreshInv, Review!OwnDecisionsShown
<1>. QED
  BY <1>1, <1>3, <1>4 DEF Review!IInv, Review!Sound

(* The invariant of the pages of this script. *)
ReviewInv == \A k \in On("review", ReviewPages) : Review(k)!IInv

LEMMA ReviewBegins ==
  ASSUME SiteInit
  PROVE  /\ ReviewInv
         /\ \A k \in On("review", ReviewPages) : Review(k)!Queue!Init
<1>. SUFFICES ASSUME NEW k \in On("review", ReviewPages)
         PROVE  Review(k)!IInv /\ Review(k)!Queue!Init
  BY DEF ReviewInv
<1>1. k \in DOMAIN ReviewPages /\ script = "review" /\ page = k
  BY DEF On
<1>2. Review(k)!Init
  BY <1>1 DEF SiteInit
<1>3. Review(k)!PaymentReviewAssumption
  BY <1>1, SitePagesAreSound DEF SitePagesAssumption
<1>. QED
  BY <1>1, <1>2, ReviewInitIInv, <1>3

LEMMA ReviewGoesOn ==
  ASSUME ReviewInv, SiteStep
  PROVE  /\ ReviewInv'
         /\ \A k \in On("review", ReviewPages) : Review(k)!DecidesOnce
<1>1. script' = script /\ page' = page
  BY SiteStays
<1>2. ASSUME NEW k \in On("review", ReviewPages)
      PROVE  Review(k)!IInv' /\ Review(k)!DecidesOnce
  <2>1. k \in DOMAIN ReviewPages /\ script = "review" /\ page = k
    BY DEF On
  <2>2. Review(k)!Next \/ UNCHANGED Review(k)!vars
    BY <2>1 DEF SiteStep, SiteNext, On, vars, Review!vars
  <2>3. Review(k)!PaymentReviewAssumption
    BY <2>1, SitePagesAreSound DEF SitePagesAssumption
  <2>4. Review(k)!IInv
    BY DEF ReviewInv
  <2>. QED
    BY <2>1, <2>2, ReviewNextIInv, <2>3, <2>4
<1>3. On("review", ReviewPages)' = On("review", ReviewPages)
  BY <1>1 DEF On
<1>. QED
  BY <1>2, <1>3 DEF ReviewInv

LEMMA ReviewShows ==
  ASSUME ReviewInv
  PROVE  /\ \A k \in On("review", ReviewPages) : Review(k)!TypeOK
         /\ \A k \in On("review", ReviewPages) : Review(k)!DecidesWhatWasPending
         /\ \A k \in On("review", ReviewPages) : Review(k)!BatchShowsSelection
         /\ \A k \in On("review", ReviewPages) : Review(k)!OwnDecisionsShown
<1>. SUFFICES ASSUME NEW k \in On("review", ReviewPages)
         PROVE  Review(k)!TypeOK /\ Review(k)!DecidesWhatWasPending /\ Review(k)!BatchShowsSelection
                  /\ Review(k)!OwnDecisionsShown
  OBVIOUS
<1>1. k \in DOMAIN ReviewPages /\ Review(k)!IInv
  BY DEF On, ReviewInv
<1>. QED
  BY <1>1, ReviewIInvImplies

-----------------------------------------------------------------------------
(***************************************************************************)
(* DataTable (Table): x1 is form, x2 is made, x3 is start, x4 is length, x5*)
(* is desc, x6 is filter, x7 is records, x8 is loaded, x9 is pager, x10 is *)
(* rows, x11 is flight, x12 is blocked, x13 is timer, x14 is sent, x15 is  *)
(* asked, x16 is raced, x17 is missed.                                     *)
(***************************************************************************)
(* The parts of a division. *)
LEMMA TableParts ==
  ASSUME NEW k \in DOMAIN Tables, NEW a \in Nat, NEW l \in Nat \ {0}
  PROVE  /\ a \div l \in Nat /\ a % l \in Nat /\ a % l < l
         /\ a = l * (a \div l) + (a % l)
OBVIOUS

(* A multiple below the divisor is none. *)
LEMMA TableMult ==
  ASSUME NEW k \in DOMAIN Tables, NEW d \in Int, NEW l \in Nat \ {0}, 0 <= l * d, l * d < l
  PROVE  l * d = 0
<1>1. CASE d = 0
  BY <1>1
<1>2. CASE d > 0
  <2>1. l * d = l + l * (d - 1)
    OBVIOUS
  <2>2. l * (d - 1) >= 0
    BY <1>2
  <2>. QED
    BY <2>1, <2>2
<1>3. CASE d < 0
  <2>1. l * (0 - d) = 0 - l * d
    OBVIOUS
  <2>2. l * (0 - d) > 0
    BY <1>3
  <2>. QED
    BY <2>1, <2>2
<1>. QED
  BY <1>1, <1>2, <1>3

(* Multiples leave no rest, *)
LEMMA TableMultiple ==
  ASSUME NEW k \in DOMAIN Tables, NEW n \in Nat, NEW l \in Nat \ {0}
  PROVE  (l * n) % l = 0 /\ l * n \in Nat
<1>. DEFINE a == l * n
<1>1. a \in Nat
  OBVIOUS
<1>. HIDE DEF a
<1>2. /\ a \div l \in Nat /\ a % l \in Nat /\ a % l < l
      /\ a = l * (a \div l) + (a % l)
  BY <1>1, TableParts
<1>3. PICK q \in Nat : q = a \div l
  BY <1>2
<1>4. PICK m \in Nat : m = a % l
  BY <1>2
<1>5. l * (n - q) = m
  <2>1. l * n = l * q + m
    BY <1>2, <1>3, <1>4 DEF a
  <2>2. l * (n - q) = l * n - l * q
    OBVIOUS
  <2>. QED
    BY <2>1, <2>2
<1>6. m < l
  BY <1>2, <1>4
<1>7. m = 0
  BY <1>5, <1>6, TableMult
<1>. QED
  BY <1>1, <1>4, <1>7 DEF a

(* and only they. *)
LEMMA TableFactor ==
  ASSUME NEW k \in DOMAIN Tables, NEW a \in Nat, NEW l \in Nat \ {0}, a % l = 0
  PROVE \E n \in Nat : a = l * n
BY TableParts

(* One page more, or less. *)
LEMMA TableMoreOf ==
  ASSUME NEW k \in DOMAIN Tables, NEW a \in Nat, NEW l \in Nat \ {0}, a % l = 0
  PROVE (a + l) % l = 0 /\ (a >= l => (a - l) % l = 0)
<1>1. PICK n \in Nat : a = l * n
  BY TableFactor
<1>2. a + l = l * (n + 1)
  BY <1>1
<1>5. n + 1 \in Nat
  OBVIOUS
<1>3. (l * (n + 1)) % l = 0
  BY <1>5, TableMultiple, Zenon
<1>4. ASSUME a >= l PROVE (a - l) % l = 0
  <2>1. n # 0
    BY <1>1, <1>4
  <2>2. n - 1 \in Nat
    BY <2>1
  <2>3. a - l = l * (n - 1)
    BY <1>1
  <2>4. (l * (n - 1)) % l = 0
    BY <2>2, TableMultiple, Zenon
  <2>. QED
    BY <2>3, <2>4
<1>. QED
  BY <1>2, <1>3, <1>4

(* Rounding up, *)
LEMMA TableCeil ==
  ASSUME NEW k \in DOMAIN Tables, NEW a \in Nat, NEW l \in Nat \ {0}
  PROVE Table(k)!CeilDiv(a, l) \in Nat /\ l * Table(k)!CeilDiv(a, l) >= a
          /\ l * Table(k)!CeilDiv(a, l) < a + l
<1>. DEFINE b == a + l - 1
<1>1. b \in Nat
  OBVIOUS
<1>2. Table(k)!CeilDiv(a, l) = b \div l
  BY DEF Table!CeilDiv
<1>3. b = a + l - 1
  OBVIOUS
<1>. HIDE DEF b
<1>4. PICK q \in Nat : q = b \div l
  BY <1>1, TableParts
<1>5. PICK m \in Nat : m = b % l
  BY <1>1, TableParts
<1>6. b = l * q + m /\ m < l
  BY <1>1, <1>4, <1>5, TableParts
<1>. QED
  BY <1>2, <1>3, <1>4, <1>6

(* and of a multiple. *)
LEMMA TableCeilMult ==
  ASSUME NEW k \in DOMAIN Tables, NEW n \in Nat, NEW l \in Nat \ {0}
  PROVE  Table(k)!CeilDiv(l * n, l) = n
<1>. DEFINE a == l * n
<1>1. a \in Nat
  OBVIOUS
<1>. HIDE DEF a
<1>2. PICK q \in Nat : q = Table(k)!CeilDiv(a, l)
  BY <1>1, TableCeil
<1>3. l * q >= a /\ l * q < a + l
  BY <1>1, <1>2, TableCeil
<1>4. l * (q - n) = l * q - a
  BY DEF a
<1>5. 0 <= l * (q - n) /\ l * (q - n) < l
  BY <1>1, <1>3, <1>4
<1>6. l * (q - n) = 0
  BY <1>5, TableMult
<1>7. q = n
  BY <1>6
<1>. QED
  BY <1>2, <1>7 DEF a

(* What a draw does. *)
LEMMA TableDrawIs ==
  ASSUME NEW k \in DOMAIN Tables, Table(k)!DataTableAssumption, NEW f \in Table(k)!Forms, NEW from \in Nat,
         NEW unattended \in BOOLEAN,
         Table(k)!Draw(f, from, unattended), x14 \in Nat,
         x4' \in Tables[k].Lengths, x6' \in Tables[k].Filters, x5' \in BOOLEAN
  PROVE  /\ x1' \in Table(k)!Forms /\ Table(k)!Drawn(from, unattended)
         /\ (f.valid /\ f.reinitPage) => x3' = 0 /\ x17' = x17 /\ ~x1'.reinitPage
         /\ f.valid => x11' = x11 \cup {x15'} /\ x15'.page = Table(k)!CeilDiv(x3', x4') + 1
<1>1. x1' \in Table(k)!Forms
  BY Zenon DEF Table!Draw, Table!Forms
<1>2. CASE f.valid
  <2>. DEFINE at == IF f.reinitPage THEN 0 ELSE from
  <2>1. at \in {0, from} /\ at \in Nat /\ (f.reinitPage => at = 0)
    OBVIOUS
  <2>2. Table(k)!Send(f, at, unattended)
    BY <1>2 DEF Table!Draw
  <2>. HIDE DEF at
  <2>3. x4' \in Nat \ {0}
    BY DEF Table!DataTableAssumption
  <2>4. Table(k)!CeilDiv(at, x4') \in Nat
    BY <2>1, <2>3, TableCeil, Zenon
  <2>5. x15' = Table(k)!Request(f, at) /\ x3' = at /\ x11' = x11 \cup {x15'}
    BY <2>2 DEF Table!Send
  <2>6. Table(k)!CeilDiv(at, x4') + 1 \in Nat
    BY <2>4
  <2>. DEFINE n == Table(k)!CeilDiv(at, x4') + 1
  <2>7. x15' = [id |-> x14 + 1, criteria |-> f.criteria, filter |-> x6', page |-> n,
                  size |-> x4', desc |-> x5']
    BY <2>5 DEF Table!Request
  <2>8. n \in Nat
    BY <2>6
  <2>. HIDE DEF n
  <2>9. x15' \in Table(k)!Requests
    BY <2>7, <2>8 DEF Table!Requests, Table!Forms
  <2>10. x15'.page = n /\ x15'.size = x4' /\ x15'.id = x14 + 1
    BY <2>7
  <2>11. x15'.page = Table(k)!CeilDiv(x3', x4') + 1
    BY <2>5, <2>10 DEF n
  <2>12. f.reinitPage => x3' = 0 /\ x17' = x17 /\ ~x1'.reinitPage
    BY <1>2, <2>1, <2>2, <2>5, Zenon DEF Table!Draw, Table!Send, Table!Forms
  <2>13. x14 < Tables[k].MaxDraws /\ x14' = x14 + 1 /\ x12' = TRUE /\ x17' = x17
         /\ x16' = (x11 # {} /\ (x16 \/ unattended))
    BY <2>2 DEF Table!Draw, Table!Send
  <2>14. x14 + 1 <= Tables[k].MaxDraws
    BY <2>13 DEF Table!DataTableAssumption
  <2>15. x3' \in {0, from}
    BY <2>1, <2>5
  <2>16. Table(k)!Drawn(from, unattended)
    BY <2>5, <2>9, <2>10, <2>11, <2>13, <2>14, <2>15, Zenon DEF Table!Drawn
  <2>. QED
    BY <1>1, <1>2, <2>5, <2>11, <2>12, <2>16
<1>3. CASE ~f.valid
  BY <1>1, <1>3, Zenon DEF Table!Draw, Table!Drawn
<1>. QED
  BY <1>2, <1>3

LEMMA TableZero ==
  ASSUME NEW k \in DOMAIN Tables, NEW l \in Nat \ {0}
  PROVE  0 % l = 0 /\ Table(k)!CeilDiv(0, l) = 0
BY DEF Table!CeilDiv

(* A step edits the form, draws, or ends a request. *)
LEMMA TableSteps ==
  ASSUME NEW k \in DOMAIN Tables, Table(k)!DataTableAssumption, Table(k)!Typed, Table(k)!PagerInv,
         Table(k)!PagesAreAligned, Table(k)!Next \/ UNCHANGED Table(k)!vars
  PROVE  \/ Table(k)!Edits
         \/ \E from \in Nat, unattended \in BOOLEAN : Table(k)!Draws(from, unattended)
         \/ \E r \in x11 : Table(k)!Answered(r) \/ Table(k)!Failed(r)
<1>. DEFINE Some == \E from \in Nat, unattended \in BOOLEAN : Table(k)!Draws(from, unattended)
<1>20. /\ x1 \in Table(k)!Forms /\ x2 \in BOOLEAN /\ x6 \in Tables[k].Filters /\ x3 \in Nat /\ x14 \in Nat
       /\ x4 \in Tables[k].Lengths /\ x5 \in BOOLEAN /\ x13 \in BOOLEAN
       /\ x7 \in Nat /\ x9.length \in Tables[k].Lengths /\ x9.pages \in Nat
  <2>1. Tables[k].MaxDraws \in Nat
    BY DEF Table!DataTableAssumption
  <2>2. x1 \in Table(k)!Forms
    BY DEF Table!Typed, Table!TypeOK, Table!Forms
  <2>. QED
    BY <2>1, <2>2 DEF Table!Typed, Table!TypeOK
<1>21. Tables[k].Lengths \subseteq Nat \ {0}
  BY DEF Table!DataTableAssumption
<1>1. /\ x1 \in Table(k)!Forms /\ x2 \in BOOLEAN /\ x6 \in Tables[k].Filters /\ x3 \in Nat /\ x14 \in Nat
      /\ x4 \in Tables[k].Lengths /\ x4 \in Nat \ {0} /\ x5 \in BOOLEAN /\ x13 \in BOOLEAN
      /\ x7 \in Nat /\ x9.length \in Tables[k].Lengths /\ x9.length \in Nat /\ x9.pages \in Nat
      /\ Tables[k].Lengths \subseteq Nat \ {0}
  BY <1>20, <1>21
<1>2. x13 \/ x17 \/ x3 % x4 = 0
  BY DEF Table!PagesAreAligned
<1>3. 0 % x4 = 0
  BY <1>1, TableZero
<1>4. ASSUME NEW c \in Tables[k].Criteria, NEW ok \in BOOLEAN, Table(k)!EditForm(c, ok)
      PROVE  Table(k)!Edits
  BY <1>1, <1>4, Zenon DEF Table!EditForm, Table!Edits, Table!Forms
<1>5. ASSUME NEW f \in Table(k)!Forms, ~x12, Table(k)!Create(f)
      PROVE  Some
  <2>. DEFINE from == IF x2 THEN x3 ELSE 0
  <2>1. from \in Nat /\ (x13 \/ x17 \/ from % x4 = 0)
    BY <1>1, <1>2, <1>3
  <2>2. Table(k)!Draw(f, from, FALSE)
    BY <1>5, Zenon DEF Table!Create
  <2>. HIDE DEF from
  <2>3. x2' \in BOOLEAN /\ x8' = 0 /\ UNCHANGED <<x6, x4, x5, x7, x9, x10, x13>>
    BY <1>5 DEF Table!Create
  <2>4. x1' \in Table(k)!Forms /\ Table(k)!Drawn(from, FALSE)
    BY <1>1, <2>1, <2>2, <2>3, TableDrawIs, Zenon
  <2>5. Table(k)!Draws(from, FALSE)
    BY <1>1, <1>5, <2>1, <2>3, <2>4, Zenon DEF Table!Draws
  <2>. QED
    BY <2>1, <2>5, Zenon
<1>6. CASE Table(k)!Search
  BY <1>1, <1>5, <1>6 DEF Table!Search
<1>7. ASSUME NEW c \in Tables[k].Criteria, Table(k)!OpenDetails(c)
      PROVE  Some
  <2>1. [x1 EXCEPT !.criteria = c, !.reinitPage = TRUE] \in Table(k)!Forms
    BY <1>1, Zenon DEF Table!Forms
  <2>. QED
    BY <1>5, <1>7, <2>1 DEF Table!OpenDetails
<1>8. ASSUME NEW to \in Nat, x13 \/ x17 \/ to % x4 = 0, NEW u \in BOOLEAN, x12 => u,
             UNCHANGED <<x2, x6, x4, x5, Table(k)!dataVars>>, x13' = x13 \/ to = 0, x13' \in BOOLEAN,
             Table(k)!Draw(x1, to, u)
      PROVE  Some
  <2>1. x1' \in Table(k)!Forms /\ Table(k)!Drawn(to, u)
    BY <1>1, <1>8, TableDrawIs
  <2>2. x13' \/ x17 \/ to % x4' = 0
    BY <1>3, <1>8
  <2>3. Table(k)!Draws(to, u)
    BY <1>1, <1>8, <2>1, <2>2 DEF Table!Draws, Table!dataVars
  <2>. QED
    BY <2>3
<1>9. Table(k)!Previous \in Nat /\ Table(k)!NextStart \in Nat
  BY <1>1 DEF Table!Previous, Table!NextStart
<1>10. (x13 \/ x17 \/ Table(k)!Previous % x4 = 0) /\ (x13 \/ x17 \/ Table(k)!NextStart % x4 = 0)
  <2>1. CASE x13 \/ x17
    BY <2>1
  <2>2. CASE x3 % x4 = 0
    <3>1. (x3 + x4) % x4 = 0 /\ (x3 >= x4 => (x3 - x4) % x4 = 0)
      BY <1>1, <2>2, TableMoreOf, Zenon
    <3>. QED
      BY <1>1, <1>3, <2>2, <3>1 DEF Table!Previous, Table!NextStart
  <2>. QED
    BY <1>2, <2>1, <2>2
<1>11. CASE Table(k)!TurnPage
  <2>1. ASSUME NEW to \in Nat, x13 \/ x17 \/ to % x4 = 0, Table(k)!Turn(to)
        PROVE  Some
    BY <1>1, <1>8, <2>1, Zenon DEF Table!Turn
  <2>. QED
    BY <1>9, <1>10, <1>11, <2>1 DEF Table!TurnPage
<1>12. ASSUME NEW n \in 1..x9.pages, Table(k)!PageLink(n)
       PROVE  Some
  <2>1. n - 1 \in Nat
    BY <1>1
  <2>2. PICK m \in Nat : m = n - 1
    BY <2>1
  <2>3. PICK l \in Nat \ {0} : l = x9.length
    BY <1>1
  <2>10. (l * m) % l = 0 /\ l * m \in Nat
    BY TableMultiple, Zenon
  <2>11. m * l = l * m
    OBVIOUS
  <2>4. (l * m) % l = 0 /\ l * m \in Nat /\ (n - 1) * x9.length = l * m
    BY <2>2, <2>3, <2>10, <2>11
  <2>5. ~x12 /\ UNCHANGED <<x2, x6, x4, x5, Table(k)!dataVars, x13>>
        /\ Table(k)!Draw(x1, (n - 1) * x9.length, FALSE)
    BY <1>12, Zenon DEF Table!PageLink
  <2>6. x17 \/ x9.length = x4
    BY <2>5 DEF Table!PagerInv
  <2>7. (n - 1) * x9.length \in Nat
    BY <2>4
  <2>8. x17 \/ ((n - 1) * x9.length) % x4 = 0
    BY <2>3, <2>4, <2>6
  <2>. DEFINE to == (n - 1) * x9.length
  <2>9. to \in Nat /\ (x13 \/ x17 \/ to % x4 = 0) /\ Table(k)!Draw(x1, to, FALSE)
    BY <2>5, <2>7, <2>8, Zenon
  <2>. HIDE DEF to
  <2>. QED
    BY <1>1, <1>8, <2>5, <2>9, Zenon
<1>13. ASSUME NEW l \in Tables[k].Lengths, Table(k)!ChangeLength(l)
       PROVE  Some
  <2>. DEFINE from == IF Table(k)!DisplayEnd(x3, l) # x7 THEN x3 ELSE IF x7 < l THEN 0 ELSE x7 - l
  <2>1. from \in Nat
    BY <1>1
  <2>2. /\ ~x12 /\ x4' = l /\ x13' = TRUE /\ UNCHANGED <<x2, x6, x5, Table(k)!dataVars>>
        /\ Table(k)!Draw(x1, from, FALSE)
    BY <1>13, Zenon DEF Table!ChangeLength
  <2>. HIDE DEF from
  <2>3. x1' \in Table(k)!Forms /\ Table(k)!Drawn(from, FALSE)
    BY <1>1, <2>1, <2>2, TableDrawIs, Zenon
  <2>4. Table(k)!Draws(from, FALSE)
    BY <1>1, <2>2, <2>3, Zenon DEF Table!Draws, Table!dataVars
  <2>. QED
    BY <2>1, <2>4, Zenon
<1>14. CASE Table(k)!TimerFires
  BY <1>1, <1>3, <1>8, <1>14, Zenon DEF Table!TimerFires
<1>15. CASE Table(k)!SortColumn
  <2>1. ~x12 /\ x5' \in BOOLEAN /\ UNCHANGED <<x2, x6, x4, Table(k)!dataVars, x13>>
          /\ Table(k)!Draw(x1, 0, FALSE)
    BY <1>15, Zenon DEF Table!SortColumn
  <2>2. x1' \in Table(k)!Forms /\ Table(k)!Drawn(0, FALSE)
    BY <1>1, <2>1, TableDrawIs, Zenon
  <2>3. Table(k)!Draws(0, FALSE)
    BY <1>1, <1>3, <2>1, <2>2, Zenon DEF Table!Draws, Table!dataVars
  <2>. QED
    BY <2>3, Zenon
<1>16. ASSUME NEW f \in Tables[k].Filters, Table(k)!ChooseFilter(f)
       PROVE  Some
  <2>1. ~x12 /\ x6' = f /\ UNCHANGED <<x2, x4, x5, Table(k)!dataVars, x13>> /\ Table(k)!Draw(x1, 0, FALSE)
    BY <1>16, Zenon DEF Table!ChooseFilter
  <2>2. x1' \in Table(k)!Forms /\ Table(k)!Drawn(0, FALSE)
    BY <1>1, <2>1, TableDrawIs, Zenon
  <2>3. Table(k)!Draws(0, FALSE)
    BY <1>1, <1>3, <2>1, <2>2, Zenon DEF Table!Draws, Table!dataVars
  <2>. QED
    BY <2>3, Zenon
<1>17. CASE Table(k)!Redraw
  BY <1>1, <1>3, <1>8, <1>17, Zenon DEF Table!Redraw
<1>18. CASE Table(k)!Net
  BY <1>18 DEF Table!Net
<1>19. CASE UNCHANGED Table(k)!vars
  BY <1>1, <1>19 DEF Table!vars, Table!formVars, Table!Edits
<1>. QED
  BY <1>4, <1>6, <1>7, <1>11, <1>12, <1>13, <1>14, <1>15, <1>16, <1>17, <1>18, <1>19 DEF
      Table!Next, Table!Click

(* Each part of the invariant over such a step. *)
LEMMA TableDrawsKeep ==
  ASSUME NEW k \in DOMAIN Tables, Table(k)!DataTableAssumption, Table(k)!Typed, Table(k)!OverlayGoesAway,
         Table(k)!RaceInv, Table(k)!PagerInv, Table(k)!PagesAreAligned,
         NEW from \in Nat, NEW unattended \in BOOLEAN, Table(k)!Draws(from, unattended)
  PROVE  Table(k)!IInv'
<1>. DEFINE sends == /\ x3' \in {0, from}
                     /\ x15' \in Table(k)!Requests /\ x15'.id = x14 + 1
                     /\ x15'.page = Table(k)!CeilDiv(x3', x4') + 1 /\ x15'.size = x4'
                     /\ x11' = x11 \cup {x15'} /\ x12' = TRUE
                     /\ x14 + 1 <= Tables[k].MaxDraws /\ x14' = x14 + 1
                     /\ x16' = (x11 # {} /\ (x16 \/ unattended))
                     /\ x17' = x17
            refuses == x3' = from /\ x17' = TRUE /\ UNCHANGED <<x11, x12, x14, x15, x16>>
<1>1. sends \/ refuses
  BY DEF Table!Draws, Table!Drawn
<1>2. UNCHANGED <<x7, x9, x10>> /\ x8' \in {0, x8} /\ x4' \in Tables[k].Lengths /\ (x12 => unattended)
  BY DEF Table!Draws
<1>3. Tables[k].MaxDraws \in Nat /\ x4' \in Nat \ {0}
  BY <1>2 DEF Table!DataTableAssumption
<1>4. Table(k)!TypeOK
  BY DEF Table!Typed
<1>5. x14 \in 0..Tables[k].MaxDraws /\ \A r \in x11 : r.id \in 1..x14
  BY <1>4 DEF Table!TypeOK
<1>6. x14' \in 0..Tables[k].MaxDraws /\ \A r \in x11' : r.id \in 1..x14'
  <2>1. CASE sends
    BY <1>3, <1>5, <2>1
  <2>2. CASE refuses
    BY <1>5, <2>2
  <2>. QED
    BY <1>1, <2>1, <2>2, Zenon
<1>7. x3' \in Nat /\ x8' \in Nat /\ x12' \in BOOLEAN /\ x16' \in BOOLEAN /\ x17' \in BOOLEAN
  <2>2. x16 \in BOOLEAN /\ x17 \in BOOLEAN /\ x12 \in BOOLEAN /\ x3 \in Nat /\ x8 \in Nat
    BY <1>4 DEF Table!TypeOK
  <2>4. x3' \in Nat
    BY <1>1, <2>2
  <2>5. x8' \in Nat
    BY <1>2, <2>2
  <2>6. x12' \in BOOLEAN /\ x17' \in BOOLEAN
    BY <1>1, <2>2, Zenon
  <2>3. x16' \in BOOLEAN
    <3>1. CASE sends
      BY <3>1
    <3>2. CASE refuses
      BY <2>2, <3>2
    <3>. QED
      BY <1>1, <3>1, <3>2, Zenon
  <2>. QED
    BY <2>3, <2>4, <2>5, <2>6
<1>8. x1' \in Table(k)!Forms /\ x2' \in BOOLEAN /\ x6' \in Tables[k].Filters /\ x5' \in BOOLEAN
        /\ x13' \in BOOLEAN
  BY DEF Table!Draws
<1>9. Table(k)!TypeOK'
  BY <1>2, <1>4, <1>6, <1>7, <1>8 DEF Table!TypeOK, Table!Forms
<1>10. Table(k)!Typed'
  <2>1. x11' \subseteq Table(k)!Requests /\ x15' \in Table(k)!Requests \cup {Table(k)!None}
    BY <1>1 DEF Table!Typed
  <2>2. x10' \in Table(k)!Requests \cup {Table(k)!None}
    BY <1>2 DEF Table!Typed
  <2>. QED
    BY <1>9, <2>1, <2>2 DEF Table!Typed, Table!Requests, Table!None
<1>11. Table(k)!OverlayGoesAway'
  BY <1>1 DEF Table!OverlayGoesAway
<1>12. Table(k)!RaceInv'
  BY <1>1, <1>2, <1>4 DEF Table!RaceInv, Table!TypeOK
<1>13. Table(k)!PagerInv'
  <2>1. (~x17 /\ ~x12 => x9.length = x4) /\ (sends => x12') /\ (refuses => x17')
    BY DEF Table!PagerInv
  <2>2. ~x17' /\ ~x12' => x9'.length = x4'
    BY <1>1, <2>1
  <2>3. ~x17' /\ x15' # Table(k)!None => x15'.page = Table(k)!CeilDiv(x3', x4') + 1 /\ x15'.size = x4'
    BY <1>1
  <2>4. x9'.pages = Table(k)!CeilDiv(x7', x9'.length)
    BY <1>2 DEF Table!PagerInv
  <2>5. IF x10' = Table(k)!None THEN x8' = 0
        ELSE x7' = Tables[k].Count[x10'.criteria] /\ x8' \in {0, Table(k)!RowsOf(x10')}
    BY <1>2 DEF Table!PagerInv
  <2>. QED
    BY <2>2, <2>3, <2>4, <2>5 DEF Table!PagerInv
<1>14. Table(k)!PagesAreAligned'
  <2>1. 0 % x4' = 0
    BY <1>3, TableZero
  <2>2. x13' \/ x17 \/ from % x4' = 0
    BY DEF Table!Draws
  <2>3. CASE sends
    BY <2>1, <2>2, <2>3 DEF Table!PagesAreAligned
  <2>4. CASE refuses
    BY <2>4 DEF Table!PagesAreAligned
  <2>. QED
    BY <1>1, <2>3, <2>4, Zenon
<1>. QED
  BY <1>10, <1>11, <1>12, <1>13, <1>14 DEF Table!IInv

LEMMA TableRowsFit ==
  ASSUME NEW k \in DOMAIN Tables, Table(k)!DataTableAssumption, NEW r \in Table(k)!Requests
  PROVE  Tables[k].Count[r.criteria] \in Nat /\ Table(k)!RowsOf(r) \in Nat
<1>1. Tables[k].Count[r.criteria] \in Nat /\ r.page \in Nat /\ r.size \in Nat \ {0}
  BY DEF Table!Requests, Table!DataTableAssumption
<1>2. PICK n \in Nat : n = Tables[k].Count[r.criteria]
  BY <1>1
<1>3. PICK l \in Nat \ {0} : l = r.size
  BY <1>1
<1>4. PICK g \in Nat : g = r.page
  BY <1>1
<1>5. (g - 1) * l \in Int
  OBVIOUS
<1>6. PICK z \in Int : z = (g - 1) * l
  BY <1>5
<1>. QED
  BY <1>2, <1>3, <1>4, <1>6 DEF Table!RowsOf, Table!Least

LEMMA TableAnsweredKeeps ==
  ASSUME NEW k \in DOMAIN Tables, Table(k)!DataTableAssumption, Table(k)!Typed, Table(k)!OverlayGoesAway,
         Table(k)!RaceInv, Table(k)!PagerInv, Table(k)!PagesAreAligned,
         NEW r \in x11, Table(k)!Answered(r)
  PROVE  Table(k)!IInv'
<1>1. /\ x11' = x11 \ {r} /\ x10' = r /\ x7' = Tables[k].Count[r.criteria] /\ x8' = Table(k)!RowsOf(r)
      /\ x9' = [length |-> x4, pages |-> Table(k)!CeilDiv(x7', x4)]
      /\ x12' = FALSE
      /\ UNCHANGED <<x1, x2, x6, x3, x4, x5, x13, x14, x15, x16, x17>>
  BY DEF Table!Answered, Table!formVars, Table!pageVars, Table!histVars
<1>2. Table(k)!TypeOK /\ r \in Table(k)!Requests /\ x4 \in Nat \ {0}
  BY DEF Table!Typed, Table!TypeOK, Table!DataTableAssumption
<1>3. x7' \in Nat /\ x8' \in Nat
  BY <1>1, <1>2, TableRowsFit
<1>4. Table(k)!CeilDiv(x7', x4) \in Nat
  BY <1>2, <1>3, TableCeil
<1>5. x9' \in [length : Tables[k].Lengths, pages : Nat]
  BY <1>1, <1>2, <1>4 DEF Table!TypeOK
<1>6. Table(k)!TypeOK'
  BY <1>1, <1>2, <1>3, <1>5, Zenon DEF Table!TypeOK
<1>7. Table(k)!Typed'
  BY <1>1, <1>2, <1>6 DEF Table!Typed, Table!Requests, Table!None
<1>8. Table(k)!OverlayGoesAway'
  BY <1>1 DEF Table!OverlayGoesAway
<1>9. Table(k)!RaceInv'
  BY <1>1 DEF Table!RaceInv
<1>10. Table(k)!PagerInv'
  <2>1. x9'.length = x4' /\ x9'.pages = Table(k)!CeilDiv(x7', x9'.length)
    BY <1>1
  <2>2. IF x10' = Table(k)!None THEN x8' = 0
        ELSE x7' = Tables[k].Count[x10'.criteria] /\ x8' \in {0, Table(k)!RowsOf(x10')}
    <3>1. r # Table(k)!None
      BY <1>2 DEF Table!TypeOK, Table!None
    <3>. QED
      BY <1>1, <3>1
  <2>3. ~x17' /\ x15' # Table(k)!None => x15'.page = Table(k)!CeilDiv(x3', x4') + 1 /\ x15'.size = x4'
    BY <1>1 DEF Table!PagerInv
  <2>. QED
    BY <2>1, <2>2, <2>3 DEF Table!PagerInv
<1>11. Table(k)!PagesAreAligned'
  BY <1>1 DEF Table!PagesAreAligned
<1>. QED
  BY <1>7, <1>8, <1>9, <1>10, <1>11 DEF Table!IInv

LEMMA TableFailedKeeps ==
  ASSUME NEW k \in DOMAIN Tables, Table(k)!DataTableAssumption, Table(k)!Typed, Table(k)!OverlayGoesAway,
         Table(k)!RaceInv, Table(k)!PagerInv, Table(k)!PagesAreAligned,
         NEW r \in x11, Table(k)!Failed(r)
  PROVE  Table(k)!IInv'
<1>1. /\ x11' = x11 \ {r} /\ x12' = FALSE /\ x17' = TRUE
      /\ UNCHANGED <<x1, x2, x6, x3, x4, x5, x7, x8, x9, x10, x13, x14, x15, x16>>
  BY DEF Table!Failed, Table!formVars, Table!pageVars, Table!dataVars
<1>2. Table(k)!TypeOK'
  BY <1>1, Zenon DEF Table!Typed, Table!TypeOK
<1>3. Table(k)!Typed'
  BY <1>1, <1>2 DEF Table!Typed, Table!Requests, Table!None
<1>4. Table(k)!OverlayGoesAway'
  BY <1>1 DEF Table!OverlayGoesAway
<1>5. Table(k)!RaceInv'
  BY <1>1 DEF Table!RaceInv
<1>6. Table(k)!PagerInv'
  BY <1>1 DEF Table!PagerInv
<1>7. Table(k)!PagesAreAligned'
  BY <1>1 DEF Table!PagesAreAligned
<1>. QED
  BY <1>3, <1>4, <1>5, <1>6, <1>7 DEF Table!IInv

LEMMA TableEditsKeep ==
  ASSUME NEW k \in DOMAIN Tables, Table(k)!DataTableAssumption, Table(k)!Typed, Table(k)!OverlayGoesAway,
         Table(k)!RaceInv, Table(k)!PagerInv, Table(k)!PagesAreAligned, Table(k)!Edits
  PROVE  Table(k)!IInv'
<1>1. x1' \in Table(k)!Forms
      /\ UNCHANGED <<x2, x6, x3, x4, x5, x7, x8, x9, x10, x11, x12, x13, x14,
                     x15, x16, x17>>
  BY DEF Table!Edits, Table!pageVars, Table!dataVars, Table!netVars, Table!histVars
<1>2. Table(k)!TypeOK'
  BY <1>1 DEF Table!Typed, Table!TypeOK, Table!Forms
<1>3. Table(k)!Typed'
  BY <1>1, <1>2 DEF Table!Typed, Table!Requests, Table!None
<1>4. Table(k)!OverlayGoesAway' /\ Table(k)!RaceInv' /\ Table(k)!PagesAreAligned'
  BY <1>1 DEF Table!OverlayGoesAway, Table!RaceInv, Table!PagesAreAligned
<1>5. Table(k)!PagerInv'
  BY <1>1 DEF Table!PagerInv
<1>. QED
  BY <1>3, <1>4, <1>5 DEF Table!IInv

LEMMA TableInitIInv ==
  ASSUME NEW k \in DOMAIN Tables, Table(k)!DataTableAssumption, Table(k)!Init
  PROVE  Table(k)!IInv
<1>1. /\ x1 \in [criteria : Tables[k].Criteria, valid : BOOLEAN, reinitPage : BOOLEAN]
      /\ x6 \in Tables[k].Filters /\ x2 = FALSE /\ x3 = 0 /\ x4 = Tables[k].InitLength /\ x5 = TRUE
      /\ x7 = 0 /\ x8 = 0 /\ x9 = [length |-> Tables[k].InitLength, pages |-> 0] /\ x10 = Table(k)!None
      /\ x11 = {} /\ x12 = FALSE /\ x13 = FALSE /\ x14 = 0
      /\ x15 = Table(k)!None /\ x16 = FALSE /\ x17 = FALSE
  BY Zenon DEF Table!Init
<1>2. Tables[k].InitLength \in Tables[k].Lengths /\ Tables[k].InitLength \in Nat \ {0}
        /\ Tables[k].MaxDraws \in Nat
  BY DEF Table!DataTableAssumption
<1>3. 0 % Tables[k].InitLength = 0 /\ Table(k)!CeilDiv(0, Tables[k].InitLength) = 0
  BY <1>2, TableZero
<1>4. Table(k)!Typed
  <2>1. x9 \in [length : Tables[k].Lengths, pages : Nat]
    BY <1>1, <1>2
  <2>2. x14 \in 0..Tables[k].MaxDraws
    BY <1>1, <1>2
  <2>. QED
    BY <1>1, <1>2, <2>1, <2>2, Zenon DEF Table!Typed, Table!TypeOK
<1>5. Table(k)!OverlayGoesAway /\ Table(k)!RaceInv
  BY <1>1 DEF Table!OverlayGoesAway, Table!RaceInv
<1>6. Table(k)!PagerInv
  BY <1>1, <1>3 DEF Table!PagerInv
<1>7. Table(k)!PagesAreAligned
  BY <1>1, <1>3 DEF Table!PagesAreAligned
<1>. QED
  BY <1>4, <1>5, <1>6, <1>7 DEF Table!IInv

(* The page after the last one is never asked for. *)
LEMMA TablePagerStays ==
  ASSUME NEW k \in DOMAIN Tables, Table(k)!DataTableAssumption, Table(k)!IInv
  PROVE  Table(k)!PagerStaysInside
<1>1. /\ x1 \in Table(k)!Forms /\ x6 \in Tables[k].Filters /\ x3 \in Nat /\ x14 \in Nat /\ x7 \in Nat
      /\ x4 \in Tables[k].Lengths /\ x4 \in Nat \ {0} /\ x5 \in BOOLEAN /\ x9.pages \in Nat
      /\ x8 \in Nat
  <2>1. Tables[k].MaxDraws \in Nat /\ Tables[k].Lengths \subseteq Nat \ {0}
    BY DEF Table!DataTableAssumption
  <2>2. x1 \in Table(k)!Forms
    BY DEF Table!IInv, Table!Typed, Table!TypeOK, Table!Forms
  <2>. QED
    BY <2>1, <2>2 DEF Table!IInv, Table!Typed, Table!TypeOK
<1>2. PICK l \in Nat \ {0} : l = x4
  BY <1>1
<1>3. ASSUME NEW r \in x11' \ x11, NEW from \in Nat, Table(k)!Draw(x1, from, FALSE),
             UNCHANGED <<x6, x4, x5>>
      PROVE  r.size = l /\ r.page = Table(k)!CeilDiv(x3', l) + 1 /\ x3' \in {0, from}
  <2>1. Table(k)!Drawn(from, FALSE)
    BY <1>1, <1>3, TableDrawIs, Zenon
  <2>. QED
    BY <1>2, <1>3, <2>1 DEF Table!Drawn
<1>4. ASSUME NEW r \in x11' \ x11, NEW m \in Nat, l * m < x7,
             Table(k)!Draw(x1, l * m, FALSE), UNCHANGED <<x6, x4, x5>>
      PROVE  (r.page - 1) * r.size < x7 \/ x7 = 0
  <2>. DEFINE from == l * m
  <2>1. from \in Nat
    BY TableMultiple
  <2>2. Table(k)!CeilDiv(from, l) = m
    BY TableCeilMult
  <2>3. Table(k)!Draw(x1, from, FALSE) /\ from < x7
    BY <1>4, Zenon
  <2>4. from = l * m
    OBVIOUS
  <2>. HIDE DEF from
  <2>5. r.size = l /\ r.page = Table(k)!CeilDiv(x3', l) + 1 /\ x3' \in {0, from}
    BY <1>3, <1>4, <2>1, <2>3, Zenon
  <2>6. CASE x3' = 0
    <3>1. Table(k)!CeilDiv(0, l) = 0
      BY TableZero
    <3>2. r.page - 1 = 0
      BY <2>5, <2>6, <3>1
    <3>. QED
      BY <1>1, <2>5, <3>2
  <2>7. CASE x3' = from
    <3>1. r.page - 1 = m
      BY <2>2, <2>5, <2>7
    <3>2. m * l = l * m
      OBVIOUS
    <3>. QED
      BY <2>3, <2>4, <2>5, <3>1, <3>2
  <2>. QED
    BY <2>5, <2>6, <2>7
<1>5. ASSUME NEW r \in x11' \ x11, x9.length = x4,
             NEW n \in 1..x9.pages, Table(k)!PageLink(n)
      PROVE  (r.page - 1) * r.size < x7 \/ x7 = 0
  <2>1. PICK m \in Nat : m = n - 1
    BY <1>1
  <2>2. x9.pages = Table(k)!CeilDiv(x7, l)
    BY <1>2, <1>5 DEF Table!IInv, Table!PagerInv
  <2>3. PICK q \in Nat : q = x9.pages
    BY <1>1
  <2>4. l * q < x7 + l
    BY <1>1, <2>2, <2>3, TableCeil
  <2>5. m + 1 <= q
    BY <2>1, <2>3
  <2>6. l * (q - (m + 1)) >= 0
    <3>1. PICK d \in Nat : d = q - (m + 1)
      BY <2>5
    <3>2. l * d >= 0
      OBVIOUS
    <3>. QED
      BY <3>1, <3>2
  <2>7. l * (q - (m + 1)) = l * q - l * m - l
    OBVIOUS
  <2>8. l * m < x7
    BY <1>1, <2>4, <2>6, <2>7
  <2>9. (n - 1) * x9.length = l * m
    <3>1. m * l = l * m
      OBVIOUS
    <3>. QED
      BY <1>2, <1>5, <2>1, <3>1
  <2>10. Table(k)!Draw(x1, l * m, FALSE) /\ UNCHANGED <<x6, x4, x5>>
    BY <1>5, <2>9, Zenon DEF Table!PageLink
  <2>. QED
    BY <1>4, <1>5, <2>8, <2>10, Zenon
<1>6. ASSUME NEW r \in x11' \ x11, ~x13, ~x16, ~x17, Table(k)!Turn(Table(k)!NextStart)
      PROVE  (r.page - 1) * r.size < x7 \/ x7 = 0
  <2>1. ~x12 /\ Table(k)!Draw(x1, Table(k)!NextStart, FALSE) /\ UNCHANGED <<x6, x4, x5>>
        /\ (Table(k)!NextStart # x3 \/ x8 = x4)
    BY <1>6, Zenon DEF Table!Turn
  <2>2. CASE Table(k)!NextStart # x3
    <3>1. x3 + x4 < x7 /\ Table(k)!NextStart = x3 + x4
      BY <2>2 DEF Table!NextStart
    <3>2. x3 % l = 0
      BY <1>2, <1>6 DEF Table!IInv, Table!PagesAreAligned
    <3>3. (x3 + l) % l = 0
      BY <1>1, <3>2, TableMoreOf, Zenon
    <3>5. x3 + l \in Nat
      BY <1>1
    <3>4. PICK m \in Nat : x3 + l = l * m
      BY <3>3, <3>5, TableFactor, Zenon
    <3>. QED
      BY <1>2, <1>4, <1>6, <2>1, <3>1, <3>4, Zenon
  <2>3. CASE Table(k)!NextStart = x3 /\ x8 = x4
    <3>1. x11 = {} /\ x10 = x15
      BY <1>6, <2>1 DEF Table!IInv, Table!RaceInv
    <3>2. x10 # Table(k)!None /\ x7 = Tables[k].Count[x10.criteria] /\ Table(k)!RowsOf(x10) = x4
      BY <1>1, <2>3 DEF Table!IInv, Table!PagerInv
    <3>3. x15.page = Table(k)!CeilDiv(x3, l) + 1 /\ x15.size = l
      BY <1>2, <1>6, <3>1, <3>2 DEF Table!IInv, Table!PagerInv
    <3>4. Table(k)!CeilDiv(x3, l) \in Nat
      BY <1>1, TableCeil
    <3>5. PICK c \in Nat : c = Table(k)!CeilDiv(x3, l)
      BY <3>4
    <3>6. (x10.page - 1) * x10.size = c * l
      BY <3>1, <3>3, <3>5
    <3>7. PICK z \in Nat : z = c * l
      OBVIOUS
    <3>8. Table(k)!RowsOf(x10) = IF x7 - z < 0 THEN 0 ELSE Table(k)!Least(x7 - z, l)
      BY <3>1, <3>2, <3>3, <3>6, <3>7 DEF Table!RowsOf
    <3>9. z < x7
      BY <1>1, <1>2, <3>2, <3>8 DEF Table!Least
    <3>10. r.size = l /\ r.page = Table(k)!CeilDiv(x3', l) + 1 /\ x3' \in {0, x3}
      BY <1>1, <1>3, <1>6, <2>1, <2>3, Zenon
    <3>11. CASE x3' = 0
      <4>1. Table(k)!CeilDiv(0, l) = 0
        BY TableZero
      <4>2. r.page - 1 = 0
        BY <3>10, <3>11, <4>1
      <4>. QED
        BY <1>1, <3>10, <4>2
    <3>12. CASE x3' = x3
      <4>1. r.page - 1 = c
        BY <3>5, <3>10, <3>12
      <4>. QED
        BY <3>7, <3>9, <3>10, <4>1
    <3>. QED
      BY <3>10, <3>11, <3>12
  <2>. QED
    BY <2>1, <2>2, <2>3
<1>. QED
  BY <1>5, <1>6 DEF Table!PagerStaysInside

(* What the rows tell is where the table stands. *)
LEMMA TableInfoTells ==
  ASSUME NEW k \in DOMAIN Tables, Table(k)!DataTableAssumption, Table(k)!IInv
  PROVE  Table(k)!InfoTellsRows
<1>. SUFFICES ASSUME x11 = {}, ~x13, ~x16, ~x17, x10 # Table(k)!None
              PROVE  (x10.page - 1) * x10.size = x3 /\ x10.size = x4
  BY DEF Table!InfoTellsRows
<1>1. x3 \in Nat /\ x4 \in Nat \ {0}
  BY DEF Table!IInv, Table!Typed, Table!TypeOK, Table!DataTableAssumption
<1>2. x10 = x15
  BY DEF Table!IInv, Table!RaceInv
<1>3. x10.page = Table(k)!CeilDiv(x3, x4) + 1 /\ x10.size = x4
  BY <1>2 DEF Table!IInv, Table!PagerInv
<1>4. x3 % x4 = 0
  BY DEF Table!IInv, Table!PagesAreAligned
<1>5. PICK l \in Nat \ {0} : l = x4
  BY <1>1
<1>6. PICK n \in Nat : x3 = l * n
  BY <1>1, <1>4, <1>5, TableFactor
<1>7. Table(k)!CeilDiv(x3, l) = n
  BY <1>6, TableCeilMult
<1>8. (x10.page - 1) * x10.size = n * l
  BY <1>3, <1>5, <1>7
<1>9. n * l = l * n
  OBVIOUS
<1>. QED
  BY <1>3, <1>6, <1>8, <1>9

LEMMA TableNextIInv ==
  ASSUME NEW k \in DOMAIN Tables, Table(k)!DataTableAssumption, Table(k)!IInv,
         Table(k)!Next \/ UNCHANGED Table(k)!vars
  PROVE  Table(k)!IInv' /\ Table(k)!PagerStaysInside
<1>1. Table(k)!Typed /\ Table(k)!OverlayGoesAway /\ Table(k)!RaceInv /\ Table(k)!PagerInv
        /\ Table(k)!PagesAreAligned
  BY DEF Table!IInv
<1>2. Table(k)!IInv'
  BY <1>1, TableSteps, TableEditsKeep, TableDrawsKeep, TableAnsweredKeeps, TableFailedKeeps
<1>. QED
  BY <1>2, TablePagerStays

LEMMA TableIInvImplies ==
  ASSUME NEW k \in DOMAIN Tables, Table(k)!DataTableAssumption, Table(k)!IInv
  PROVE  Table(k)!TypeOK /\ Table(k)!ClicksDoNotRace /\ Table(k)!OverlayGoesAway /\ Table(k)!InfoTellsRows
BY TableInfoTells DEF Table!IInv, Table!Typed, Table!RaceInv, Table!ClicksDoNotRace

(* The invariant of the pages of this script. *)
TableInv == \A k \in On("table", Tables) : Table(k)!IInv

LEMMA TableBegins ==
  ASSUME SiteInit
  PROVE  TableInv
<1>. SUFFICES ASSUME NEW k \in On("table", Tables)
         PROVE  Table(k)!IInv
  BY DEF TableInv
<1>1. k \in DOMAIN Tables /\ script = "table" /\ page = k
  BY DEF On
<1>2. Table(k)!Init
  BY <1>1 DEF SiteInit
<1>3. Table(k)!DataTableAssumption
  BY <1>1, SitePagesAreSound DEF SitePagesAssumption
<1>. QED
  BY <1>1, <1>2, TableInitIInv, <1>3

LEMMA TableGoesOn ==
  ASSUME TableInv, SiteStep
  PROVE  /\ TableInv'
         /\ \A k \in On("table", Tables) : Table(k)!PagerStaysInside
<1>1. script' = script /\ page' = page
  BY SiteStays
<1>2. ASSUME NEW k \in On("table", Tables)
      PROVE  Table(k)!IInv' /\ Table(k)!PagerStaysInside
  <2>1. k \in DOMAIN Tables /\ script = "table" /\ page = k
    BY DEF On
  <2>2. Table(k)!Next \/ UNCHANGED Table(k)!vars
    BY <2>1 DEF SiteStep, SiteNext, On, vars, Table!vars, Table!formVars,
      Table!pageVars, Table!dataVars, Table!netVars, Table!histVars
  <2>3. Table(k)!DataTableAssumption
    BY <2>1, SitePagesAreSound DEF SitePagesAssumption
  <2>4. Table(k)!IInv
    BY DEF TableInv
  <2>. QED
    BY <2>1, <2>2, TableNextIInv, <2>3, <2>4
<1>3. On("table", Tables)' = On("table", Tables)
  BY <1>1 DEF On
<1>. QED
  BY <1>2, <1>3 DEF TableInv

LEMMA TableShows ==
  ASSUME TableInv
  PROVE  /\ \A k \in On("table", Tables) : Table(k)!TypeOK
         /\ \A k \in On("table", Tables) : Table(k)!ClicksDoNotRace
         /\ \A k \in On("table", Tables) : Table(k)!OverlayGoesAway
         /\ \A k \in On("table", Tables) : Table(k)!InfoTellsRows
<1>. SUFFICES ASSUME NEW k \in On("table", Tables)
         PROVE  Table(k)!TypeOK /\ Table(k)!ClicksDoNotRace /\ Table(k)!OverlayGoesAway
                  /\ Table(k)!InfoTellsRows
  OBVIOUS
<1>1. k \in DOMAIN Tables /\ Table(k)!IInv
  BY DEF On, TableInv
<1>2. Table(k)!DataTableAssumption
  BY <1>1, SitePagesAreSound DEF SitePagesAssumption
<1>. QED
  BY <1>1, TableIInvImplies, <1>2

-----------------------------------------------------------------------------
(***************************************************************************)
(* BetReport (Bets): x1 is tab, x2 is form, x3 is made, x4 is order, x5 is *)
(* shown, x6 is rows, x7 is flights, x8 is blocked.                        *)
(***************************************************************************)
LEMMA BetsColumnsAre ==
  ASSUME NEW k \in DOMAIN BetPages, Bets(k)!BetReportAssumption
  PROVE  DOMAIN Bets(k)!Columns("SETTLED") = 1..12 /\ DOMAIN Bets(k)!Columns("UNSETTLED") = 1..9
BY DEF Bets!Columns

(* The columns of the page and those of the server have the same numbers.  *)
LEMMA BetsNumbersAgree ==
  ASSUME NEW k \in DOMAIN BetPages, NEW t \in Bets(k)!Tabs, NEW n \in DOMAIN Bets(k)!Columns(t)
  PROVE  n \in DOMAIN Bets(k)!SortColumns(t)
           /\ Bets(k)!SortColumns(t)[n] = Bets(k)!Stored[Bets(k)!Columns(t)[n]]
<1>1. CASE t = "SETTLED"
  <2>1. n \in 1..12
    BY <1>1 DEF Bets!Columns
  <2>2. n \in DOMAIN Bets(k)!SortColumns(t)
    BY <1>1, <2>1 DEF Bets!SortColumns, Bets!Settled
  <2>3. n = 1 \/ n = 2 \/ n = 3 \/ n = 4 \/ n = 5 \/ n = 6 \/ n = 7 \/ n = 8 \/ n = 9 \/ n = 10 \/ n = 11
          \/ n = 12
    BY <2>1
  <2>. QED
    BY <1>1, <2>2, <2>3 DEF Bets!Columns, Bets!SortColumns, Bets!Settled, Bets!Stored
<1>2. CASE t = "UNSETTLED"
  <2>1. n \in 1..9
    BY <1>2 DEF Bets!Columns
  <2>2. n \in DOMAIN Bets(k)!SortColumns(t)
    BY <1>2, <2>1 DEF Bets!SortColumns
  <2>3. n = 1 \/ n = 2 \/ n = 3 \/ n = 4 \/ n = 5 \/ n = 6 \/ n = 7 \/ n = 8 \/ n = 9
    BY <2>1
  <2>. QED
    BY <1>2, <2>2, <2>3 DEF Bets!Columns, Bets!SortColumns, Bets!Stored
<1>. QED
  BY <1>1, <1>2 DEF Bets!Tabs

LEMMA BetsInitIInv ==
  ASSUME NEW k \in DOMAIN BetPages, Bets(k)!BetReportAssumption, Bets(k)!Init
  PROVE  Bets(k)!IInv
<1>1. x7 = {} /\ IsFiniteSet(x7) /\ Bets(k)!Cardinality(x7) = 0
  BY FS_EmptySet DEF Bets!Init, Bets!Cardinality, Cardinality
<1>2. Bets(k)!TypeOK
  <2>1. x2 \in [dates : {"range", "empty"}, min : BetPages[k].Amounts \union {Bets(k)!NoAmount},
          max : BetPages[k].Amounts \union {Bets(k)!NoAmount}]
    BY DEF Bets!Init
  <2>2. x4 \in [Bets(k)!Tabs -> 1..12] /\ x3 \subseteq Bets(k)!Tabs /\ x1 \in Bets(k)!Tabs
    BY DEF Bets!Init, Bets!Tabs
  <2>3. Bets(k)!Cardinality(x7) <= BetPages[k].MaxOut
    BY <1>1 DEF Bets!BetReportAssumption
  <2>. QED
    BY <2>1, <2>2, <2>3, Zenon DEF Bets!Init, Bets!TypeOK
<1>3. Bets(k)!Typed
  <2>1. \A t \in Bets(k)!Tabs : x4[t] \in DOMAIN Bets(k)!Columns(t)
    BY BetsColumnsAre DEF Bets!Init, Bets!Tabs
  <2>2. x6 \in [Bets(k)!Tabs -> Bets(k)!Tabs \union {"none"}]
    BY DEF Bets!Init
  <2>. QED
    BY <1>1, <2>1, <2>2 DEF Bets!Typed, Bets!IsFiniteSet, IsFiniteSet
<1>4. Bets(k)!RowsInv /\ Bets(k)!FlightsInv /\ Bets(k)!FormInv
  BY <1>1 DEF Bets!Init, Bets!RowsInv, Bets!FlightsInv, Bets!FormInv, Bets!Tabs
<1>. QED
  BY <1>2, <1>3, <1>4 DEF Bets!IInv

(* What a table sends: one request, or two alike, of the tab that is open. *)
LEMMA BetsSentIs ==
  ASSUME NEW k \in DOMAIN BetPages, Bets(k)!BetReportAssumption, Bets(k)!IInv, NEW C \in {{1}, {1, 2}},
         Bets(k)!Draw(x1, C),
         x4' \in [Bets(k)!Tabs -> 1..12], x4'[x1] \in DOMAIN Bets(k)!Columns(x1)
  PROVE  /\ x7' \subseteq Bets(k)!Requests /\ Bets(k)!IsFiniteSet(x7')
              /\ Bets(k)!Cardinality(x7') <= BetPages[k].MaxOut
         /\ x8' \in BOOLEAN
         /\ \A r \in x7' : r \in x7 \/ (/\ r.status = x1 /\ r.table = x1
                                        /\ r.column = x4'[x1] /\ r.form = x2)
<1>. DEFINE R(c) == [status |-> x1, table |-> x1, form |-> x2, column |-> x4'[x1], copy |-> c]
<1>0. /\ x1 \in Bets(k)!Tabs /\ x2 \in Bets(k)!Forms /\ x8 \in BOOLEAN /\ x7 \subseteq Bets(k)!Requests
      /\ IsFiniteSet(x7) /\ Cardinality(x7) <= BetPages[k].MaxOut /\ BetPages[k].MaxOut \in Nat
  BY DEF Bets!IInv, Bets!TypeOK, Bets!Typed, Bets!Forms, Bets!BetReportAssumption,
      Bets!IsFiniteSet, IsFiniteSet, Bets!Cardinality, Cardinality
<1>1. CASE UNCHANGED <<x7, x8>>
  BY <1>0, <1>1 DEF Bets!IsFiniteSet, IsFiniteSet, Bets!Cardinality, Cardinality
<1>2. CASE /\ Bets(k)!Cardinality(x7) + Bets(k)!Cardinality(C) <= BetPages[k].MaxOut
           /\ x7' = x7 \union {Bets(k)!Request(x1, c) : c \in C}
           /\ x8' = TRUE
  <2>1. {Bets(k)!Request(x1, c) : c \in C} = {R(c) : c \in C}
    BY DEF Bets!Request
  <2>2. \A c \in {1, 2} : R(c) \in Bets(k)!Requests
    BY <1>0 DEF Bets!Requests
  <2>3. x7' = x7 \union {R(c) : c \in C} /\ x8' = TRUE
    BY <1>2, <2>1
  <2>4. x7' \subseteq Bets(k)!Requests
    BY <1>0, <2>2, <2>3
  <2>5. Cardinality(x7) + Cardinality(C) <= BetPages[k].MaxOut
    BY <1>2 DEF Bets!Cardinality, Cardinality
  <2>6. IsFiniteSet(x7') /\ Cardinality(x7') <= BetPages[k].MaxOut
    <3>0. /\ IsFiniteSet(x7 \union {R(1)}) /\ Cardinality(x7) \in Nat
          /\ Cardinality(x7 \union {R(1)}) <= Cardinality(x7) + 1
          /\ Cardinality(x7 \union {R(1)}) \in Nat
      <4>. HIDE DEF R
      <4>1. IsFiniteSet(x7 \union {R(1)}) /\ Cardinality(x7) \in Nat
        BY <1>0, FS_AddElement, FS_CardinalityType
      <4>2. Cardinality(x7 \union {R(1)}) = IF R(1) \in x7 THEN Cardinality(x7) ELSE Cardinality(x7) + 1
        BY <1>0, FS_AddElement, Zenon
      <4>. QED
        BY <4>1, <4>2
    <3>1. CASE C = {1}
      <4>1. x7' = x7 \union {R(1)}
        BY <2>3, <3>1
      <4>2. Cardinality(C) = 1
        BY <3>1, FS_Singleton
      <4>. HIDE DEF R
      <4>. QED
        BY <1>0, <2>5, <3>0, <4>1, <4>2
    <3>2. CASE C = {1, 2}
      <4>1. x7' = (x7 \union {R(1)}) \union {R(2)}
        BY <2>3, <3>2
      <4>2. Cardinality(C) = 2
        <5>1. C = {1} \union {2} /\ 2 \notin {1}
          BY <3>2
        <5>2. IsFiniteSet({1}) /\ Cardinality({1}) = 1
          BY FS_Singleton, Zenon
        <5>. QED
          BY <5>1, <5>2, FS_AddElement
      <4>. HIDE DEF R
      <4>3. IsFiniteSet(x7')
        BY <3>0, <4>1, FS_AddElement
      <4>4. Cardinality(x7') <= Cardinality(x7 \union {R(1)}) + 1
        <5>1. Cardinality(x7')
                = IF R(2) \in x7 \union {R(1)} THEN Cardinality(x7 \union {R(1)})
                                                    ELSE Cardinality(x7 \union {R(1)}) + 1
          BY <3>0, <4>1, FS_AddElement
        <5>. QED
          BY <3>0, <5>1
      <4>5. Cardinality(x7') \in Nat
        BY <4>3, FS_CardinalityType
      <4>. QED
        BY <1>0, <2>5, <3>0, <4>2, <4>3, <4>4, <4>5
    <3>. QED
      BY <3>1, <3>2
  <2>7. \A r \in x7' : r \in x7 \/ (/\ r.status = x1 /\ r.table = x1
                                    /\ r.column = x4'[x1] /\ r.form = x2)
    BY <2>3
  <2>. QED
    BY <2>3, <2>4, <2>6, <2>7, Zenon DEF Bets!IsFiniteSet, IsFiniteSet, Bets!Cardinality, Cardinality
<1>. QED
  BY <1>1, <1>2, Zenon DEF Bets!Draw

(* A table that draws keeps the invariant. *)
LEMMA BetsDrawKeeps ==
  ASSUME NEW k \in DOMAIN BetPages, Bets(k)!BetReportAssumption, Bets(k)!IInv, NEW C \in {{1}, {1, 2}},
         Bets(k)!Draw(x1, C),
         x4' \in [Bets(k)!Tabs -> 1..12], \A t \in Bets(k)!Tabs : x4'[t] \in DOMAIN Bets(k)!Columns(t),
         x3' \subseteq Bets(k)!Tabs, x5' \in BOOLEAN, UNCHANGED <<x1, x2, x6>>
  PROVE  Bets(k)!IInv'
<1>0. x1 \in Bets(k)!Tabs
  BY DEF Bets!IInv, Bets!TypeOK
<1>1. /\ x7' \subseteq Bets(k)!Requests /\ Bets(k)!IsFiniteSet(x7')
           /\ Bets(k)!Cardinality(x7') <= BetPages[k].MaxOut
      /\ x8' \in BOOLEAN
      /\ \A r \in x7' : r \in x7 \/ (/\ r.status = x1 /\ r.table = x1
                                     /\ r.column = x4'[x1] /\ r.form = x2)
  BY <1>0, BetsSentIs, Zenon
<1>2. Bets(k)!TypeOK' /\ Bets(k)!Typed' /\ Bets(k)!RowsInv' /\ Bets(k)!FormInv'
  BY <1>1 DEF Bets!IInv, Bets!TypeOK, Bets!Typed, Bets!RowsInv, Bets!FormInv
<1>3. Bets(k)!FlightsInv'
  BY <1>0, <1>1 DEF Bets!IInv, Bets!FlightsInv, Bets!FormInv
<1>. QED
  BY <1>2, <1>3 DEF Bets!IInv

(* An answer takes its request away and fills at most its own table. *)
LEMMA BetsAnswerKeeps ==
  ASSUME NEW k \in DOMAIN BetPages, Bets(k)!BetReportAssumption, Bets(k)!IInv, NEW r \in x7, x7' = x7 \ {r},
         x8' = FALSE,
         x6' = [x6 EXCEPT ![r.table] = r.status] \/ x6' = x6,
         UNCHANGED <<x1, x2, x3, x4, x5>>
  PROVE  Bets(k)!IInv'
<1>1. IsFiniteSet(x7) /\ Cardinality(x7) <= BetPages[k].MaxOut /\ BetPages[k].MaxOut \in Nat
  BY Zenon DEF Bets!IInv, Bets!TypeOK, Bets!Typed, Bets!BetReportAssumption, Bets!IsFiniteSet, IsFiniteSet,
     Bets!Cardinality, Cardinality
<1>2. IsFiniteSet(x7') /\ Cardinality(x7') <= Cardinality(x7)
  BY <1>1, FS_Subset
<1>3. Cardinality(x7') \in Nat /\ Cardinality(x7) \in Nat
  BY <1>1, <1>2, FS_CardinalityType
<1>4. Bets(k)!IsFiniteSet(x7') /\ Bets(k)!Cardinality(x7') <= BetPages[k].MaxOut
  <2>1. IsFiniteSet(x7') /\ Cardinality(x7') <= BetPages[k].MaxOut
    BY <1>1, <1>2, <1>3
  <2>. QED
    BY <2>1 DEF Bets!IsFiniteSet, IsFiniteSet, Bets!Cardinality, Cardinality
<1>5. r.table \in Bets(k)!Tabs /\ r.status = r.table
  <2>1. r \in Bets(k)!Requests
    BY DEF Bets!IInv, Bets!Typed
  <2>2. r.table \in Bets(k)!Tabs
    BY <2>1 DEF Bets!Requests
  <2>3. r.status = r.table
    BY DEF Bets!IInv, Bets!FlightsInv
  <2>. QED
    BY <2>2, <2>3
<1>6. x6' \in [Bets(k)!Tabs -> Bets(k)!Tabs \union {"none"}] /\ Bets(k)!RowsInv'
  BY <1>5 DEF Bets!IInv, Bets!Typed, Bets!RowsInv
<1>7. Bets(k)!TypeOK' /\ Bets(k)!Typed' /\ Bets(k)!FormInv' /\ Bets(k)!FlightsInv'
  BY <1>4, <1>6, Zenon DEF Bets!IInv, Bets!TypeOK, Bets!Typed, Bets!FormInv, Bets!FlightsInv
<1>. QED
  BY <1>6, <1>7 DEF Bets!IInv

LEMMA BetsFieldsKeep ==
  ASSUME NEW k \in DOMAIN BetPages, Bets(k)!BetReportAssumption, Bets(k)!IInv, x1' \in Bets(k)!Tabs,
         x2' \in Bets(k)!Forms, Bets(k)!FormInv', x5' \in BOOLEAN,
         UNCHANGED <<x3, x4, x6, x7, x8>>
  PROVE  Bets(k)!IInv'
<1>1. Bets(k)!TypeOK' /\ Bets(k)!Typed'
  BY DEF Bets!IInv, Bets!TypeOK, Bets!Typed, Bets!Forms
<1>2. Bets(k)!RowsInv' /\ Bets(k)!FlightsInv'
  BY DEF Bets!IInv, Bets!RowsInv, Bets!FlightsInv
<1>. QED
  BY <1>1, <1>2 DEF Bets!IInv

LEMMA BetsNextIInv ==
  ASSUME NEW k \in DOMAIN BetPages, Bets(k)!BetReportAssumption, Bets(k)!IInv,
         Bets(k)!Next \/ UNCHANGED Bets(k)!vars
  PROVE  Bets(k)!IInv'
<1>0. /\ x1 \in Bets(k)!Tabs /\ x2 \in Bets(k)!Forms /\ x5 \in BOOLEAN /\ Bets(k)!FormInv
           /\ x3 \subseteq Bets(k)!Tabs
      /\ x4 \in [Bets(k)!Tabs -> 1..12] /\ \A t \in Bets(k)!Tabs : x4[t] \in DOMAIN Bets(k)!Columns(t)
  BY DEF Bets!IInv, Bets!TypeOK, Bets!Typed, Bets!Forms
<1>1. ASSUME NEW a \in BetPages[k].Amounts \union {Bets(k)!NoAmount},
             NEW b \in BetPages[k].Amounts \union {Bets(k)!NoAmount}, Bets(k)!EnterAmounts(a, b)
      PROVE  Bets(k)!IInv'
  <2>1. x2' \in Bets(k)!Forms /\ Bets(k)!FormInv'
    BY <1>0, <1>1, Zenon DEF Bets!EnterAmounts, Bets!Forms, Bets!FormInv
  <2>. QED
    BY <1>0, <1>1, <2>1, BetsFieldsKeep DEF Bets!EnterAmounts
<1>2. CASE Bets(k)!applyDates
  <2>1. x2' \in Bets(k)!Forms /\ Bets(k)!FormInv'
    BY <1>0, <1>2 DEF Bets!applyDates, Bets!Forms, Bets!FormInv
  <2>. QED
    BY <1>0, <1>2, <2>1, BetsFieldsKeep DEF Bets!applyDates
<1>3. CASE Bets(k)!cancelDates
  <2>1. x2' \in Bets(k)!Forms /\ Bets(k)!FormInv'
    BY <1>0, <1>3 DEF Bets!cancelDates, Bets!Forms, Bets!FormInv
  <2>. QED
    BY <1>0, <1>3, <2>1, BetsFieldsKeep DEF Bets!cancelDates
<1>4. ASSUME NEW t \in Bets(k)!Tabs, Bets(k)!switchTab(t)
      PROVE  Bets(k)!IInv'
  <2>1. x2' \in Bets(k)!Forms /\ Bets(k)!FormInv'
    BY <1>0, <1>4, Zenon DEF Bets!switchTab, Bets!Forms, Bets!FormInv, Bets!Tabs
  <2>. QED
    BY <1>0, <1>4, <2>1, BetsFieldsKeep, Zenon DEF Bets!switchTab
<1>5. CASE Bets(k)!searchReport
  <2>1. x3' \subseteq Bets(k)!Tabs /\ x5' \in BOOLEAN /\ x4' = x4 /\ Bets(k)!Draw(x1, {1})
          /\ UNCHANGED <<x1, x2, x6>>
    BY <1>0, <1>5 DEF Bets!searchReport
  <2>. QED
    BY <1>0, <2>1, BetsDrawKeeps
<1>6. ASSUME NEW n \in BetPages[k].Sorts, Bets(k)!SortBy(n)
      PROVE  Bets(k)!IInv'
  <2>1. n \in 1..12 /\ n \in DOMAIN Bets(k)!Columns(x1)
    BY <1>6 DEF Bets!BetReportAssumption, Bets!SortBy
  <2>2. x4' = [x4 EXCEPT ![x1] = n]
    BY <1>6 DEF Bets!SortBy
  <2>3. x4' \in [Bets(k)!Tabs -> 1..12] /\ \A t \in Bets(k)!Tabs : x4'[t] \in DOMAIN Bets(k)!Columns(t)
    BY <1>0, <2>1, <2>2
  <2>4. x3' = x3 /\ x5' = x5 /\ Bets(k)!Draw(x1, {1}) /\ UNCHANGED <<x1, x2, x6>>
    BY <1>6 DEF Bets!SortBy
  <2>. QED
    BY <1>0, <2>3, <2>4, BetsDrawKeeps
<1>7. CASE Bets(k)!ChangeLength
  <2>1. x3' = x3 /\ x5' = x5 /\ x4' = x4 /\ Bets(k)!Draw(x1, {1, 2}) /\ UNCHANGED <<x1, x2, x6>>
    BY <1>7 DEF Bets!ChangeLength
  <2>. QED
    BY <1>0, <2>1, BetsDrawKeeps
<1>8. ASSUME NEW r \in x7, Bets(k)!searchBetReport(r) \/ Bets(k)!Fails(r)
      PROVE  Bets(k)!IInv'
  <2>1. /\ x7' = x7 \ {r} /\ x8' = FALSE /\ UNCHANGED <<x1, x2, x3, x4, x5>>
        /\ x6' = [x6 EXCEPT ![r.table] = r.status] \/ x6' = x6
    BY <1>8 DEF Bets!searchBetReport, Bets!Fails
  <2>. QED
    BY <2>1, BetsAnswerKeeps, Zenon
<1>9. CASE UNCHANGED Bets(k)!vars
  <2>1. UNCHANGED <<x3, x4, x6, x7, x8>> /\ x1' = x1 /\ x2' = x2 /\ x5' = x5
    BY <1>9 DEF Bets!vars
  <2>2. Bets(k)!FormInv'
    BY <1>0, <2>1 DEF Bets!FormInv
  <2>. QED
    BY <1>0, <2>1, <2>2, BetsFieldsKeep
<1>. QED
  BY <1>1, <1>2, <1>3, <1>4, <1>5, <1>6, <1>7, <1>8, <1>9 DEF Bets!Next

LEMMA BetsIInvImplies ==
  ASSUME NEW k \in DOMAIN BetPages, Bets(k)!BetReportAssumption, Bets(k)!IInv
  PROVE  Bets(k)!TypeOK /\ Bets(k)!RowsOfTheTab /\ Bets(k)!AmountsOnlyOfSettled /\ Bets(k)!DatesHaveTwoEnds
           /\ Bets(k)!SortedBySeenColumn
<1>1. Bets(k)!TypeOK /\ Bets(k)!RowsOfTheTab
  BY DEF Bets!IInv, Bets!RowsInv, Bets!RowsOfTheTab, Bets!TypeOK
<1>2. Bets(k)!AmountsOnlyOfSettled
  <2>1. Bets(k)!FlightsInv
    BY DEF Bets!IInv
  <2>. QED
    BY <2>1 DEF Bets!FlightsInv, Bets!AmountsOnlyOfSettled
<1>3. Bets(k)!DatesHaveTwoEnds
  BY DEF Bets!IInv, Bets!Typed, Bets!Requests, Bets!Forms, Bets!DatesHaveTwoEnds
<1>4. Bets(k)!SortedBySeenColumn
  <2>. SUFFICES ASSUME NEW r \in x7
                PROVE  /\ r.column \in DOMAIN Bets(k)!SortColumns(r.status)
                       /\ Bets(k)!SortColumns(r.status)[r.column]
                            = Bets(k)!Stored[Bets(k)!Columns(r.table)[r.column]]
    BY DEF Bets!SortedBySeenColumn
  <2>1. r.table \in Bets(k)!Tabs /\ r.status = r.table /\ r.column \in DOMAIN Bets(k)!Columns(r.table)
    <3>1. r \in Bets(k)!Requests
      BY DEF Bets!IInv, Bets!Typed
    <3>2. r.table \in Bets(k)!Tabs
      BY <3>1 DEF Bets!Requests
    <3>3. r.status = r.table /\ r.column \in DOMAIN Bets(k)!Columns(r.table)
      BY DEF Bets!IInv, Bets!FlightsInv
    <3>. QED
      BY <3>2, <3>3
  <2>. QED
    BY <2>1, BetsNumbersAgree
<1>. QED
  BY <1>1, <1>2, <1>3, <1>4

(* The invariant of the pages of this script. *)
BetsInv == \A k \in On("bets", BetPages) : Bets(k)!IInv

LEMMA BetsBegins ==
  ASSUME SiteInit
  PROVE  BetsInv
<1>. SUFFICES ASSUME NEW k \in On("bets", BetPages)
         PROVE  Bets(k)!IInv
  BY DEF BetsInv
<1>1. k \in DOMAIN BetPages /\ script = "bets" /\ page = k
  BY DEF On
<1>2. Bets(k)!Init
  BY <1>1 DEF SiteInit
<1>3. Bets(k)!BetReportAssumption
  BY <1>1, SitePagesAreSound DEF SitePagesAssumption
<1>. QED
  BY <1>1, <1>2, BetsInitIInv, <1>3

LEMMA BetsGoesOn ==
  ASSUME BetsInv, SiteStep
  PROVE  BetsInv'
<1>1. script' = script /\ page' = page
  BY SiteStays
<1>2. ASSUME NEW k \in On("bets", BetPages)
      PROVE  Bets(k)!IInv'
  <2>1. k \in DOMAIN BetPages /\ script = "bets" /\ page = k
    BY DEF On
  <2>2. Bets(k)!Next \/ UNCHANGED Bets(k)!vars
    BY <2>1 DEF SiteStep, SiteNext, On, vars, Bets!vars
  <2>3. Bets(k)!BetReportAssumption
    BY <2>1, SitePagesAreSound DEF SitePagesAssumption
  <2>4. Bets(k)!IInv
    BY DEF BetsInv
  <2>. QED
    BY <2>1, <2>2, BetsNextIInv, <2>3, <2>4
<1>3. On("bets", BetPages)' = On("bets", BetPages)
  BY <1>1 DEF On
<1>. QED
  BY <1>2, <1>3 DEF BetsInv

LEMMA BetsShows ==
  ASSUME BetsInv
  PROVE  /\ \A k \in On("bets", BetPages) : Bets(k)!TypeOK
         /\ \A k \in On("bets", BetPages) : Bets(k)!RowsOfTheTab
         /\ \A k \in On("bets", BetPages) : Bets(k)!AmountsOnlyOfSettled
         /\ \A k \in On("bets", BetPages) : Bets(k)!DatesHaveTwoEnds
         /\ \A k \in On("bets", BetPages) : Bets(k)!SortedBySeenColumn
<1>. SUFFICES ASSUME NEW k \in On("bets", BetPages)
         PROVE  Bets(k)!TypeOK /\ Bets(k)!RowsOfTheTab /\ Bets(k)!AmountsOnlyOfSettled
                  /\ Bets(k)!DatesHaveTwoEnds /\ Bets(k)!SortedBySeenColumn
  OBVIOUS
<1>1. k \in DOMAIN BetPages /\ Bets(k)!IInv
  BY DEF On, BetsInv
<1>2. Bets(k)!BetReportAssumption
  BY <1>1, SitePagesAreSound DEF SitePagesAssumption
<1>. QED
  BY <1>1, BetsIInvImplies, <1>2

-----------------------------------------------------------------------------
(***************************************************************************)
(* GameTxnWindow (Window): x1 is bet, x2 is info, x3 is steps, x4 is row,  *)
(* x5 is asked, x6 is window, x7 is found.                                 *)
(***************************************************************************)
LEMMA WindowInitIInv ==
  ASSUME NEW k \in DOMAIN BetWindows, Window(k)!GameTxnWindowAssumption, Window(k)!Init
  PROVE  Window(k)!IInv
<1>1. Window(k)!Cardinality({}) = 0
  BY FS_EmptySet DEF Window!Cardinality, Cardinality
<1>2. x6.shows = "nothing"
  BY DEF Window!Init, Window!Opening
<1>3. x1 \in Window(k)!Bet
  BY DEF Window!Init, Window!Bet, Window!Status
<1>4. Window(k)!TypeOK
  BY <1>1, <1>2, <1>3 DEF Window!Init, Window!TypeOK
<1>. QED
  BY <1>2, <1>4 DEF Window!Init, Window!IInv, Window!AskedOnce, Window!FoundUnlessMoved,
      Window!NoTimeOfViewing, Window!InfoIsShown

(* The bet changes and the row is drawn again while the window stands. *)
LEMMA WindowStandsStill ==
  ASSUME NEW k \in DOMAIN BetWindows, Window(k)!IInv, UNCHANGED <<x2, x5, x6, x7>>, x1' \in Window(k)!Bet,
         x4' \subseteq Window(k)!Bet, Window(k)!Cardinality(x4') <= 1
  PROVE  Window(k)!IInv'
BY Zenon DEF Window!IInv, Window!TypeOK, Window!AskedOnce, Window!FoundUnlessMoved, Window!NoTimeOfViewing,
   Window!InfoIsShown

LEMMA WindowDrawKeeps ==
  ASSUME NEW k \in DOMAIN BetWindows, Window(k)!GameTxnWindowAssumption, Window(k)!IInv, Window(k)!DrawRow
  PROVE  Window(k)!IInv'
<1>. DEFINE r == [status |-> x1.status, day |-> IF x1.status = "unsettled" THEN 0 ELSE x1.day]
<1>1. x1 \in Window(k)!Bet
  BY DEF Window!IInv, Window!TypeOK
<1>2. r \in Window(k)!Bet
  BY <1>1 DEF Window!Bet
<1>3. x4' = {r}
  BY DEF Window!DrawRow
<1>4. Window(k)!Cardinality({r}) = 1
  BY FS_Singleton, Zenon DEF Window!Cardinality, Cardinality
<1>. HIDE DEF r
<1>5. x4' \subseteq Window(k)!Bet /\ Window(k)!Cardinality(x4') <= 1
  BY <1>2, <1>3, <1>4
<1>. QED
  BY <1>1, <1>5, WindowStandsStill, Zenon DEF Window!DrawRow

LEMMA WindowOpenKeeps ==
  ASSUME NEW k \in DOMAIN BetWindows, Window(k)!GameTxnWindowAssumption, Window(k)!IInv, NEW r \in x4,
         Window(k)!openGameTxnData(r)
  PROVE  Window(k)!IInv'
<1>1. r.day \in {0} \cup BetWindows[k].Days
  BY DEF Window!IInv, Window!TypeOK, Window!Bet
<1>2. Window(k)!Cardinality({r.day}) = 1
  BY FS_Singleton, Zenon DEF Window!Cardinality, Cardinality
<1>3. x5 = {} /\ x5' = {r.day} /\ UNCHANGED <<x1, x2, x3, x4, x6, x7>>
  BY DEF Window!openGameTxnData
<1>4. x6.shows = "nothing"
  BY <1>3 DEF Window!IInv, Window!TypeOK
<1>5. Window(k)!Cardinality(x5') <= 1 /\ x5' \subseteq {0} \cup BetWindows[k].Days
  BY <1>1, <1>2, <1>3
<1>6. Window(k)!TypeOK'
  BY <1>3, <1>4, <1>5 DEF Window!IInv, Window!TypeOK
<1>7. Window(k)!AskedOnce' /\ Window(k)!FoundUnlessMoved' /\ Window(k)!NoTimeOfViewing'
        /\ Window(k)!InfoIsShown'
  BY <1>1, <1>3, <1>4 DEF Window!AskedOnce, Window!FoundUnlessMoved,
      Window!NoTimeOfViewing, Window!InfoIsShown
<1>. QED
  BY <1>6, <1>7 DEF Window!IInv

LEMMA WindowSearchKeeps ==
  ASSUME NEW k \in DOMAIN BetWindows, Window(k)!GameTxnWindowAssumption, Window(k)!IInv, Window(k)!search
  PROVE  Window(k)!IInv'
<1>1. PICK day \in x5 : /\ x7' = {x1}
                        /\ x6' = IF Window(k)!Answer(day) = {} THEN [shows |-> "error"]
                             ELSE Window(k)!renderGameTxn(x1)
  BY DEF Window!search
<1>2. UNCHANGED <<x1, x2, x3, x4, x5>> /\ x1 \in Window(k)!Bet /\ x5 = {day}
  BY <1>1 DEF Window!IInv, Window!TypeOK, Window!AskedOnce, Window!search
<1>3. CASE Window(k)!Answer(day) = {}
  <2>1. x6' = [shows |-> "error"]
    BY <1>1, <1>3
  <2>2. x6'.shows = "error"
    BY <2>1
  <2>3. x1.day = 0 \/ (day # 0 /\ x1.day # day)
    BY <1>3 DEF Window!Answer, Window!Finds
  <2>4. Window(k)!TypeOK' /\ Window(k)!AskedOnce'
    BY <1>1, <1>2, <2>2 DEF Window!IInv, Window!TypeOK, Window!AskedOnce
  <2>5. Window(k)!FoundUnlessMoved' /\ Window(k)!NoTimeOfViewing' /\ Window(k)!InfoIsShown'
    BY <1>1, <1>2, <2>2, <2>3, Zenon DEF Window!FoundUnlessMoved, Window!NoTimeOfViewing, Window!InfoIsShown
  <2>. QED
    BY <2>4, <2>5 DEF Window!IInv
<1>4. CASE Window(k)!Answer(day) # {}
  <2>1. x6' = [shows |-> "bet", amounts |-> Window(k)!Amounts(x1), rows |-> Window(k)!InfoRows(x2)]
    BY <1>1, <1>4 DEF Window!renderGameTxn
  <2>2. x6'.shows = "bet" /\ x6'.amounts = Window(k)!Amounts(x1) /\ x6'.rows = Window(k)!InfoRows(x2)
    BY <2>1
  <2>3. x1.day # 0 /\ x1.status \in {"unsettled", "settled", "revoked"}
    BY <1>2, <1>4 DEF Window!Answer, Window!Bet, Window!Status
  <2>4. Window(k)!TypeOK' /\ Window(k)!AskedOnce'
    BY <1>1, <1>2, <2>2 DEF Window!IInv, Window!TypeOK, Window!AskedOnce
  <2>5. Window(k)!Amounts(x1).settleTime = IF x1.status = "unsettled" THEN {} ELSE {x1.day}
    BY <2>3 DEF Window!Amounts, Window!format
  <2>6. Window(k)!NoTimeOfViewing'
    BY <1>1, <1>2, <2>2, <2>3, <2>5 DEF Window!NoTimeOfViewing, Window!Now
  <2>7. Window(k)!InfoRows(x2) = {} <=> x2 = ""
    BY Zenon DEF Window!InfoRows
  <2>8. Window(k)!FoundUnlessMoved' /\ Window(k)!InfoIsShown'
    BY <1>2, <2>2, <2>7, Zenon DEF Window!FoundUnlessMoved, Window!InfoIsShown
  <2>. QED
    BY <2>4, <2>6, <2>8 DEF Window!IInv
<1>. QED
  BY <1>3, <1>4

LEMMA WindowNextIInv ==
  ASSUME NEW k \in DOMAIN BetWindows, Window(k)!GameTxnWindowAssumption, Window(k)!IInv,
         Window(k)!Next \/ UNCHANGED Window(k)!vars
  PROVE  Window(k)!IInv'
<1>1. x1 \in Window(k)!Bet /\ x4 \subseteq Window(k)!Bet /\ Window(k)!Cardinality(x4) <= 1
  BY DEF Window!IInv, Window!TypeOK
<1>2. ASSUME NEW b \in Window(k)!Bet, Window(k)!ChangeBet(b)
      PROVE  Window(k)!IInv'
  BY <1>1, <1>2, WindowStandsStill DEF Window!ChangeBet
<1>3. CASE UNCHANGED Window(k)!vars
  BY <1>1, <1>3, WindowStandsStill DEF Window!vars
<1>. QED
  BY <1>2, <1>3, WindowDrawKeeps, WindowOpenKeeps, WindowSearchKeeps DEF Window!Next

LEMMA WindowIInvImplies ==
  ASSUME NEW k \in DOMAIN BetWindows, Window(k)!IInv
  PROVE  Window(k)!TypeOK /\ Window(k)!FoundUnlessMoved /\ Window(k)!NoTimeOfViewing /\ Window(k)!InfoIsShown
BY DEF Window!IInv

(* The invariant of the pages of this script. *)
WindowInv == \A k \in On("window", BetWindows) : Window(k)!IInv

LEMMA WindowBegins ==
  ASSUME SiteInit
  PROVE  WindowInv
<1>. SUFFICES ASSUME NEW k \in On("window", BetWindows)
         PROVE  Window(k)!IInv
  BY DEF WindowInv
<1>1. k \in DOMAIN BetWindows /\ script = "window" /\ page = k
  BY DEF On
<1>2. Window(k)!Init
  BY <1>1 DEF SiteInit
<1>3. Window(k)!GameTxnWindowAssumption
  BY <1>1, SitePagesAreSound DEF SitePagesAssumption
<1>. QED
  BY <1>1, <1>2, WindowInitIInv, <1>3

LEMMA WindowGoesOn ==
  ASSUME WindowInv, SiteStep
  PROVE  WindowInv'
<1>1. script' = script /\ page' = page
  BY SiteStays
<1>2. ASSUME NEW k \in On("window", BetWindows)
      PROVE  Window(k)!IInv'
  <2>1. k \in DOMAIN BetWindows /\ script = "window" /\ page = k
    BY DEF On
  <2>2. Window(k)!Next \/ UNCHANGED Window(k)!vars
    BY <2>1 DEF SiteStep, SiteNext, On, vars, Window!vars
  <2>3. Window(k)!GameTxnWindowAssumption
    BY <2>1, SitePagesAreSound DEF SitePagesAssumption
  <2>4. Window(k)!IInv
    BY DEF WindowInv
  <2>. QED
    BY <2>1, <2>2, WindowNextIInv, <2>3, <2>4
<1>3. On("window", BetWindows)' = On("window", BetWindows)
  BY <1>1 DEF On
<1>. QED
  BY <1>2, <1>3 DEF WindowInv

LEMMA WindowShows ==
  ASSUME WindowInv
  PROVE  /\ \A k \in On("window", BetWindows) : Window(k)!TypeOK
         /\ \A k \in On("window", BetWindows) : Window(k)!FoundUnlessMoved
         /\ \A k \in On("window", BetWindows) : Window(k)!NoTimeOfViewing
         /\ \A k \in On("window", BetWindows) : Window(k)!InfoIsShown
<1>. SUFFICES ASSUME NEW k \in On("window", BetWindows)
         PROVE  Window(k)!TypeOK /\ Window(k)!FoundUnlessMoved /\ Window(k)!NoTimeOfViewing
                  /\ Window(k)!InfoIsShown
  OBVIOUS
<1>1. k \in DOMAIN BetWindows /\ Window(k)!IInv
  BY DEF On, WindowInv
<1>. QED
  BY <1>1, WindowIInvImplies

-----------------------------------------------------------------------------
(***************************************************************************)
(* ExportReport (Export): x1 is template, x2 is button, x3 is order, x4 is *)
(* making, x5 is failed, x6 is redrawn.                                    *)
(***************************************************************************)
(* StepTyped *)
LEMMA ExportStepTyped ==
  ASSUME NEW k \in DOMAIN ExportPages, Export(k)!ExportReportAssumption, Export(k)!Typed, Export(k)!WaitInv,
         Export(k)!Next \/ UNCHANGED Export(k)!vars
  PROVE  Export(k)!Typed'
<1>1. ASSUME NEW p \in ExportPages[k].Pages, Export(k)!search(p) PROVE Export(k)!Typed'
  <2>1. \A o \in ExportPages[k].Orders :
          x3[o] \in Export(k)!Order /\ [x3[o] EXCEPT !.mine = FALSE] \in Export(k)!Order
    BY Zenon DEF Export!Typed, Export!Order
  <2>2. x3' \in [ExportPages[k].Orders -> Export(k)!Order]
    BY <1>1, <2>1 DEF Export!search
  <2>. QED
    BY <1>1, <2>2 DEF Export!search, Export!Typed
<1>2. ASSUME NEW o \in ExportPages[k].Orders, NEW p \in ExportPages[k].Pages,
             Export(k)!schedule(p, o) PROVE Export(k)!Typed'
  BY <1>2 DEF Export!schedule, Export!Disable, Export!Typed, Export!Order, Export!Steps
<1>3. ASSUME NEW o \in ExportPages[k].Orders, Export(k)!CheckAnswered(o) PROVE Export(k)!Typed'
  BY <1>3 DEF Export!CheckAnswered, Export!Goes, Export!Typed, Export!Order, Export!Steps
<1>4. ASSUME NEW o \in ExportPages[k].Orders, Export(k)!CheckIsError(o) PROVE Export(k)!Typed'
  <2>. DEFINE q == [x3[o] EXCEPT !.step = "posting", !.blind = TRUE]
  <2>1. x3[o] \in Export(k)!Order
    BY DEF Export!Typed
  <2>2. q \in Export(k)!Order
    BY <2>1, Zenon DEF Export!Order, Export!Steps
  <2>3. x3' = [x3 EXCEPT ![o] = q]
    BY <1>4, Zenon DEF Export!CheckIsError
  <2>. HIDE DEF q
  <2>. QED
    BY <1>4, <2>2, <2>3, Zenon DEF Export!CheckIsError, Export!Typed
<1>5. ASSUME NEW o \in ExportPages[k].Orders, Export(k)!CheckFails(o) PROVE Export(k)!Typed'
  BY <1>5 DEF Export!CheckFails, Export!At, Export!Goes, Export!Typed, Export!Order,
      Export!Steps, Export!WaitInv, Export!Waiting
<1>6. ASSUME NEW o \in ExportPages[k].Orders, Export(k)!Confirm(o) PROVE Export(k)!Typed'
  <2>. DEFINE q == [x3[o] EXCEPT !.step = "posting", !.confirmed = TRUE]
  <2>1. x3[o] \in Export(k)!Order
    BY DEF Export!Typed
  <2>2. q \in Export(k)!Order
    BY <2>1, Zenon DEF Export!Order, Export!Steps
  <2>3. x3' = [x3 EXCEPT ![o] = q]
    BY <1>6, Zenon DEF Export!Confirm
  <2>. HIDE DEF q
  <2>. QED
    BY <1>6, <2>2, <2>3, Zenon DEF Export!Confirm, Export!Typed
<1>7. ASSUME NEW o \in ExportPages[k].Orders, Export(k)!Cancel(o) PROVE Export(k)!Typed'
  BY <1>7 DEF Export!Cancel, Export!At, Export!Goes, Export!Enable, Export!Typed,
      Export!Order, Export!Steps, Export!WaitInv, Export!Waiting
<1>8. ASSUME NEW o \in ExportPages[k].Orders, Export(k)!Serve(o) PROVE Export(k)!Typed'
  BY <1>8 DEF Export!Serve, Export!Goes, Export!Typed, Export!Order, Export!Steps
<1>9. ASSUME NEW o \in ExportPages[k].Orders, Export(k)!Complete(o) PROVE Export(k)!Typed'
  BY <1>9 DEF Export!Complete, Export!Goes, Export!Enable, Export!Typed, Export!Order,
      Export!Steps, Export!WaitInv, Export!Waiting
<1>10. ASSUME NEW o \in ExportPages[k].Orders, Export(k)!ReportEnds(o) PROVE Export(k)!Typed'
  BY <1>10 DEF Export!ReportEnds, Export!Typed
<1>11. CASE UNCHANGED Export(k)!vars
  BY <1>11 DEF Export!vars, Export!Typed
<1>. QED
  BY <1>1, <1>2, <1>3, <1>4, <1>5, <1>6, <1>7, <1>8, <1>9, <1>10, <1>11 DEF Export!Next,
      Export!Answer


(* StepWait *)
LEMMA ExportStepWait ==
  ASSUME NEW k \in DOMAIN ExportPages, Export(k)!ExportReportAssumption, Export(k)!Typed, Export(k)!WaitInv,
         Export(k)!Next \/ UNCHANGED Export(k)!vars
  PROVE  Export(k)!WaitInv'
<1>1. ASSUME NEW p \in ExportPages[k].Pages, Export(k)!search(p) PROVE Export(k)!WaitInv'
  BY <1>1 DEF Export!search, Export!Waiting, Export!WaitInv
<1>2. ASSUME NEW o \in ExportPages[k].Orders, NEW p \in ExportPages[k].Pages,
             Export(k)!schedule(p, o) PROVE Export(k)!WaitInv'
  BY <1>2 DEF Export!schedule, Export!At, Export!Idle, Export!Disable, Export!WaitInv,
      Export!Waiting, Export!Typed
<1>3. ASSUME NEW o \in ExportPages[k].Orders, Export(k)!CheckAnswered(o) PROVE Export(k)!WaitInv'
  BY <1>3 DEF Export!CheckAnswered, Export!At, Export!Goes, Export!WaitInv,
      Export!Waiting
<1>4. ASSUME NEW o \in ExportPages[k].Orders, Export(k)!CheckIsError(o) PROVE Export(k)!WaitInv'
  BY <1>4 DEF Export!CheckIsError, Export!At, Export!WaitInv, Export!Waiting,
      Export!Typed
<1>5. ASSUME NEW o \in ExportPages[k].Orders, Export(k)!CheckFails(o) PROVE Export(k)!WaitInv'
  BY <1>5 DEF Export!CheckFails, Export!Goes, Export!WaitInv, Export!Waiting
<1>6. ASSUME NEW o \in ExportPages[k].Orders, Export(k)!Confirm(o) PROVE Export(k)!WaitInv'
  BY <1>6 DEF Export!Confirm, Export!At, Export!WaitInv, Export!Waiting, Export!Typed
<1>7. ASSUME NEW o \in ExportPages[k].Orders, Export(k)!Cancel(o) PROVE Export(k)!WaitInv'
  BY <1>7 DEF Export!Cancel, Export!At, Export!Goes, Export!Enable, Export!WaitInv,
      Export!Waiting, Export!Typed
<1>8. ASSUME NEW o \in ExportPages[k].Orders, Export(k)!Serve(o) PROVE Export(k)!WaitInv'
  BY <1>8 DEF Export!Serve, Export!At, Export!Goes, Export!WaitInv, Export!Waiting
<1>9. ASSUME NEW o \in ExportPages[k].Orders, Export(k)!Complete(o) PROVE Export(k)!WaitInv'
  BY <1>9 DEF Export!Complete, Export!Goes, Export!Enable, Export!WaitInv,
      Export!Waiting, Export!Typed
<1>10. ASSUME NEW o \in ExportPages[k].Orders, Export(k)!ReportEnds(o) PROVE Export(k)!WaitInv'
  BY <1>10 DEF Export!ReportEnds, Export!WaitInv, Export!Waiting
<1>11. CASE UNCHANGED Export(k)!vars
  BY <1>11 DEF Export!vars, Export!WaitInv, Export!Waiting
<1>. QED
  BY <1>1, <1>2, <1>3, <1>4, <1>5, <1>6, <1>7, <1>8, <1>9, <1>10, <1>11 DEF Export!Next,
      Export!Answer


LEMMA ExportNoneInProduction ==
  ASSUME NEW k \in DOMAIN ExportPages, Export(k)!ExportReportAssumption, x4 \subseteq ExportPages[k].Orders,
         ~Export(k)!InProduction
  PROVE  x4 = {}
<1>1. IsFiniteSet(ExportPages[k].Orders)
  BY DEF Export!ExportReportAssumption, Export!IsFiniteSet, IsFiniteSet
<1>2. IsFiniteSet(x4)
  BY <1>1, FS_Subset
<1>3. Export(k)!InProduction <=> Cardinality(x4) > 0
  BY DEF Export!InProduction, Export!Cardinality, Cardinality
<1>. QED
  BY <1>2, <1>3, FS_CardinalityType, FS_EmptySet

(* StepUnasked *)
LEMMA ExportStepUnasked ==
  ASSUME NEW k \in DOMAIN ExportPages, Export(k)!ExportReportAssumption, Export(k)!Typed, Export(k)!WaitInv,
         Export(k)!UnaskedInv, Export(k)!Next \/ UNCHANGED Export(k)!vars
  PROVE  Export(k)!UnaskedInv'
<1>1. ASSUME NEW p \in ExportPages[k].Pages, Export(k)!search(p) PROVE Export(k)!UnaskedInv'
  BY <1>1 DEF Export!search, Export!UnaskedInv, Export!At, Export!Typed
<1>2. ASSUME NEW o \in ExportPages[k].Orders, NEW p \in ExportPages[k].Pages,
             Export(k)!schedule(p, o) PROVE Export(k)!UnaskedInv'
  BY <1>2 DEF Export!schedule, Export!At, Export!UnaskedInv, Export!WaitInv,
      Export!Waiting
<1>3. ASSUME NEW o \in ExportPages[k].Orders, Export(k)!CheckAnswered(o) PROVE Export(k)!UnaskedInv'
  <2>1. x3' = [x3 EXCEPT ![o].step = IF Export(k)!InProduction THEN "asking" ELSE "posting"] /\ x4' = x4
    BY <1>3 DEF Export!CheckAnswered, Export!Goes
  <2>2. CASE Export(k)!InProduction
    BY <2>1, <2>2 DEF Export!UnaskedInv, Export!At
  <2>3. CASE ~Export(k)!InProduction
    <3>1. x4 = {}
      BY <2>3, ExportNoneInProduction DEF Export!Typed
    <3>. QED
      BY <2>1, <3>1 DEF Export!UnaskedInv
  <2>. QED
    BY <2>2, <2>3
<1>4. ASSUME NEW o \in ExportPages[k].Orders, Export(k)!CheckIsError(o) PROVE Export(k)!UnaskedInv'
  BY <1>4 DEF Export!CheckIsError, Export!At, Export!UnaskedInv, Export!Typed
<1>5. ASSUME NEW o \in ExportPages[k].Orders, Export(k)!CheckFails(o) PROVE Export(k)!UnaskedInv'
  BY <1>5 DEF Export!CheckFails, Export!At, Export!Goes, Export!UnaskedInv
<1>6. ASSUME NEW o \in ExportPages[k].Orders, Export(k)!Confirm(o) PROVE Export(k)!UnaskedInv'
  BY <1>6 DEF Export!Confirm, Export!At, Export!UnaskedInv, Export!Typed
<1>7. ASSUME NEW o \in ExportPages[k].Orders, Export(k)!Cancel(o) PROVE Export(k)!UnaskedInv'
  BY <1>7 DEF Export!Cancel, Export!At, Export!Goes, Export!UnaskedInv
<1>8. ASSUME NEW o \in ExportPages[k].Orders, Export(k)!Serve(o) PROVE Export(k)!UnaskedInv'
  BY <1>8 DEF Export!Serve, Export!At, Export!Goes, Export!UnaskedInv, Export!Typed,
      Export!WaitInv, Export!Waiting
<1>9. ASSUME NEW o \in ExportPages[k].Orders, Export(k)!Complete(o) PROVE Export(k)!UnaskedInv'
  BY <1>9 DEF Export!Complete, Export!Goes, Export!UnaskedInv, Export!At
<1>10. ASSUME NEW o \in ExportPages[k].Orders, Export(k)!ReportEnds(o) PROVE Export(k)!UnaskedInv'
  BY <1>10 DEF Export!ReportEnds, Export!UnaskedInv, Export!At
<1>11. CASE UNCHANGED Export(k)!vars
  BY <1>11 DEF Export!vars, Export!UnaskedInv, Export!At
<1>. QED
  BY <1>1, <1>2, <1>3, <1>4, <1>5, <1>6, <1>7, <1>8, <1>9, <1>10, <1>11 DEF Export!Next,
      Export!Answer


LEMMA ExportInitIInv ==
  ASSUME NEW k \in DOMAIN ExportPages, Export(k)!ExportReportAssumption, Export(k)!Init
  PROVE  Export(k)!IInv
BY DEF Export!Init, Export!IInv, Export!Typed, Export!WaitInv, Export!UnaskedInv,
    Export!Waiting, Export!Unused, Export!Order, Export!Steps, Export!Idle

LEMMA ExportNextIInv ==
  ASSUME NEW k \in DOMAIN ExportPages, Export(k)!ExportReportAssumption, Export(k)!IInv,
         Export(k)!Next \/ UNCHANGED Export(k)!vars
  PROVE  Export(k)!IInv' /\ Export(k)!UnaskedAlone /\ Export(k)!NextDrawRepairs
<1>1. Export(k)!NextDrawRepairs
  BY DEF Export!IInv, Export!Typed, Export!WaitInv, Export!NextDrawRepairs,
      Export!WaitsOn, Export!search
<1>2. ASSUME NEW o \in x4' \ x4
      PROVE  x3[o].confirmed \/ x3[o].blind \/ \A q \in x4 : x3[q].page # x3[o].page
  <2>1. PICK q \in ExportPages[k].Orders : Export(k)!Serve(q) /\ x4' = x4 \cup {q}
    BY <1>2, Zenon DEF Export!Next, Export!vars, Export!search, Export!schedule, Export!CheckAnswered,
       Export!CheckIsError, Export!CheckFails, Export!Answer, Export!Confirm, Export!Cancel, Export!Serve,
       Export!Complete, Export!ReportEnds
  <2>. QED
    BY <1>2, <2>1 DEF Export!IInv, Export!UnaskedInv, Export!Serve
<1>. QED
  BY <1>1, <1>2, ExportStepTyped, ExportStepWait, ExportStepUnasked DEF Export!IInv,
      Export!UnaskedAlone

LEMMA ExportIInvImplies ==
  ASSUME NEW k \in DOMAIN ExportPages, Export(k)!IInv
  PROVE  Export(k)!TypeOK
BY DEF Export!IInv, Export!Typed, Export!WaitInv, Export!TypeOK, Export!WaitsOn

(* The invariant of the pages of this script. *)
ExportInv == \A k \in On("export", ExportPages) : Export(k)!IInv

LEMMA ExportBegins ==
  ASSUME SiteInit
  PROVE  ExportInv
<1>. SUFFICES ASSUME NEW k \in On("export", ExportPages)
         PROVE  Export(k)!IInv
  BY DEF ExportInv
<1>1. k \in DOMAIN ExportPages /\ script = "export" /\ page = k
  BY DEF On
<1>2. Export(k)!Init
  BY <1>1 DEF SiteInit
<1>3. Export(k)!ExportReportAssumption
  BY <1>1, SitePagesAreSound DEF SitePagesAssumption
<1>. QED
  BY <1>1, <1>2, ExportInitIInv, <1>3

LEMMA ExportGoesOn ==
  ASSUME ExportInv, SiteStep
  PROVE  /\ ExportInv'
         /\ \A k \in On("export", ExportPages) : Export(k)!UnaskedAlone
         /\ \A k \in On("export", ExportPages) : Export(k)!NextDrawRepairs
<1>1. script' = script /\ page' = page
  BY SiteStays
<1>2. ASSUME NEW k \in On("export", ExportPages)
      PROVE  Export(k)!IInv' /\ Export(k)!UnaskedAlone /\ Export(k)!NextDrawRepairs
  <2>1. k \in DOMAIN ExportPages /\ script = "export" /\ page = k
    BY DEF On
  <2>2. Export(k)!Next \/ UNCHANGED Export(k)!vars
    BY <2>1 DEF SiteStep, SiteNext, On, vars, Export!vars
  <2>3. Export(k)!ExportReportAssumption
    BY <2>1, SitePagesAreSound DEF SitePagesAssumption
  <2>4. Export(k)!IInv
    BY DEF ExportInv
  <2>. QED
    BY <2>1, <2>2, ExportNextIInv, <2>3, <2>4
<1>3. On("export", ExportPages)' = On("export", ExportPages)
  BY <1>1 DEF On
<1>. QED
  BY <1>2, <1>3 DEF ExportInv

LEMMA ExportShows ==
  ASSUME ExportInv
  PROVE  /\ \A k \in On("export", ExportPages) : Export(k)!TypeOK
<1>. SUFFICES ASSUME NEW k \in On("export", ExportPages)
         PROVE  Export(k)!TypeOK
  OBVIOUS
<1>1. k \in DOMAIN ExportPages /\ Export(k)!IInv
  BY DEF On, ExportInv
<1>. QED
  BY <1>1, ExportIInvImplies

-----------------------------------------------------------------------------
(***************************************************************************)
(* GamesPage (Icons): x1 is active, x2 is page, x3 is DataBase, x4 is      *)
(* showDialog, x5 is dialog, x6 is posting, x7 is draws, x8 is blocked, x9 *)
(* is sent, x10 is stored, x11 is elsewhere, x12 is disturbed.             *)
(***************************************************************************)
(* The draw that is asked for, and what the server answers. *)
LEMMA IconsNewDraw ==
  ASSUME NEW k \in DOMAIN IconPages, Icons(k)!Typed, NEW p \in IconPages[k].Pages
  PROVE  \E q \in Icons(k)!Drawn :
           /\ Icons(k)!Draw(p) = x7 \cup {q}
           /\ q.id = x9 + 1 /\ q.page = p /\ q.state = "asked"
<1>. DEFINE q == [id |-> x9 + 1, page |-> p, state |-> "asked", data |-> Icons(k)!NoData]
<1>1. q \in Icons(k)!Drawn
  BY DEF Icons!Typed, Icons!Drawn, Icons!Catalogue
<1>2. q.id = x9 + 1 /\ q.page = p /\ q.state = "asked"
  OBVIOUS
<1>. QED
  BY <1>1, <1>2 DEF Icons!Draw

LEMMA IconsNewServed ==
  ASSUME NEW k \in DOMAIN IconPages, Icons(k)!Typed, NEW d \in x7, Icons(k)!ServeDraw(d)
  PROVE  \E q \in Icons(k)!Drawn :
           /\ x7' = (x7 \ {d}) \cup {q}
           /\ q.id = d.id /\ q.page = d.page /\ q.state = "served" /\ q.data = [g \in d.page |-> x1[g]]
<1>. DEFINE data == [g \in d.page |-> x1[g]]
           q == [d EXCEPT !.state = "served", !.data = data]
<1>1. d \in Icons(k)!Drawn /\ d.page \in IconPages[k].Pages /\ x1 \in [Icons(k)!Games -> BOOLEAN]
  BY DEF Icons!Typed, Icons!Drawn
<1>2. data \in [d.page -> BOOLEAN]
  BY <1>1 DEF Icons!Games
<1>3. data \in Icons(k)!Catalogue
  BY <1>1, <1>2 DEF Icons!Catalogue
<1>. HIDE DEF data
<1>4. q \in Icons(k)!Drawn /\ q.id = d.id /\ q.page = d.page /\ q.state = "served" /\ q.data = data
  BY <1>1, <1>3, Zenon DEF Icons!Drawn
<1>5. x7' = (x7 \ {d}) \cup {q}
  BY Zenon DEF Icons!ServeDraw, data
<1>. QED
  BY <1>4, <1>5, Zenon DEF data

(* StepTyped *)
LEMMA IconsStepTyped ==
  ASSUME NEW k \in DOMAIN IconPages, Icons(k)!GamesPageAssumption, Icons(k)!Typed,
         Icons(k)!Next \/ UNCHANGED Icons(k)!vars
  PROVE  Icons(k)!Typed'
<1>1. ASSUME NEW p \in IconPages[k].Pages, Icons(k)!TurnPage(p) PROVE Icons(k)!Typed'
  <2>. PICK q \in Icons(k)!Drawn : /\ Icons(k)!Draw(p) = x7 \cup {q}
                                   /\ q.id = x9 + 1 /\ q.page = p /\ q.state = "asked"
    BY IconsNewDraw
  <2>. QED
    BY <1>1 DEF Icons!TurnPage, Icons!toggleVars, Icons!Typed
<1>2. ASSUME NEW d \in x7, Icons(k)!ServeDraw(d) PROVE Icons(k)!Typed'
  <2>. PICK q \in Icons(k)!Drawn : /\ x7' = (x7 \ {d}) \cup {q}
                                   /\ q.id = d.id /\ q.page = d.page /\ q.state = "served"
                                   /\ q.data = [g \in d.page |-> x1[g]]
    BY <1>2, IconsNewServed
  <2>. QED
    BY <1>2, Zenon DEF Icons!ServeDraw, Icons!toggleVars, Icons!Typed
<1>3. ASSUME NEW d \in x7, Icons(k)!searchAnswered(d) PROVE Icons(k)!Typed'
  BY <1>3, Zenon DEF Icons!searchAnswered, Icons!gameList, Icons!toggleVars, Icons!Typed, Icons!Drawn
<1>4. ASSUME NEW d \in x7, Icons(k)!searchFailed(d) PROVE Icons(k)!Typed'
  BY <1>4, Zenon DEF Icons!searchFailed, Icons!toggleVars, Icons!Typed
<1>5. ASSUME NEW g \in Icons(k)!Games, Icons(k)!changeStatus(g) PROVE Icons(k)!Typed'
  BY <1>5 DEF Icons!changeStatus, Icons!tableVars, Icons!Typed
<1>6. ASSUME NEW g \in Icons(k)!Games, Icons(k)!ChangedElsewhere(g) PROVE Icons(k)!Typed'
  BY <1>6 DEF Icons!ChangedElsewhere, Icons!tableVars, Icons!toggleVars, Icons!Typed
<1>7. CASE Icons(k)!confirm
  BY <1>7 DEF Icons!confirm, Icons!NoDialog, Icons!StatusNamed, Icons!tableVars,
      Icons!Typed
<1>8. CASE Icons(k)!cancel
  BY <1>8, Zenon DEF Icons!cancel, Icons!NoDialog, Icons!tableVars, Icons!Typed
<1>9. CASE Icons(k)!updateGameStatus
  BY <1>9, Zenon DEF Icons!updateGameStatus, Icons!tableVars, Icons!Typed
<1>10. CASE Icons(k)!refuseGameStatus
  BY <1>10 DEF Icons!refuseGameStatus, Icons!tableVars, Icons!Typed
<1>11. CASE Icons(k)!updated
  <2>. PICK q \in Icons(k)!Drawn : /\ Icons(k)!Draw(x2) = x7 \cup {q}
                                   /\ q.id = x9 + 1 /\ q.page = x2 /\ q.state = "asked"
    BY IconsNewDraw DEF Icons!Typed
  <2>1. x6' \in [game : Icons(k)!Games \cup {Icons(k)!NoGame}, status : BOOLEAN, named : BOOLEAN,
                      state : {"none", "asked", "done", "refused"}]
    BY <1>11 DEF Icons!updated, Icons!NoPost
  <2>2. x7' \subseteq Icons(k)!Drawn /\ x7' # {} /\ x9' \in Nat
    BY <1>11 DEF Icons!updated, Icons!Typed
  <2>. QED
    BY <1>11, <2>1, <2>2, Zenon DEF Icons!updated, Icons!Typed
<1>12. CASE Icons(k)!refused
  BY <1>12, Zenon DEF Icons!refused, Icons!NoPost, Icons!tableVars, Icons!Typed
<1>13. CASE UNCHANGED Icons(k)!vars
  BY <1>13 DEF Icons!vars, Icons!Typed
<1>. QED
  BY <1>1, <1>2, <1>3, <1>4, <1>5, <1>6, <1>7, <1>8, <1>9, <1>10, <1>11, <1>12, <1>13 DEF
      Icons!Next


(* StepToggle *)
LEMMA IconsStepToggle ==
  ASSUME NEW k \in DOMAIN IconPages, Icons(k)!GamesPageAssumption, Icons(k)!Typed, Icons(k)!ToggleInv,
         Icons(k)!Next \/ UNCHANGED Icons(k)!vars
  PROVE  Icons(k)!ToggleInv'
<1>1. ASSUME NEW p \in IconPages[k].Pages, Icons(k)!TurnPage(p) PROVE Icons(k)!ToggleInv'
  BY <1>1 DEF Icons!TurnPage, Icons!toggleVars, Icons!ToggleInv, Icons!OneToggleAtATime
<1>2. ASSUME NEW d \in x7, Icons(k)!ServeDraw(d) PROVE Icons(k)!ToggleInv'
  BY <1>2, Zenon DEF Icons!ServeDraw, Icons!toggleVars, Icons!ToggleInv, Icons!OneToggleAtATime
<1>3. ASSUME NEW d \in x7, Icons(k)!searchAnswered(d) PROVE Icons(k)!ToggleInv'
  BY <1>3 DEF Icons!searchAnswered, Icons!toggleVars, Icons!ToggleInv,
      Icons!OneToggleAtATime
<1>4. ASSUME NEW d \in x7, Icons(k)!searchFailed(d) PROVE Icons(k)!ToggleInv'
  BY <1>4 DEF Icons!searchFailed, Icons!toggleVars, Icons!ToggleInv,
      Icons!OneToggleAtATime
<1>5. ASSUME NEW g \in Icons(k)!Games, Icons(k)!changeStatus(g) PROVE Icons(k)!ToggleInv'
  <2>. DEFINE q == [game |-> g, next |-> ~Icons(k)!isActiveStatus(g)]
  <2>1. x5' = q /\ g \in DOMAIN x3 /\ ~x4 /\ x4' /\ x6' = x6
    BY <1>5 DEF Icons!changeStatus
  <2>2. q.game = g /\ q # Icons(k)!NoDialog
    BY DEF Icons!NoDialog, Icons!NoGame, Icons!GamesPageAssumption
  <2>. QED
    BY <2>1, <2>2 DEF Icons!ToggleInv, Icons!OneToggleAtATime
<1>6. ASSUME NEW g \in Icons(k)!Games, Icons(k)!ChangedElsewhere(g) PROVE Icons(k)!ToggleInv'
  BY <1>6 DEF Icons!ChangedElsewhere, Icons!toggleVars, Icons!ToggleInv,
      Icons!OneToggleAtATime
<1>7. CASE Icons(k)!confirm
  BY <1>7 DEF Icons!confirm, Icons!StatusNamed, Icons!ToggleInv, Icons!NoPost,
      Icons!OneToggleAtATime
<1>8. CASE Icons(k)!cancel
  BY <1>8 DEF Icons!cancel, Icons!ToggleInv, Icons!OneToggleAtATime
<1>9. CASE Icons(k)!updateGameStatus
  BY <1>9 DEF Icons!updateGameStatus, Icons!ToggleInv, Icons!NoPost,
      Icons!OneToggleAtATime
<1>10. CASE Icons(k)!refuseGameStatus
  BY <1>10 DEF Icons!refuseGameStatus, Icons!ToggleInv, Icons!NoPost,
      Icons!OneToggleAtATime
<1>11. CASE Icons(k)!updated
  BY <1>11 DEF Icons!updated, Icons!NoPost, Icons!ToggleInv, Icons!OneToggleAtATime
<1>12. CASE Icons(k)!refused
  BY <1>12 DEF Icons!refused, Icons!NoPost, Icons!ToggleInv, Icons!OneToggleAtATime
<1>13. CASE UNCHANGED Icons(k)!vars
  BY <1>13 DEF Icons!vars, Icons!ToggleInv, Icons!OneToggleAtATime
<1>. QED
  BY <1>1, <1>2, <1>3, <1>4, <1>5, <1>6, <1>7, <1>8, <1>9, <1>10, <1>11, <1>12, <1>13 DEF
      Icons!Next


(* StepDraws *)
LEMMA IconsStepDraws ==
  ASSUME NEW k \in DOMAIN IconPages, Icons(k)!GamesPageAssumption, Icons(k)!Typed, Icons(k)!DrawsInv,
         Icons(k)!Next \/ UNCHANGED Icons(k)!vars
  PROVE  Icons(k)!DrawsInv'
<1>1. ASSUME NEW p \in IconPages[k].Pages, Icons(k)!TurnPage(p) PROVE Icons(k)!DrawsInv'
  BY <1>1 DEF Icons!TurnPage, Icons!Draw, Icons!DrawsInv, Icons!Typed
<1>2. ASSUME NEW d \in x7, Icons(k)!ServeDraw(d) PROVE Icons(k)!DrawsInv'
  <2>. PICK q \in Icons(k)!Drawn : /\ x7' = (x7 \ {d}) \cup {q}
                                   /\ q.id = d.id /\ q.page = d.page /\ q.state = "served"
                                   /\ q.data = [g \in d.page |-> x1[g]]
    BY <1>2, IconsNewServed

  <2>1. q.id \in 1..x9 /\ \A c \in x7 \ {d} : c.id # q.id
    BY DEF Icons!DrawsInv
  <2>2. x9' = x9
    BY <1>2, Zenon DEF Icons!ServeDraw
  <2>. QED
    BY <2>1, <2>2 DEF Icons!DrawsInv
<1>3. ASSUME NEW d \in x7, Icons(k)!searchAnswered(d) PROVE Icons(k)!DrawsInv'
  BY <1>3 DEF Icons!searchAnswered, Icons!DrawsInv
<1>4. ASSUME NEW d \in x7, Icons(k)!searchFailed(d) PROVE Icons(k)!DrawsInv'
  BY <1>4 DEF Icons!searchFailed, Icons!DrawsInv
<1>5. ASSUME NEW g \in Icons(k)!Games, Icons(k)!changeStatus(g) PROVE Icons(k)!DrawsInv'
  BY <1>5 DEF Icons!changeStatus, Icons!tableVars, Icons!DrawsInv
<1>6. ASSUME NEW g \in Icons(k)!Games, Icons(k)!ChangedElsewhere(g) PROVE Icons(k)!DrawsInv'
  BY <1>6 DEF Icons!ChangedElsewhere, Icons!tableVars, Icons!DrawsInv
<1>7. CASE Icons(k)!confirm
  BY <1>7 DEF Icons!confirm, Icons!tableVars, Icons!DrawsInv
<1>8. CASE Icons(k)!cancel
  BY <1>8 DEF Icons!cancel, Icons!tableVars, Icons!DrawsInv
<1>9. CASE Icons(k)!updateGameStatus
  BY <1>9 DEF Icons!updateGameStatus, Icons!tableVars, Icons!DrawsInv
<1>10. CASE Icons(k)!refuseGameStatus
  BY <1>10 DEF Icons!refuseGameStatus, Icons!tableVars, Icons!DrawsInv
<1>11. CASE Icons(k)!updated
  BY <1>11 DEF Icons!updated, Icons!Draw, Icons!DrawsInv, Icons!Typed
<1>12. CASE Icons(k)!refused
  BY <1>12 DEF Icons!refused, Icons!tableVars, Icons!DrawsInv
<1>13. CASE UNCHANGED Icons(k)!vars
  BY <1>13 DEF Icons!vars, Icons!DrawsInv
<1>. QED
  BY <1>1, <1>2, <1>3, <1>4, <1>5, <1>6, <1>7, <1>8, <1>9, <1>10, <1>11, <1>12, <1>13 DEF
      Icons!Next


(* StepFresh *)
LEMMA IconsStepFresh ==
  ASSUME NEW k \in DOMAIN IconPages, Icons(k)!GamesPageAssumption, Icons(k)!Typed, Icons(k)!ToggleInv,
         Icons(k)!DrawsInv, Icons(k)!FreshInv, Icons(k)!Next \/ UNCHANGED Icons(k)!vars
  PROVE  Icons(k)!FreshInv'
<1>1. ASSUME NEW p \in IconPages[k].Pages, Icons(k)!TurnPage(p) PROVE Icons(k)!FreshInv'
  <2>. PICK q \in Icons(k)!Drawn : /\ Icons(k)!Draw(p) = x7 \cup {q}
                                   /\ q.id = x9 + 1 /\ q.page = p /\ q.state = "asked"
    BY IconsNewDraw
  <2>. QED
    BY <1>1 DEF Icons!TurnPage, Icons!FreshInv
<1>2. ASSUME NEW d \in x7, Icons(k)!ServeDraw(d) PROVE Icons(k)!FreshInv'
  <2>. PICK q \in Icons(k)!Drawn : /\ x7' = (x7 \ {d}) \cup {q}
                                   /\ q.id = d.id /\ q.page = d.page /\ q.state = "served"
                                   /\ q.data = [g \in d.page |-> x1[g]]
    BY <1>2, IconsNewServed

  <2>. SUFFICES ASSUME ~x12
                PROVE  /\ \A c \in x7' : x7' = {c} =>
                            c.page = x2
                              /\ (c.state = "served" /\ Icons(k)!Settled' => c.data = Icons(k)!Status)
                       /\ x7' # {}
    BY <1>2, Zenon DEF Icons!ServeDraw, Icons!FreshInv, Icons!Status
  <2>1. ASSUME x7' = {q} PROVE q.page = x2 /\ q.data = Icons(k)!Status
    <3>1. x7 = {d}
      <4>1. \A c \in x7 : c # d => c = q
        BY <2>1
      <4>2. \A c \in x7 : c # d => c.id # d.id
        BY DEF Icons!DrawsInv
      <4>. QED
        BY <4>1, <4>2
    <3>. QED
      BY <3>1 DEF Icons!FreshInv, Icons!Status
  <2>. QED
    BY <2>1
<1>3. ASSUME NEW d \in x7, Icons(k)!searchAnswered(d) PROVE Icons(k)!FreshInv'
  BY <1>3, Zenon DEF Icons!searchAnswered, Icons!gameList, Icons!toggleVars, Icons!FreshInv, Icons!Settled,
     Icons!Status
<1>4. ASSUME NEW d \in x7, Icons(k)!searchFailed(d) PROVE Icons(k)!FreshInv'
  BY <1>4 DEF Icons!searchFailed, Icons!FreshInv
<1>5. ASSUME NEW g \in Icons(k)!Games, Icons(k)!changeStatus(g) PROVE Icons(k)!FreshInv'
  BY <1>5 DEF Icons!changeStatus, Icons!tableVars, Icons!FreshInv, Icons!Settled,
      Icons!Status
<1>6. ASSUME NEW g \in Icons(k)!Games, Icons(k)!ChangedElsewhere(g) PROVE Icons(k)!FreshInv'
  BY <1>6 DEF Icons!ChangedElsewhere, Icons!tableVars, Icons!FreshInv, Icons!Settled
<1>7. CASE Icons(k)!confirm
  BY <1>7 DEF Icons!confirm, Icons!tableVars, Icons!FreshInv, Icons!Settled,
      Icons!Status, Icons!ToggleInv, Icons!NoPost, Icons!OneToggleAtATime
<1>8. CASE Icons(k)!cancel
  BY <1>8 DEF Icons!cancel, Icons!tableVars, Icons!FreshInv, Icons!Settled, Icons!Status
<1>9. CASE Icons(k)!updateGameStatus
  BY <1>9 DEF Icons!updateGameStatus, Icons!tableVars, Icons!FreshInv, Icons!Settled
<1>10. CASE Icons(k)!refuseGameStatus
  BY <1>10 DEF Icons!refuseGameStatus, Icons!tableVars, Icons!FreshInv, Icons!Settled,
      Icons!Status
<1>11. CASE Icons(k)!updated
  <2>. PICK q \in Icons(k)!Drawn : /\ Icons(k)!Draw(x2) = x7 \cup {q}
                                   /\ q.id = x9 + 1 /\ q.page = x2 /\ q.state = "asked"
    BY IconsNewDraw DEF Icons!Typed
  <2>. QED
    BY <1>11 DEF Icons!updated, Icons!FreshInv
<1>12. CASE Icons(k)!refused
  BY <1>12 DEF Icons!refused, Icons!tableVars, Icons!FreshInv, Icons!Settled,
      Icons!Status
<1>13. CASE UNCHANGED Icons(k)!vars
  BY <1>13 DEF Icons!vars, Icons!FreshInv, Icons!Settled, Icons!Status
<1>. QED
  BY <1>1, <1>2, <1>3, <1>4, <1>5, <1>6, <1>7, <1>8, <1>9, <1>10, <1>11, <1>12, <1>13 DEF
      Icons!Next


LEMMA IconsInitIInv ==
  ASSUME NEW k \in DOMAIN IconPages, Icons(k)!GamesPageAssumption, Icons(k)!Init
  PROVE  Icons(k)!IInv
<1>. DEFINE q == [id |-> 1, page |-> x2, state |-> "asked", data |-> Icons(k)!NoData]
<1>1. q \in Icons(k)!Drawn /\ q.id = 1 /\ q.page = x2 /\ q.state = "asked"
  BY DEF Icons!Init, Icons!Drawn, Icons!Catalogue
<1>2. x7 = {q}
  BY DEF Icons!Init
<1>. HIDE DEF q
<1>. QED
  <2>1. Icons(k)!Typed
    BY <1>1, <1>2, Zenon DEF Icons!Init, Icons!Typed, Icons!Catalogue, Icons!NoDialog, Icons!NoPost
  <2>2. Icons(k)!ToggleInv /\ Icons(k)!DrawsInv
    BY <1>1, <1>2 DEF Icons!Init, Icons!ToggleInv, Icons!DrawsInv,
        Icons!OneToggleAtATime, Icons!NoPost
  <2>3. Icons(k)!FreshInv
    BY <1>1, <1>2 DEF Icons!Init, Icons!FreshInv
  <2>. QED
    BY <2>1, <2>2, <2>3 DEF Icons!IInv

LEMMA IconsNextIInv ==
  ASSUME NEW k \in DOMAIN IconPages, Icons(k)!GamesPageAssumption, Icons(k)!IInv,
         Icons(k)!Next \/ UNCHANGED Icons(k)!vars
  PROVE  Icons(k)!IInv' /\ Icons(k)!ChangesAsNamed
<1>1. Icons(k)!ChangesAsNamed
  BY DEF Icons!IInv, Icons!Typed, Icons!ToggleInv, Icons!ChangesAsNamed,
      Icons!updateGameStatus, Icons!NoPost
<1>. QED
  BY <1>1, IconsStepTyped, IconsStepToggle, IconsStepDraws, IconsStepFresh DEF Icons!IInv

LEMMA IconsIInvImplies ==
  ASSUME NEW k \in DOMAIN IconPages, Icons(k)!IInv
  PROVE  Icons(k)!TypeOK /\ Icons(k)!OneToggleAtATime /\ Icons(k)!QuietIconsAreFresh
<1>1. Icons(k)!TypeOK
  BY DEF Icons!IInv, Icons!Typed, Icons!DrawsInv, Icons!TypeOK, Icons!Catalogue,
      Icons!NoData, Icons!Drawn
<1>2. Icons(k)!QuietIconsAreFresh
  BY DEF Icons!IInv, Icons!FreshInv, Icons!Settled, Icons!Status,
      Icons!QuietIconsAreFresh, Icons!Quiet, Icons!NoPost
<1>. QED
  BY <1>1, <1>2 DEF Icons!IInv, Icons!ToggleInv

(* The invariant of the pages of this script. *)
IconsInv == \A k \in On("icons", IconPages) : Icons(k)!IInv

LEMMA IconsBegins ==
  ASSUME SiteInit
  PROVE  IconsInv
<1>. SUFFICES ASSUME NEW k \in On("icons", IconPages)
         PROVE  Icons(k)!IInv
  BY DEF IconsInv
<1>1. k \in DOMAIN IconPages /\ script = "icons" /\ page = k
  BY DEF On
<1>2. Icons(k)!Init
  BY <1>1 DEF SiteInit
<1>3. Icons(k)!GamesPageAssumption
  BY <1>1, SitePagesAreSound DEF SitePagesAssumption
<1>. QED
  BY <1>1, <1>2, IconsInitIInv, <1>3

LEMMA IconsGoesOn ==
  ASSUME IconsInv, SiteStep
  PROVE  /\ IconsInv'
         /\ \A k \in On("icons", IconPages) : Icons(k)!ChangesAsNamed
<1>1. script' = script /\ page' = page
  BY SiteStays
<1>2. ASSUME NEW k \in On("icons", IconPages)
      PROVE  Icons(k)!IInv' /\ Icons(k)!ChangesAsNamed
  <2>1. k \in DOMAIN IconPages /\ script = "icons" /\ page = k
    BY DEF On
  <2>2. Icons(k)!Next \/ UNCHANGED Icons(k)!vars
    BY <2>1 DEF SiteStep, SiteNext, On, vars, Icons!vars
  <2>3. Icons(k)!GamesPageAssumption
    BY <2>1, SitePagesAreSound DEF SitePagesAssumption
  <2>4. Icons(k)!IInv
    BY DEF IconsInv
  <2>. QED
    BY <2>1, <2>2, IconsNextIInv, <2>3, <2>4
<1>3. On("icons", IconPages)' = On("icons", IconPages)
  BY <1>1 DEF On
<1>. QED
  BY <1>2, <1>3 DEF IconsInv

LEMMA IconsShows ==
  ASSUME IconsInv
  PROVE  /\ \A k \in On("icons", IconPages) : Icons(k)!TypeOK
         /\ \A k \in On("icons", IconPages) : Icons(k)!OneToggleAtATime
         /\ \A k \in On("icons", IconPages) : Icons(k)!QuietIconsAreFresh
<1>. SUFFICES ASSUME NEW k \in On("icons", IconPages)
         PROVE  Icons(k)!TypeOK /\ Icons(k)!OneToggleAtATime /\ Icons(k)!QuietIconsAreFresh
  OBVIOUS
<1>1. k \in DOMAIN IconPages /\ Icons(k)!IInv
  BY DEF On, IconsInv
<1>. QED
  BY <1>1, IconsIInvImplies

-----------------------------------------------------------------------------
(***************************************************************************)
(* GameForms (Game): x1 is server, x2 is cacheData, x3 is field, x4 is     *)
(* open, x5 is disabled, x6 is flight, x7 is disturbed.                    *)
(***************************************************************************)
LEMMA GameNewRequests ==
  ASSUME NEW k \in DOMAIN GamePages, Game(k)!GameFormsAssumption
  PROVE  /\ Game(k)!Blank \in Game(k)!Values /\ Game(k)!NoField \in Game(k)!Fields /\ ~Game(k)!NoField.edited
              /\ ~Game(k)!NoField.fresh
         /\ Game(k)!Free \in Game(k)!Requests /\ Game(k)!Free.op = "free"
              /\ Game(k)!Free.from = Game(k)!NoField
         /\ Game(k)!OnProfile \in BOOLEAN /\ Game(k)!Stored \subseteq Game(k)!Values
<1>1. Game(k)!Blank \in Game(k)!Values /\ Game(k)!Stored \subseteq Game(k)!Values
        /\ Game(k)!OnProfile \in BOOLEAN
  BY DEF Game!Values, Game!OnProfile
<1>2. Game(k)!NoField \in Game(k)!Fields /\ ~Game(k)!NoField.edited /\ ~Game(k)!NoField.fresh
  BY <1>1 DEF Game!NoField, Game!Fields
<1>. HIDE DEF Game!NoField, Game!Values, Game!Fields
<1>3. Game(k)!Free \in Game(k)!Requests /\ Game(k)!Free.op = "free" /\ Game(k)!Free.from = Game(k)!NoField
  BY <1>1, <1>2 DEF Game!Free, Game!Requests
<1>. QED
  BY <1>1, <1>2, <1>3

LEMMA GameAskIs ==
  ASSUME NEW k \in DOMAIN GamePages, Game(k)!GameFormsAssumption, Game(k)!Formed, NEW op \in {"load", "save"},
         NEW f \in Game(k)!Fields, NEW q, q = Game(k)!Ask(op, f)
  PROVE  q \in Game(k)!Requests /\ q.op = op /\ q.state = "asked" /\ q.from = f
<1>1. Game(k)!Blank \in Game(k)!Values
  BY GameNewRequests
<1>2. PICK b \in BOOLEAN : b = (x2 # Game(k)!Blank)
  BY Zenon
<1>3. q = [op |-> op, state |-> "asked", from |-> f, known |-> b, data |-> Game(k)!Blank]
  BY <1>2 DEF Game!Ask
<1>. QED
  BY <1>1, <1>3 DEF Game!Requests

(* A request goes on, or is over, or another takes its slot. *)
LEMMA GameSlotTakes ==
  ASSUME NEW k \in DOMAIN GamePages, Game(k)!Formed, NEW s \in GamePages[k].Slots, NEW q \in Game(k)!Requests,
         x6' = [x6 EXCEPT ![s] = q]
  PROVE  /\ x6' \in [GamePages[k].Slots -> Game(k)!Requests] /\ x6'[s] = q
         /\ \A t \in GamePages[k].Slots : t # s => x6'[t] = x6[t]
BY DEF Game!Formed

LEMMA GameSlotFrees ==
  ASSUME NEW k \in DOMAIN GamePages, Game(k)!GameFormsAssumption, Game(k)!Formed,
         NEW s \in GamePages[k].Slots, x6' = [x6 EXCEPT ![s] = Game(k)!Free]
  PROVE  /\ x6' \in [GamePages[k].Slots -> Game(k)!Requests] /\ x6'[s].op = "free"
              /\ x6'[s].from = Game(k)!NoField
         /\ \A t \in GamePages[k].Slots : t # s => x6'[t] = x6[t]
BY GameSlotTakes, GameNewRequests, Zenon

LEMMA GameSlotAdvances ==
  ASSUME NEW k \in DOMAIN GamePages, Game(k)!Formed, NEW s \in GamePages[k].Slots,
         NEW st \in {"served", "failed"},
         x6' = [x6 EXCEPT ![s].state = st]
  PROVE  /\ x6' \in [GamePages[k].Slots -> Game(k)!Requests] /\ x6'[s].op = x6[s].op /\ x6'[s].state = st
         /\ x6'[s].from = x6[s].from /\ x6'[s].data = x6[s].data
         /\ \A t \in GamePages[k].Slots : t # s => x6'[t] = x6[t]
<1>1. PICK q : q = [x6[s] EXCEPT !.state = st]
  BY Zenon
<1>2. x6[s] \in Game(k)!Requests
  BY DEF Game!Formed
<1>3. /\ q \in Game(k)!Requests /\ q.op = x6[s].op /\ q.state = st /\ q.from = x6[s].from
      /\ q.data = x6[s].data
  BY <1>1, <1>2 DEF Game!Requests
<1>4. x6' = [x6 EXCEPT ![s] = q]
  BY <1>1
<1>. QED
  BY <1>3, <1>4, GameSlotTakes, Zenon

(* What each answer does to its slot. *)
LEMMA GameLoadServed ==
  ASSUME NEW k \in DOMAIN GamePages, Game(k)!Formed, NEW s \in GamePages[k].Slots, Game(k)!searchGameById(s)
  PROVE  /\ x6' \in [GamePages[k].Slots -> Game(k)!Requests] /\ x6[s].op = "load" /\ x6'[s].op = "load"
         /\ x6'[s].data = x1 /\ x6'[s].from = x6[s].from
         /\ \A t \in GamePages[k].Slots : t # s => x6'[t] = x6[t]
<1>1. PICK q : q = [x6[s] EXCEPT !.state = "served", !.data = x1]
  OBVIOUS
<1>2. x6[s] \in Game(k)!Requests /\ x1 \in Game(k)!Values /\ x6[s].op = "load"
  BY DEF Game!searchGameById, Game!Formed, Game!Values
<1>3. q \in Game(k)!Requests /\ q.op = "load" /\ q.data = x1 /\ q.from = x6[s].from
  BY <1>1, <1>2, Zenon DEF Game!Requests
<1>4. x6' = [x6 EXCEPT ![s] = q]
  BY <1>1, Zenon DEF Game!searchGameById
<1>. QED
  BY <1>2, <1>3, <1>4, GameSlotTakes, Zenon

LEMMA GameSavedIs ==
  ASSUME NEW k \in DOMAIN GamePages, Game(k)!GameFormsAssumption, Game(k)!Formed,
         NEW s \in GamePages[k].Slots, Game(k)!Saved(s)
  PROVE  /\ x6' \in [GamePages[k].Slots -> Game(k)!Requests] /\ x6[s].op = "save" /\ x6'[s].op = "load"
         /\ x6'[s].state = "asked" /\ x6'[s].from = Game(k)!NoField
         /\ \A t \in GamePages[k].Slots : t # s => x6'[t] = x6[t]
<1>1. PICK q : q = Game(k)!Ask("load", Game(k)!NoField)
  OBVIOUS
<1>2. q \in Game(k)!Requests /\ q.op = "load" /\ q.state = "asked" /\ q.from = Game(k)!NoField
  BY <1>1, GameAskIs, GameNewRequests
<1>3. x6' = [x6 EXCEPT ![s] = q]
  BY <1>1 DEF Game!Saved
<1>. QED
  BY <1>2, <1>3, GameSlotTakes, Zenon DEF Game!Saved

LEMMA GameSaveIs ==
  ASSUME NEW k \in DOMAIN GamePages, Game(k)!GameFormsAssumption, Game(k)!Formed, Game(k)!OneSave,
         Game(k)!Save
  PROVE  /\ x6' \in [GamePages[k].Slots -> Game(k)!Requests] /\ Game(k)!Out("save") = {}
         /\ \E s \in GamePages[k].Slots :
              /\ x6[s].op = "free" /\ x6'[s].op = "save" /\ x6'[s].state = "asked"
              /\ x6'[s].from = x3
              /\ \A t \in GamePages[k].Slots : t # s => x6'[t] = x6[t]
<1>1. PICK s \in GamePages[k].Slots : x6[s] = Game(k)!Free /\ x6' = [x6 EXCEPT ![s] = Game(k)!Ask("save", x3)]
  BY Zenon DEF Game!Save, Game!Send
<1>2. PICK q : q = Game(k)!Ask("save", x3)
  OBVIOUS
<1>3. x3 \in Game(k)!Fields
  BY DEF Game!Formed
<1>4. q \in Game(k)!Requests /\ q.op = "save" /\ q.state = "asked" /\ q.from = x3
  BY <1>2, <1>3, GameAskIs
<1>5. x6' \in [GamePages[k].Slots -> Game(k)!Requests] /\ x6'[s] = q /\ \A t \in GamePages[k].Slots :
        t # s => x6'[t] = x6[t]
  BY <1>1, <1>2, <1>4, GameSlotTakes, Zenon
<1>6. Game(k)!Out("save") = {}
  BY DEF Game!OneSave, Game!Save
<1>. QED
  BY <1>1, <1>4, <1>5, <1>6, GameNewRequests

(* What the field takes is of its kind. *)
LEMMA GameFieldIs ==
  ASSUME NEW k \in DOMAIN GamePages, Game(k)!GameFormsAssumption, Game(k)!Formed
  PROVE  /\ \A s \in GamePages[k].Slots :
              Game(k)!Shown(s) \in Game(k)!Fields /\ Game(k)!Shown(s).val = x6[s].data
                /\ ~Game(k)!Shown(s).edited
              /\ (Game(k)!Shown(s).fresh => ~x7 /\ \A t \in GamePages[k].Slots \ {s} : x6[t] = Game(k)!Free)
         /\ Game(k)!FromCache \in Game(k)!Fields /\ Game(k)!FromCache.val = x2 /\ ~Game(k)!FromCache.edited
         /\ (Game(k)!FromCache.fresh => Game(k)!Quiet /\ ~x7)
<1>1. ASSUME NEW s \in GamePages[k].Slots
      PROVE  /\ Game(k)!Shown(s) \in Game(k)!Fields /\ Game(k)!Shown(s).val = x6[s].data
                  /\ ~Game(k)!Shown(s).edited
             /\ (Game(k)!Shown(s).fresh => ~x7 /\ \A t \in GamePages[k].Slots \ {s} : x6[t] = Game(k)!Free)
  <2>1. x6[s].data \in Game(k)!Values
    BY DEF Game!Formed, Game!Requests
  <2>2. PICK b \in BOOLEAN : b = (~x7 /\ \A t \in GamePages[k].Slots \ {s} : x6[t] = Game(k)!Free)
    BY Zenon
  <2>3. PICK v \in Game(k)!Values : v = x6[s].data
    BY <2>1
  <2>4. Game(k)!Shown(s) = [val |-> v, edited |-> FALSE, fresh |-> b]
    BY <2>2, <2>3 DEF Game!Shown
  <2>5. Game(k)!Shown(s) \in Game(k)!Fields /\ Game(k)!Shown(s).val = v /\ ~Game(k)!Shown(s).edited
          /\ Game(k)!Shown(s).fresh = b
    BY <2>4 DEF Game!Fields
  <2>. QED
    BY <2>2, <2>3, <2>5, Zenon
<1>2. /\ Game(k)!FromCache \in Game(k)!Fields /\ Game(k)!FromCache.val = x2 /\ ~Game(k)!FromCache.edited
      /\ (Game(k)!FromCache.fresh => Game(k)!Quiet /\ ~x7)
  <2>1. PICK b \in BOOLEAN : b = (Game(k)!Quiet /\ ~x7)
    BY Zenon
  <2>2. Game(k)!FromCache = [val |-> x2, edited |-> FALSE, fresh |-> b] /\ x2 \in Game(k)!Values
    BY <2>1 DEF Game!FromCache, Game!Formed
  <2>3. Game(k)!FromCache \in Game(k)!Fields /\ Game(k)!FromCache.val = x2 /\ ~Game(k)!FromCache.edited
          /\ Game(k)!FromCache.fresh = b
    BY <2>2 DEF Game!Fields
  <2>. QED
    BY <2>1, <2>3, Zenon
<1>. QED
  BY <1>1, <1>2

LEMMA GameEditIs ==
  ASSUME NEW k \in DOMAIN GamePages, Game(k)!Formed, NEW v \in Game(k)!Values, Game(k)!Edit(v)
  PROVE  /\ x3' \in Game(k)!Fields /\ x3'.val = v /\ x3'.edited
         /\ UNCHANGED <<x1, x2, x5, x6, x7>>
BY Zenon DEF Game!Edit, Game!Formed, Game!Fields

LEMMA GameTypedIs ==
  ASSUME NEW k \in DOMAIN GamePages, Game(k)!GameFormsAssumption, NEW n \in GamePages[k].Typed
  PROVE  Game(k)!Kept(n) \in 0..99 /\ Game(k)!Kept(n) \in Game(k)!Values
BY DEF Game!GameFormsAssumption, Game!Kept, Game!Values

LEMMA GameStepFormed ==
  ASSUME NEW k \in DOMAIN GamePages, Game(k)!GameFormsAssumption, Game(k)!Formed, Game(k)!OneSave,
         Game(k)!Next \/ UNCHANGED Game(k)!vars
  PROVE  Game(k)!Formed'
<1>1. ASSUME NEW s \in GamePages[k].Slots, Game(k)!searchGameById(s) PROVE Game(k)!Formed'
  BY <1>1, GameLoadServed, Zenon DEF Game!searchGameById, Game!Formed
<1>2. ASSUME NEW s \in GamePages[k].Slots, Game(k)!searchGames(s) PROVE Game(k)!Formed'
  <2>1. x6' \in [GamePages[k].Slots -> Game(k)!Requests]
    BY <1>2, GameSlotFrees, Zenon DEF Game!searchGames
  <2>2. x3' \in Game(k)!Fields
    BY <1>2, GameFieldIs DEF Game!searchGames, Game!Formed
  <2>3. x2' \in Game(k)!Values
    BY <1>2 DEF Game!searchGames, Game!Formed, Game!Requests
  <2>4. x7' \in BOOLEAN /\ UNCHANGED <<x1, x5>>
    BY <1>2 DEF Game!searchGames, Game!Formed
  <2>. QED
    BY <2>1, <2>2, <2>3, <2>4 DEF Game!Formed
<1>3. ASSUME NEW s \in GamePages[k].Slots, Game(k)!LoadFailed(s) PROVE Game(k)!Formed'
  BY <1>3, GameSlotFrees, Zenon DEF Game!LoadFailed, Game!Formed
<1>4. ASSUME NEW s \in GamePages[k].Slots, Game(k)!Fail(s) PROVE Game(k)!Formed'
  BY <1>4, GameSlotAdvances, Zenon DEF Game!Fail, Game!Formed
<1>5. ASSUME NEW s \in GamePages[k].Slots, Game(k)!ServeSave(s) PROVE Game(k)!Formed'
  <2>1. x1' \in Game(k)!Stored \cup 0..99
    BY <1>5 DEF Game!ServeSave, Game!Accepted, Game!Stored
  <2>. QED
    BY <1>5, <2>1, GameSlotAdvances, Zenon DEF Game!ServeSave, Game!Formed
<1>6. ASSUME NEW s \in GamePages[k].Slots, Game(k)!Saved(s) PROVE Game(k)!Formed'
  BY <1>6, GameSavedIs, Zenon DEF Game!Saved, Game!Formed
<1>7. ASSUME NEW s \in GamePages[k].Slots, Game(k)!SaveFailed(s) PROVE Game(k)!Formed'
  BY <1>7, GameSlotFrees, Zenon DEF Game!SaveFailed, Game!Formed
<1>8. ASSUME NEW s \in GamePages[k].Slots, Game(k)!SaveLost(s) PROVE Game(k)!Formed'
  BY <1>8, GameSlotFrees, Zenon DEF Game!SaveLost, Game!Formed
<1>9. CASE Game(k)!getEditStatus
  BY <1>9, GameFieldIs DEF Game!getEditStatus, Game!Formed
<1>10. CASE Game(k)!resetStatus
  BY <1>10, GameFieldIs DEF Game!resetStatus, Game!Reset, Game!Formed
<1>11. CASE Game(k)!resetGameDisplayOrder
  BY <1>11, GameFieldIs DEF Game!resetGameDisplayOrder, Game!Reset, Game!Formed
<1>12. CASE Game(k)!Close
  BY <1>12 DEF Game!Close, Game!Formed
<1>13. ASSUME NEW v \in GamePages[k].Statuses, Game(k)!chooseStatus(v) PROVE Game(k)!Formed'
  <2>1. v \in Game(k)!Values /\ Game(k)!Edit(v)
    BY <1>13 DEF Game!chooseStatus, Game!Values, Game!Stored
  <2>. QED
    BY <2>1, GameEditIs DEF Game!Formed
<1>14. ASSUME NEW n \in GamePages[k].Typed, Game(k)!typeOrder(n) PROVE Game(k)!Formed'
  <2>1. Game(k)!Kept(n) \in Game(k)!Values /\ Game(k)!Edit(Game(k)!Kept(n))
    BY <1>14, GameTypedIs DEF Game!typeOrder
  <2>. QED
    BY <2>1, GameEditIs DEF Game!Formed
<1>15. CASE Game(k)!updateStatus
  <2>1. Game(k)!Save
    BY <1>15 DEF Game!updateStatus
  <2>. QED
    BY <2>1, GameSaveIs DEF Game!Save, Game!Formed
<1>16. CASE Game(k)!updateGameDisplayOrder
  <2>1. Game(k)!Save
    BY <1>16 DEF Game!updateGameDisplayOrder
  <2>. QED
    BY <2>1, GameSaveIs DEF Game!Save, Game!Formed
<1>17. CASE UNCHANGED Game(k)!vars
  BY <1>17 DEF Game!vars, Game!Formed
<1>. QED
  BY <1>1, <1>2, <1>3, <1>4, <1>5, <1>6, <1>7, <1>8, <1>9, <1>10, <1>11, <1>12, <1>13, <1>14,
     <1>15, <1>16, <1>17 DEF Game!Next

(* The save that is out is over. *)
LEMMA GameSaveIsOver ==
  ASSUME NEW k \in DOMAIN GamePages, Game(k)!OneSave, NEW s \in GamePages[k].Slots, x6[s].op = "save",
         x6'[s].op # "save", x5' = FALSE,
         \A t \in GamePages[k].Slots : t # s => x6'[t] = x6[t]
  PROVE  Game(k)!OneSave'
<1>1. \A t \in Game(k)!Out("save") : t = s
  BY DEF Game!OneSave, Game!Out
<1>2. Game(k)!Out("save")' = {}
  BY <1>1 DEF Game!Out
<1>. QED
  BY <1>2 DEF Game!OneSave

LEMMA GameSavesStay ==
  ASSUME NEW k \in DOMAIN GamePages, Game(k)!OneSave, Game(k)!Out("save")' = Game(k)!Out("save"), x5' = x5
  PROVE  Game(k)!OneSave'
BY DEF Game!OneSave

LEMMA GameSaveIsNew ==
  ASSUME NEW k \in DOMAIN GamePages, Game(k)!GameFormsAssumption, Game(k)!Formed, Game(k)!OneSave,
         Game(k)!Save
  PROVE  Game(k)!OneSave'
<1>1. PICK s \in GamePages[k].Slots :
        /\ x6'[s].op = "save"
        /\ \A t \in GamePages[k].Slots : t # s => x6'[t] = x6[t]
  BY GameSaveIs
<1>2. Game(k)!Out("save") = {}
  BY GameSaveIs
<1>3. Game(k)!Out("save")' = {s}
  BY <1>1, <1>2 DEF Game!Out
<1>. QED
  BY <1>3 DEF Game!OneSave, Game!Save

LEMMA GameStepOneSave ==
  ASSUME NEW k \in DOMAIN GamePages, Game(k)!GameFormsAssumption, Game(k)!Formed, Game(k)!OneSave,
         Game(k)!Next \/ UNCHANGED Game(k)!vars
  PROVE  Game(k)!OneSave'
<1>1. ASSUME NEW s \in GamePages[k].Slots, Game(k)!searchGameById(s) PROVE Game(k)!OneSave'
  <2>1. Game(k)!Out("save")' = Game(k)!Out("save")
    BY <1>1, GameLoadServed DEF Game!Out
  <2>. QED
    BY <1>1, <2>1, GameSavesStay DEF Game!searchGameById
<1>2. ASSUME NEW s \in GamePages[k].Slots, Game(k)!searchGames(s) PROVE Game(k)!OneSave'
  <2>1. Game(k)!Out("save")' = Game(k)!Out("save")
    BY <1>2, GameSlotFrees, ZenonT(30) DEF Game!searchGames, Game!Out
  <2>. QED
    BY <1>2, <2>1, GameSavesStay DEF Game!searchGames
<1>3. ASSUME NEW s \in GamePages[k].Slots, Game(k)!LoadFailed(s) PROVE Game(k)!OneSave'
  <2>1. Game(k)!Out("save")' = Game(k)!Out("save")
    BY <1>3, GameSlotFrees, ZenonT(30) DEF Game!LoadFailed, Game!Out
  <2>. QED
    BY <1>3, <2>1, GameSavesStay DEF Game!LoadFailed
<1>4. ASSUME NEW s \in GamePages[k].Slots, Game(k)!Fail(s) PROVE Game(k)!OneSave'
  <2>1. Game(k)!Out("save")' = Game(k)!Out("save")
    BY <1>4, GameSlotAdvances DEF Game!Fail, Game!Out
  <2>. QED
    BY <1>4, <2>1, GameSavesStay DEF Game!Fail
<1>5. ASSUME NEW s \in GamePages[k].Slots, Game(k)!ServeSave(s) PROVE Game(k)!OneSave'
  <2>1. Game(k)!Out("save")' = Game(k)!Out("save")
    BY <1>5, GameSlotAdvances DEF Game!ServeSave, Game!Out
  <2>. QED
    BY <1>5, <2>1, GameSavesStay DEF Game!ServeSave
<1>6. ASSUME NEW s \in GamePages[k].Slots, Game(k)!Saved(s) PROVE Game(k)!OneSave'
  BY <1>6, GameSavedIs, GameSaveIsOver, Zenon DEF Game!Saved
<1>7. ASSUME NEW s \in GamePages[k].Slots, Game(k)!SaveFailed(s) PROVE Game(k)!OneSave'
  BY <1>7, GameSlotFrees, GameSaveIsOver, Zenon DEF Game!SaveFailed
<1>8. ASSUME NEW s \in GamePages[k].Slots, Game(k)!SaveLost(s) PROVE Game(k)!OneSave'
  BY <1>8, GameSlotFrees, GameSaveIsOver, Zenon DEF Game!SaveLost
<1>9. CASE Game(k)!getEditStatus
  BY <1>9 DEF Game!getEditStatus, Game!OneSave, Game!Out
<1>10. CASE Game(k)!resetStatus
  BY <1>10 DEF Game!resetStatus, Game!Reset, Game!OneSave, Game!Out
<1>11. CASE Game(k)!resetGameDisplayOrder
  BY <1>11 DEF Game!resetGameDisplayOrder, Game!Reset, Game!OneSave, Game!Out
<1>12. CASE Game(k)!Close
  BY <1>12 DEF Game!Close, Game!OneSave, Game!Out
<1>13. ASSUME NEW v \in GamePages[k].Statuses, Game(k)!chooseStatus(v) PROVE Game(k)!OneSave'
  BY <1>13 DEF Game!chooseStatus, Game!Edit, Game!OneSave, Game!Out
<1>14. ASSUME NEW n \in GamePages[k].Typed, Game(k)!typeOrder(n) PROVE Game(k)!OneSave'
  BY <1>14 DEF Game!typeOrder, Game!Edit, Game!OneSave, Game!Out
<1>15. CASE Game(k)!updateStatus
  BY <1>15, GameSaveIsNew DEF Game!updateStatus
<1>16. CASE Game(k)!updateGameDisplayOrder
  BY <1>16, GameSaveIsNew DEF Game!updateGameDisplayOrder
<1>17. CASE UNCHANGED Game(k)!vars
  BY <1>17 DEF Game!vars, Game!OneSave, Game!Out
<1>. QED
  BY <1>1, <1>2, <1>3, <1>4, <1>5, <1>6, <1>7, <1>8, <1>9, <1>10, <1>11, <1>12, <1>13, <1>14,
     <1>15, <1>16, <1>17 DEF Game!Next

LEMMA GameDigitsKeep ==
  ASSUME NEW k \in DOMAIN GamePages, Game(k)!DigitsInv, Game(k)!TwoDigits(x3)', NEW s \in GamePages[k].Slots,
         Game(k)!TwoDigits(x6'[s].from),
         \A t \in GamePages[k].Slots : t # s => x6'[t] = x6[t]
  PROVE  Game(k)!DigitsInv'
BY DEF Game!DigitsInv, Game!TwoDigits

LEMMA GameStepDigits ==
  ASSUME NEW k \in DOMAIN GamePages, Game(k)!GameFormsAssumption, Game(k)!Formed, Game(k)!OneSave,
         Game(k)!DigitsInv, Game(k)!Next \/ UNCHANGED Game(k)!vars
  PROVE  Game(k)!DigitsInv'
<1>0. Game(k)!TwoDigits(Game(k)!NoField) /\ Game(k)!TwoDigits(Game(k)!FromCache)
        /\ \A s \in GamePages[k].Slots : Game(k)!TwoDigits(Game(k)!Shown(s))
  BY GameNewRequests, GameFieldIs DEF Game!TwoDigits
<1>00. x3' = x3 => (Game(k)!TwoDigits(x3)' <=> Game(k)!TwoDigits(x3))
  BY DEF Game!TwoDigits
<1>1. ASSUME NEW s \in GamePages[k].Slots, Game(k)!searchGameById(s) PROVE Game(k)!DigitsInv'
  <2>1. /\ x6'[s].from = x6[s].from
        /\ \A t \in GamePages[k].Slots : t # s => x6'[t] = x6[t]
    BY <1>1, GameLoadServed
  <2>2. Game(k)!TwoDigits(x3)' /\ Game(k)!TwoDigits(x6'[s].from)
    BY <1>00, <1>1, <2>1 DEF Game!searchGameById, Game!DigitsInv
  <2>. QED
    BY <2>1, <2>2, GameDigitsKeep
<1>2. ASSUME NEW s \in GamePages[k].Slots, Game(k)!searchGames(s) PROVE Game(k)!DigitsInv'
  <2>1. Game(k)!TwoDigits(x3)'
    BY <1>2, <1>0 DEF Game!searchGames, Game!DigitsInv, Game!TwoDigits
  <2>2. /\ x6'[s].from = Game(k)!NoField
        /\ \A t \in GamePages[k].Slots : t # s => x6'[t] = x6[t]
    BY <1>2, GameSlotFrees, Zenon DEF Game!searchGames
  <2>. QED
    BY <1>0, <2>1, <2>2, GameDigitsKeep
<1>3. ASSUME NEW s \in GamePages[k].Slots, Game(k)!LoadFailed(s) PROVE Game(k)!DigitsInv'
  BY <1>0, <1>00, <1>3, GameSlotFrees, GameDigitsKeep, Zenon DEF Game!LoadFailed, Game!DigitsInv
<1>4. ASSUME NEW s \in GamePages[k].Slots, Game(k)!Fail(s) PROVE Game(k)!DigitsInv'
  BY <1>00, <1>4, GameSlotAdvances, GameDigitsKeep DEF Game!Fail, Game!DigitsInv
<1>5. ASSUME NEW s \in GamePages[k].Slots, Game(k)!ServeSave(s) PROVE Game(k)!DigitsInv'
  BY <1>00, <1>5, GameSlotAdvances, GameDigitsKeep DEF Game!ServeSave, Game!DigitsInv
<1>6. ASSUME NEW s \in GamePages[k].Slots, Game(k)!Saved(s) PROVE Game(k)!DigitsInv'
  BY <1>0, <1>00, <1>6, GameSavedIs, GameDigitsKeep, Zenon DEF Game!Saved, Game!DigitsInv
<1>7. ASSUME NEW s \in GamePages[k].Slots, Game(k)!SaveFailed(s) PROVE Game(k)!DigitsInv'
  BY <1>0, <1>00, <1>7, GameSlotFrees, GameDigitsKeep, ZenonT(30) DEF Game!SaveFailed, Game!DigitsInv
<1>8. ASSUME NEW s \in GamePages[k].Slots, Game(k)!SaveLost(s) PROVE Game(k)!DigitsInv'
  BY <1>0, <1>00, <1>8, GameSlotFrees, GameDigitsKeep, Zenon DEF Game!SaveLost, Game!DigitsInv
<1>9. CASE Game(k)!getEditStatus
  BY <1>0, <1>9 DEF Game!getEditStatus, Game!DigitsInv, Game!TwoDigits
<1>10. CASE Game(k)!resetStatus
  BY <1>0, <1>10 DEF Game!resetStatus, Game!Reset, Game!DigitsInv, Game!TwoDigits
<1>11. CASE Game(k)!resetGameDisplayOrder
  BY <1>0, <1>11 DEF Game!resetGameDisplayOrder, Game!Reset, Game!DigitsInv,
      Game!TwoDigits
<1>12. CASE Game(k)!Close
  BY <1>12 DEF Game!Close, Game!DigitsInv, Game!TwoDigits
<1>13. ASSUME NEW v \in GamePages[k].Statuses, Game(k)!chooseStatus(v) PROVE Game(k)!DigitsInv'
  BY <1>13 DEF Game!chooseStatus, Game!Edit, Game!DigitsInv, Game!TwoDigits
<1>14. ASSUME NEW n \in GamePages[k].Typed, Game(k)!typeOrder(n) PROVE Game(k)!DigitsInv'
  <2>1. Game(k)!Kept(n) \in 0..99 /\ Game(k)!Kept(n) \in Game(k)!Values /\ Game(k)!Edit(Game(k)!Kept(n))
    BY <1>14, GameTypedIs DEF Game!typeOrder
  <2>. QED
    BY <2>1, GameEditIs DEF Game!DigitsInv, Game!TwoDigits
<1>15. CASE Game(k)!updateStatus
  <2>1. Game(k)!Save /\ x3' = x3
    BY <1>15 DEF Game!updateStatus, Game!Save
  <2>. QED
    BY <1>00, <2>1, GameSaveIs, GameDigitsKeep DEF Game!DigitsInv
<1>16. CASE Game(k)!updateGameDisplayOrder
  <2>1. Game(k)!Save /\ x3' = x3
    BY <1>16 DEF Game!updateGameDisplayOrder, Game!Save
  <2>. QED
    BY <1>00, <2>1, GameSaveIs, GameDigitsKeep DEF Game!DigitsInv
<1>17. CASE UNCHANGED Game(k)!vars
  BY <1>17 DEF Game!vars, Game!DigitsInv, Game!TwoDigits
<1>. QED
  BY <1>1, <1>2, <1>3, <1>4, <1>5, <1>6, <1>7, <1>8, <1>9, <1>10, <1>11, <1>12, <1>13, <1>14,
     <1>15, <1>16, <1>17 DEF Game!Next

(* No load comes or goes, nor a save that was taken. *)
LEMMA GameOtherKeepsFresh ==
  ASSUME NEW k \in DOMAIN GamePages, Game(k)!FreshInv, NEW s \in GamePages[k].Slots, x6[s].op # "load",
         x6'[s].op # "load",
         x6[s].op # "save" \/ x6[s].state # "served", x6'[s].op # "save" \/ x6'[s].state # "served",
         \A t \in GamePages[k].Slots : t # s => x6'[t] = x6[t],
         UNCHANGED <<x1, x2, x3, x7>>
  PROVE  Game(k)!FreshInv'
<1>1. Game(k)!Out("load")' = Game(k)!Out("load")
  BY DEF Game!Out
<1>2. \A t \in Game(k)!Out("load") : x6'[t] = x6[t]
  BY DEF Game!Out
<1>3. Game(k)!LoadIsDue' = Game(k)!LoadIsDue
  BY DEF Game!Out, Game!LoadIsDue
<1>. QED
  BY <1>1, <1>2, <1>3 DEF Game!FreshInv

(* The field is edited, or takes what the page loaded last. *)
LEMMA GameFieldKeepsFresh ==
  ASSUME NEW k \in DOMAIN GamePages, Game(k)!FreshInv, UNCHANGED <<x1, x2, x6, x7>>,
         x3'.edited \/ x3'.val = x2
  PROVE  Game(k)!FreshInv'
<1>1. Game(k)!Out("load")' = Game(k)!Out("load") /\ Game(k)!LoadIsDue' = Game(k)!LoadIsDue
  BY DEF Game!Out, Game!LoadIsDue
<1>. QED
  BY <1>1 DEF Game!FreshInv

LEMMA GameSaveKeepsFresh ==
  ASSUME NEW k \in DOMAIN GamePages, Game(k)!GameFormsAssumption, Game(k)!Formed, Game(k)!OneSave,
         Game(k)!FreshInv, Game(k)!Save
  PROVE  Game(k)!FreshInv'
<1>1. PICK s \in GamePages[k].Slots :
        /\ x6[s].op = "free" /\ x6'[s].op = "save" /\ x6'[s].state = "asked"
        /\ \A t \in GamePages[k].Slots : t # s => x6'[t] = x6[t]
  BY GameSaveIs
<1>2. UNCHANGED <<x1, x2, x3, x7>>
  BY DEF Game!Save
<1>. QED
  BY <1>1, <1>2, GameOtherKeepsFresh

LEMMA GameStepFresh ==
  ASSUME NEW k \in DOMAIN GamePages, Game(k)!GameFormsAssumption, Game(k)!Formed, Game(k)!OneSave,
         Game(k)!FreshInv, Game(k)!Next \/ UNCHANGED Game(k)!vars
  PROVE  Game(k)!FreshInv'
<1>1. ASSUME NEW s \in GamePages[k].Slots, Game(k)!searchGameById(s) PROVE Game(k)!FreshInv'
  <2>1. x6'[s].data = x1' /\ s \in Game(k)!Out("load")'
    BY <1>1, GameLoadServed, Zenon DEF Game!searchGameById, Game!Out
  <2>. QED
    BY <2>1 DEF Game!FreshInv
<1>2. ASSUME NEW s \in GamePages[k].Slots, Game(k)!searchGames(s) PROVE Game(k)!FreshInv'
  <2>. SUFFICES ASSUME ~x7', ~Game(k)!LoadIsDue'
                PROVE  Game(k)!FreshInv'
    BY DEF Game!FreshInv
  <2>1. /\ x6[s].op = "load" /\ x6[s].state = "served" /\ x6' = [x6 EXCEPT ![s] = Game(k)!Free]
        /\ x7' = (x7 \/ Game(k)!Out("load") # {s}) /\ x1' = x1
        /\ x2' = x6[s].data /\ x3' = IF Game(k)!OnProfile THEN x3 ELSE Game(k)!Shown(s)
    BY <1>2 DEF Game!searchGames
  <2>2. x6'[s].op = "free" /\ \A t \in GamePages[k].Slots : t # s => x6'[t] = x6[t]
    BY <2>1, GameSlotFrees, Zenon
  <2>3. Game(k)!Out("load") = {s} /\ ~x7
    BY <2>1, Zenon
  <2>4. \A t \in Game(k)!Out("save") : t \in Game(k)!Out("save")' /\ x6'[t] = x6[t]
    BY <2>1, <2>2 DEF Game!Out
  <2>5. ~Game(k)!LoadIsDue
    BY <2>4 DEF Game!LoadIsDue
  <2>6. x6[s].data = x1
    BY <2>1, <2>3, <2>5 DEF Game!FreshInv
  <2>7. Game(k)!Out("load")' = {}
    BY <2>2, <2>3 DEF Game!Out
  <2>8. ~Game(k)!OnProfile => x3'.val = x1
    BY <2>1, <2>6, GameFieldIs
  <2>. QED
    BY <2>1, <2>6, <2>7, <2>8 DEF Game!FreshInv
<1>3. ASSUME NEW s \in GamePages[k].Slots, Game(k)!LoadFailed(s) PROVE Game(k)!FreshInv'
  BY <1>3 DEF Game!LoadFailed, Game!FreshInv
<1>4. ASSUME NEW s \in GamePages[k].Slots, Game(k)!Fail(s) PROVE Game(k)!FreshInv'
  <2>0. PICK st \in {"served", "failed"} : st = "failed" /\ x6' = [x6 EXCEPT ![s].state = st]
    BY <1>4 DEF Game!Fail
  <2>1. /\ x6'[s].op = x6[s].op /\ x6'[s].state = "failed" /\ x6[s].state = "asked"
        /\ \A t \in GamePages[k].Slots : t # s => x6'[t] = x6[t]
    BY <1>4, <2>0, GameSlotAdvances, Zenon DEF Game!Fail
  <2>2. Game(k)!Out("load")' = Game(k)!Out("load")
    BY <2>1 DEF Game!Out
  <2>3. Game(k)!LoadIsDue' = Game(k)!LoadIsDue
    BY <2>1 DEF Game!Out, Game!LoadIsDue
  <2>. QED
    BY <1>4, <2>1, <2>2, <2>3 DEF Game!Fail, Game!FreshInv
<1>5. ASSUME NEW s \in GamePages[k].Slots, Game(k)!ServeSave(s) PROVE Game(k)!FreshInv'
  <2>1. x6'[s].op = "save" /\ x6'[s].state = "served"
    BY <1>5, GameSlotAdvances, Zenon DEF Game!ServeSave
  <2>2. s \in Game(k)!Out("save")'
    BY <2>1 DEF Game!Out
  <2>3. Game(k)!LoadIsDue'
    BY <2>1, <2>2 DEF Game!LoadIsDue
  <2>. QED
    BY <2>3 DEF Game!FreshInv
<1>6. ASSUME NEW s \in GamePages[k].Slots, Game(k)!Saved(s) PROVE Game(k)!FreshInv'
  <2>1. x6'[s].state = "asked" /\ s \in Game(k)!Out("load")'
    BY <1>6, GameSavedIs DEF Game!Out
  <2>. QED
    BY <2>1 DEF Game!FreshInv
<1>7. ASSUME NEW s \in GamePages[k].Slots, Game(k)!SaveFailed(s) PROVE Game(k)!FreshInv'
  BY <1>7, GameSlotFrees, GameOtherKeepsFresh, Zenon DEF Game!SaveFailed
<1>8. ASSUME NEW s \in GamePages[k].Slots, Game(k)!SaveLost(s) PROVE Game(k)!FreshInv'
  BY <1>8 DEF Game!SaveLost, Game!FreshInv
<1>9. CASE Game(k)!getEditStatus
  BY <1>9, GameFieldIs, GameFieldKeepsFresh DEF Game!getEditStatus
<1>10. CASE Game(k)!resetStatus
  BY <1>10, GameFieldIs, GameFieldKeepsFresh DEF Game!resetStatus, Game!Reset
<1>11. CASE Game(k)!resetGameDisplayOrder
  BY <1>11, GameFieldIs, GameFieldKeepsFresh DEF Game!resetGameDisplayOrder, Game!Reset
<1>12. CASE Game(k)!Close
  BY <1>12 DEF Game!Close, Game!FreshInv, Game!Out, Game!LoadIsDue
<1>13. ASSUME NEW v \in GamePages[k].Statuses, Game(k)!chooseStatus(v) PROVE Game(k)!FreshInv'
  <2>1. v \in Game(k)!Values /\ Game(k)!Edit(v)
    BY <1>13 DEF Game!chooseStatus, Game!Values, Game!Stored
  <2>. QED
    BY <2>1, GameEditIs, GameFieldKeepsFresh
<1>14. ASSUME NEW n \in GamePages[k].Typed, Game(k)!typeOrder(n) PROVE Game(k)!FreshInv'
  <2>1. Game(k)!Kept(n) \in Game(k)!Values /\ Game(k)!Edit(Game(k)!Kept(n))
    BY <1>14, GameTypedIs DEF Game!typeOrder
  <2>. QED
    BY <2>1, GameEditIs, GameFieldKeepsFresh
<1>15. CASE Game(k)!updateStatus
  BY <1>15, GameSaveKeepsFresh DEF Game!updateStatus
<1>16. CASE Game(k)!updateGameDisplayOrder
  BY <1>16, GameSaveKeepsFresh DEF Game!updateGameDisplayOrder
<1>17. CASE UNCHANGED Game(k)!vars
  BY <1>17 DEF Game!vars, Game!FreshInv, Game!Out, Game!LoadIsDue
<1>. QED
  BY <1>1, <1>2, <1>3, <1>4, <1>5, <1>6, <1>7, <1>8, <1>9, <1>10, <1>11, <1>12, <1>13, <1>14,
     <1>15, <1>16, <1>17 DEF Game!Next

(* No save comes and the value of the server and the field stay. *)
LEMMA GameSlotKeepsKept ==
  ASSUME NEW k \in DOMAIN GamePages, Game(k)!KeptInv, NEW s \in GamePages[k].Slots, UNCHANGED <<x1, x3>>,
         x7 => x7',
         x6'[s].op = "save" => x6[s].op = "save" /\ x6'[s].from = x6[s].from,
         \A t \in GamePages[k].Slots : t # s => x6'[t] = x6[t]
  PROVE  Game(k)!KeptInv'
<1>1. \A t \in Game(k)!Out("save")' : t \in Game(k)!Out("save") /\ x6'[t].from = x6[t].from
  BY DEF Game!Out
<1>. QED
  BY <1>1 DEF Game!KeptInv, Game!FreshKept

(* The field is edited, or fresh while nothing is saved. *)
LEMMA GameFieldKeepsKept ==
  ASSUME NEW k \in DOMAIN GamePages, Game(k)!KeptInv, UNCHANGED <<x1, x6, x7>>,
         x3'.edited \/ (x3'.fresh /\ ~x7 => x3'.val = x1 /\ Game(k)!Out("save") = {})
  PROVE  Game(k)!KeptInv'
<1>1. Game(k)!Out("save")' = Game(k)!Out("save")
  BY DEF Game!Out
<1>. QED
  BY <1>1 DEF Game!KeptInv, Game!FreshKept

(* What was loaded last, when nothing is out. *)
LEMMA GameCacheIsFresh ==
  ASSUME NEW k \in DOMAIN GamePages, Game(k)!GameFormsAssumption, Game(k)!Formed, Game(k)!FreshInv,
         Game(k)!FromCache.fresh
  PROVE  Game(k)!FromCache.val = x1 /\ Game(k)!Out("save") = {}
<1>1. Game(k)!Quiet /\ ~x7
  BY GameFieldIs
<1>2. \A op \in {"load", "save"} : Game(k)!Out(op) = {}
  BY <1>1, GameNewRequests DEF Game!Quiet, Game!Out
<1>3. ~Game(k)!LoadIsDue
  BY <1>2 DEF Game!LoadIsDue
<1>. QED
  BY <1>1, <1>2, <1>3, GameFieldIs DEF Game!FreshInv

LEMMA GameSaveKeepsKept ==
  ASSUME NEW k \in DOMAIN GamePages, Game(k)!GameFormsAssumption, Game(k)!Formed, Game(k)!OneSave,
         Game(k)!KeptInv, Game(k)!Save
  PROVE  Game(k)!KeptInv'
<1>1. PICK s \in GamePages[k].Slots :
        /\ x6'[s].op = "save" /\ x6'[s].from = x3
        /\ \A t \in GamePages[k].Slots : t # s => x6'[t] = x6[t]
  BY GameSaveIs
<1>2. Game(k)!Out("save") = {}
  BY GameSaveIs
<1>3. Game(k)!Out("save")' = {s}
  BY <1>1, <1>2 DEF Game!Out
<1>4. UNCHANGED <<x1, x3, x7>>
  BY DEF Game!Save
<1>. QED
  BY <1>1, <1>3, <1>4 DEF Game!KeptInv, Game!FreshKept

LEMMA GameStepKept ==
  ASSUME NEW k \in DOMAIN GamePages, Game(k)!GameFormsAssumption, Game(k)!Formed, Game(k)!OneSave,
         Game(k)!FreshInv, Game(k)!KeptInv, Game(k)!Next \/ UNCHANGED Game(k)!vars
  PROVE  Game(k)!KeptInv'
<1>1. ASSUME NEW s \in GamePages[k].Slots, Game(k)!searchGameById(s) PROVE Game(k)!KeptInv'
  BY <1>1, GameLoadServed, GameSlotKeepsKept, Zenon DEF Game!searchGameById
<1>2. ASSUME NEW s \in GamePages[k].Slots, Game(k)!searchGames(s) PROVE Game(k)!KeptInv'
  <2>1. /\ x6[s].op = "load" /\ x6[s].state = "served" /\ x6' = [x6 EXCEPT ![s] = Game(k)!Free]
        /\ x7' = (x7 \/ Game(k)!Out("load") # {s}) /\ x1' = x1
        /\ x3' = IF Game(k)!OnProfile THEN x3 ELSE Game(k)!Shown(s)
    BY <1>2 DEF Game!searchGames
  <2>2. x6'[s].op = "free" /\ \A t \in GamePages[k].Slots : t # s => x6'[t] = x6[t]
    BY <2>1, GameSlotFrees, Zenon
  <2>3. CASE Game(k)!OnProfile
    BY <2>1, <2>2, <2>3, GameSlotKeepsKept, Zenon
  <2>4. CASE ~Game(k)!OnProfile /\ ~Game(k)!Shown(s).fresh
    <3>1. x3' = Game(k)!Shown(s) /\ ~x3'.fresh
      BY <2>1, <2>4
    <3>2. \A t \in Game(k)!Out("save")' : t \in Game(k)!Out("save") /\ x6'[t].from = x6[t].from
      BY <2>2 DEF Game!Out
    <3>. QED
      BY <2>1, <3>1, <3>2, Zenon DEF Game!KeptInv, Game!FreshKept
  <2>5. CASE ~Game(k)!OnProfile /\ Game(k)!Shown(s).fresh
    <3>1. ~x7 /\ (\A t \in GamePages[k].Slots \ {s} : x6[t].op = "free") /\ Game(k)!Shown(s).val = x6[s].data
      BY <2>5, GameFieldIs, GameNewRequests
    <3>2. Game(k)!Out("load") = {s} /\ ~Game(k)!LoadIsDue
      BY <2>1, <3>1 DEF Game!Out, Game!LoadIsDue
    <3>3. Game(k)!Shown(s).val = x1
      BY <2>1, <3>1, <3>2 DEF Game!FreshInv
    <3>4. Game(k)!Out("save")' = {}
      BY <2>2, <3>1 DEF Game!Out
    <3>5. x3' = Game(k)!Shown(s)
      BY <2>1, <2>5
    <3>. QED
      BY <2>1, <3>3, <3>4, <3>5 DEF Game!KeptInv, Game!FreshKept
  <2>. QED
    BY <2>3, <2>4, <2>5
<1>3. ASSUME NEW s \in GamePages[k].Slots, Game(k)!LoadFailed(s) PROVE Game(k)!KeptInv'
  BY <1>3 DEF Game!LoadFailed, Game!KeptInv
<1>4. ASSUME NEW s \in GamePages[k].Slots, Game(k)!Fail(s) PROVE Game(k)!KeptInv'
  BY <1>4, GameSlotAdvances, GameSlotKeepsKept DEF Game!Fail
<1>5. ASSUME NEW s \in GamePages[k].Slots, Game(k)!ServeSave(s) PROVE Game(k)!KeptInv'
  <2>1. /\ s \in Game(k)!Out("save") /\ x1' = x6[s].from.val /\ UNCHANGED <<x3, x7>>
        /\ x6'[s].from = x6[s].from
        /\ \A t \in GamePages[k].Slots : t # s => x6'[t] = x6[t]
    BY <1>5, GameSlotAdvances DEF Game!ServeSave, Game!Out
  <2>2. Game(k)!Out("save") = {s}
    BY <2>1 DEF Game!OneSave
  <2>3. \A t \in Game(k)!Out("save")' : t = s
    BY <2>1, <2>2 DEF Game!Out
  <2>. QED
    BY <2>1, <2>3 DEF Game!KeptInv, Game!FreshKept
<1>6. ASSUME NEW s \in GamePages[k].Slots, Game(k)!Saved(s) PROVE Game(k)!KeptInv'
  BY <1>6, GameSavedIs, GameSlotKeepsKept, Zenon DEF Game!Saved
<1>7. ASSUME NEW s \in GamePages[k].Slots, Game(k)!SaveFailed(s) PROVE Game(k)!KeptInv'
  BY <1>7, GameSlotFrees, GameSlotKeepsKept, Zenon DEF Game!SaveFailed
<1>8. ASSUME NEW s \in GamePages[k].Slots, Game(k)!SaveLost(s) PROVE Game(k)!KeptInv'
  BY <1>8 DEF Game!SaveLost, Game!KeptInv
<1>9. CASE Game(k)!getEditStatus
  BY <1>9, GameCacheIsFresh, GameFieldKeepsKept DEF Game!getEditStatus
<1>10. CASE Game(k)!resetStatus
  BY <1>10, GameCacheIsFresh, GameFieldKeepsKept DEF Game!resetStatus, Game!Reset
<1>11. CASE Game(k)!resetGameDisplayOrder
  BY <1>11, GameCacheIsFresh, GameFieldKeepsKept DEF Game!resetGameDisplayOrder,
      Game!Reset
<1>12. CASE Game(k)!Close
  BY <1>12 DEF Game!Close, Game!KeptInv, Game!FreshKept, Game!Out
<1>13. ASSUME NEW v \in GamePages[k].Statuses, Game(k)!chooseStatus(v) PROVE Game(k)!KeptInv'
  <2>1. v \in Game(k)!Values /\ Game(k)!Edit(v)
    BY <1>13 DEF Game!chooseStatus, Game!Values, Game!Stored
  <2>. QED
    BY <2>1, GameEditIs, GameFieldKeepsKept
<1>14. ASSUME NEW n \in GamePages[k].Typed, Game(k)!typeOrder(n) PROVE Game(k)!KeptInv'
  <2>1. Game(k)!Kept(n) \in Game(k)!Values /\ Game(k)!Edit(Game(k)!Kept(n))
    BY <1>14, GameTypedIs DEF Game!typeOrder
  <2>. QED
    BY <2>1, GameEditIs, GameFieldKeepsKept
<1>15. CASE Game(k)!updateStatus
  BY <1>15, GameSaveKeepsKept DEF Game!updateStatus
<1>16. CASE Game(k)!updateGameDisplayOrder
  BY <1>16, GameSaveKeepsKept DEF Game!updateGameDisplayOrder
<1>17. CASE UNCHANGED Game(k)!vars
  BY <1>17 DEF Game!vars, Game!KeptInv, Game!FreshKept, Game!Out
<1>. QED
  BY <1>1, <1>2, <1>3, <1>4, <1>5, <1>6, <1>7, <1>8, <1>9, <1>10, <1>11, <1>12, <1>13, <1>14,
     <1>15, <1>16, <1>17 DEF Game!Next

LEMMA GameInitIInv ==
  ASSUME NEW k \in DOMAIN GamePages, Game(k)!GameFormsAssumption, Game(k)!Init
  PROVE  Game(k)!IInv
<1>1. PICK s \in GamePages[k].Slots :
             x6 = [t \in GamePages[k].Slots |-> IF t = s THEN Game(k)!Ask("load", Game(k)!NoField)
               ELSE Game(k)!Free]
  BY DEF Game!Init
<1>2. PICK q : q = [op |-> "load", state |-> "asked", from |-> Game(k)!NoField, known |-> FALSE,
             data |-> Game(k)!Blank]
  BY Zenon
<1>3. q \in Game(k)!Requests /\ q.op = "load" /\ q.state = "asked" /\ q.from = Game(k)!NoField
  BY <1>2, GameNewRequests DEF Game!Requests
<1>4. Game(k)!Ask("load", Game(k)!NoField) = q
  BY <1>2, Zenon DEF Game!Ask, Game!Init
<1>5. x6 \in [GamePages[k].Slots -> Game(k)!Requests] /\ x6[s] = q /\ \A t \in GamePages[k].Slots :
        t # s => x6[t] = Game(k)!Free
  BY <1>1, <1>3, <1>4, GameNewRequests
<1>6. Game(k)!Formed
  BY <1>5, GameNewRequests, Zenon DEF Game!Init, Game!Formed
<1>7. Game(k)!Out("save") = {} /\ s \in Game(k)!Out("load")
  BY <1>3, <1>5, GameNewRequests DEF Game!Out
<1>8. Game(k)!OneSave
  BY <1>7 DEF Game!Init, Game!OneSave
<1>9. Game(k)!DigitsInv
  BY <1>3, <1>5, GameNewRequests DEF Game!Init, Game!DigitsInv, Game!TwoDigits
<1>10. Game(k)!FreshInv
  BY <1>3, <1>5, <1>7 DEF Game!FreshInv
<1>11. Game(k)!KeptInv
  BY <1>7, GameNewRequests DEF Game!Init, Game!KeptInv, Game!FreshKept
<1>. QED
  BY <1>6, <1>8, <1>9, <1>10, <1>11 DEF Game!IInv

LEMMA GameNextIInv ==
  ASSUME NEW k \in DOMAIN GamePages, Game(k)!GameFormsAssumption, Game(k)!IInv,
         Game(k)!Next \/ UNCHANGED Game(k)!vars
  PROVE  Game(k)!IInv' /\ Game(k)!UneditedSaveKeeps
<1>1. ASSUME NEW s \in GamePages[k].Slots, ~x6[s].from.edited, x6[s].from.fresh, ~x7, Game(k)!ServeSave(s)
      PROVE  x1' = x1
  BY <1>1 DEF Game!ServeSave, Game!Out, Game!IInv, Game!KeptInv, Game!FreshKept
<1>. QED
  BY <1>1, GameStepFormed, GameStepOneSave, GameStepDigits, GameStepFresh, GameStepKept DEF
      Game!IInv, Game!UneditedSaveKeeps

LEMMA GameIInvImplies ==
  ASSUME NEW k \in DOMAIN GamePages, Game(k)!GameFormsAssumption, Game(k)!IInv
  PROVE  Game(k)!TypeOK /\ Game(k)!QuietPageIsFresh /\ Game(k)!TypedIsAccepted
<1>1. Game(k)!TypeOK
  BY DEF Game!IInv, Game!Formed, Game!OneSave, Game!TypeOK, Game!Values, Game!Fields,
      Game!Requests
<1>2. Game(k)!Quiet => Game(k)!Out("load") = {} /\ ~Game(k)!LoadIsDue
  BY GameNewRequests DEF Game!Quiet, Game!Out, Game!LoadIsDue
<1>3. Game(k)!QuietPageIsFresh
  BY <1>2 DEF Game!IInv, Game!FreshInv, Game!QuietPageIsFresh
<1>4. Game(k)!TypedIsAccepted
  BY DEF Game!IInv, Game!DigitsInv, Game!TwoDigits, Game!TypedIsAccepted, Game!Accepted,
      Game!Out
<1>. QED
  BY <1>1, <1>3, <1>4

(* The invariant of the pages of this script. *)
GameInv == \A k \in On("game", GamePages) : Game(k)!IInv

LEMMA GameBegins ==
  ASSUME SiteInit
  PROVE  GameInv
<1>. SUFFICES ASSUME NEW k \in On("game", GamePages)
         PROVE  Game(k)!IInv
  BY DEF GameInv
<1>1. k \in DOMAIN GamePages /\ script = "game" /\ page = k
  BY DEF On
<1>2. Game(k)!Init
  BY <1>1 DEF SiteInit
<1>3. Game(k)!GameFormsAssumption
  BY <1>1, SitePagesAreSound DEF SitePagesAssumption
<1>. QED
  BY <1>1, <1>2, GameInitIInv, <1>3

LEMMA GameGoesOn ==
  ASSUME GameInv, SiteStep
  PROVE  /\ GameInv'
         /\ \A k \in On("game", GamePages) : Game(k)!UneditedSaveKeeps
<1>1. script' = script /\ page' = page
  BY SiteStays
<1>2. ASSUME NEW k \in On("game", GamePages)
      PROVE  Game(k)!IInv' /\ Game(k)!UneditedSaveKeeps
  <2>1. k \in DOMAIN GamePages /\ script = "game" /\ page = k
    BY DEF On
  <2>2. Game(k)!Next \/ UNCHANGED Game(k)!vars
    BY <2>1 DEF SiteStep, SiteNext, On, vars, Game!vars
  <2>3. Game(k)!GameFormsAssumption
    BY <2>1, SitePagesAreSound DEF SitePagesAssumption
  <2>4. Game(k)!IInv
    BY DEF GameInv
  <2>. QED
    BY <2>1, <2>2, GameNextIInv, <2>3, <2>4
<1>3. On("game", GamePages)' = On("game", GamePages)
  BY <1>1 DEF On
<1>. QED
  BY <1>2, <1>3 DEF GameInv

LEMMA GameShows ==
  ASSUME GameInv
  PROVE  /\ \A k \in On("game", GamePages) : Game(k)!TypeOK
         /\ \A k \in On("game", GamePages) : Game(k)!QuietPageIsFresh
         /\ \A k \in On("game", GamePages) : Game(k)!TypedIsAccepted
<1>. SUFFICES ASSUME NEW k \in On("game", GamePages)
         PROVE  Game(k)!TypeOK /\ Game(k)!QuietPageIsFresh /\ Game(k)!TypedIsAccepted
  OBVIOUS
<1>1. k \in DOMAIN GamePages /\ Game(k)!IInv
  BY DEF On, GameInv
<1>2. Game(k)!GameFormsAssumption
  BY <1>1, SitePagesAreSound DEF SitePagesAssumption
<1>. QED
  BY <1>1, GameIInvImplies, <1>2

-----------------------------------------------------------------------------
(***************************************************************************)
(* ProviderPage (Provider): x1 is object, x2 is db, x3 is vendor, x4 is    *)
(* provider, x5 is dialog, x6 is flight, x7 is disturbed.                  *)
(***************************************************************************)
LEMMA ProviderNewRequests ==
  ASSUME NEW k \in DOMAIN ProviderPages, Provider(k)!ProviderPageAssumption
  PROVE  /\ Provider(k)!NoForm \in Provider(k)!Dialogs /\ Provider(k)!NoForm.form = "none"
              /\ ~Provider(k)!NoForm.fresh /\ Provider(k)!NoForm.status = "active"
         /\ Provider(k)!NoForm.window = Provider(k)!NoWindow
         /\ Provider(k)!Free \in Provider(k)!Requests /\ Provider(k)!Free.op = "free"
              /\ Provider(k)!Free.state = "free" /\ Provider(k)!Free.from = Provider(k)!NoForm
         /\ Provider(k)!Ask("load", Provider(k)!NoForm) \in Provider(k)!Requests
              /\ Provider(k)!Ask("load", Provider(k)!NoForm).op = "load"
         /\ Provider(k)!Ask("load", Provider(k)!NoForm).state = "asked"
              /\ Provider(k)!Ask("load", Provider(k)!NoForm).from = Provider(k)!NoForm
<1>1. Provider(k)!NoForm \in Provider(k)!Dialogs /\ Provider(k)!NoForm.form = "none"
        /\ ~Provider(k)!NoForm.fresh /\ Provider(k)!NoForm.status = "active"
             /\ Provider(k)!NoForm.window = Provider(k)!NoWindow
  BY DEF Provider!ProviderPageAssumption, Provider!NoForm, Provider!Dialogs
<1>2. Provider(k)!NoRow \in Provider(k)!ProviderRows
  BY DEF Provider!ProviderPageAssumption, Provider!NoRow, Provider!Row,
      Provider!ProviderRows
<1>. HIDE DEF Provider!NoForm, Provider!NoRow
<1>3. Provider(k)!Free \in Provider(k)!Requests /\ Provider(k)!Free.op = "free"
        /\ Provider(k)!Free.state = "free" /\ Provider(k)!Free.from = Provider(k)!NoForm
  BY <1>1, <1>2 DEF Provider!Free, Provider!Requests
<1>4. /\ Provider(k)!Ask("load", Provider(k)!NoForm) \in Provider(k)!Requests
           /\ Provider(k)!Ask("load", Provider(k)!NoForm).op = "load"
      /\ Provider(k)!Ask("load", Provider(k)!NoForm).state = "asked"
           /\ Provider(k)!Ask("load", Provider(k)!NoForm).from = Provider(k)!NoForm
  BY <1>1, <1>2 DEF Provider!Ask, Provider!Requests
<1>. QED
  BY <1>1, <1>3, <1>4

LEMMA ProviderSlotTakes ==
  ASSUME NEW k \in DOMAIN ProviderPages, Provider(k)!SlotsFormed, NEW s \in ProviderPages[k].Slots,
         NEW q \in Provider(k)!Requests, x6' = [x6 EXCEPT ![s] = q]
  PROVE  /\ x6' \in [ProviderPages[k].Slots -> Provider(k)!Requests] /\ x6'[s] = q
         /\ \A t \in ProviderPages[k].Slots : t # s => x6'[t] = x6[t]
BY DEF Provider!SlotsFormed

LEMMA ProviderSlotFrees ==
  ASSUME NEW k \in DOMAIN ProviderPages, Provider(k)!ProviderPageAssumption, Provider(k)!SlotsFormed,
         NEW s \in ProviderPages[k].Slots, x6' = [x6 EXCEPT ![s] = Provider(k)!Free]
  PROVE  /\ x6' \in [ProviderPages[k].Slots -> Provider(k)!Requests] /\ x6'[s].op = "free"
              /\ x6'[s].state = "free"
         /\ \A t \in ProviderPages[k].Slots : t # s => x6'[t] = x6[t]
BY ProviderSlotTakes, ProviderNewRequests, Zenon

LEMMA ProviderSlotAdvances ==
  ASSUME NEW k \in DOMAIN ProviderPages, Provider(k)!SlotsFormed, NEW s \in ProviderPages[k].Slots,
         NEW st \in {"set", "served"}, Provider(k)!Advance(s, st)
  PROVE  /\ x6' \in [ProviderPages[k].Slots -> Provider(k)!Requests] /\ x6'[s].op = x6[s].op
              /\ x6'[s].state = st
         /\ x6'[s].from = x6[s].from /\ x6'[s].data = x6[s].data
         /\ \A t \in ProviderPages[k].Slots : t # s => x6'[t] = x6[t]
<1>1. PICK q : q = [x6[s] EXCEPT !.state = st]
  BY Zenon
<1>2. x6[s] \in Provider(k)!Requests
  BY DEF Provider!SlotsFormed
<1>3. /\ q \in Provider(k)!Requests /\ q.op = x6[s].op /\ q.state = st /\ q.from = x6[s].from
      /\ q.data = x6[s].data
  BY <1>1, <1>2 DEF Provider!Requests
<1>4. x6' = [x6 EXCEPT ![s] = q]
  BY <1>1 DEF Provider!Advance
<1>. QED
  BY <1>3, <1>4, ProviderSlotTakes, Zenon

LEMMA ProviderSlotAnswers ==
  ASSUME NEW k \in DOMAIN ProviderPages, Provider(k)!SlotsFormed, NEW s \in ProviderPages[k].Slots,
         NEW st \in {"written", "served"}, NEW r \in Provider(k)!ProviderRows,
         x6' = [x6 EXCEPT ![s].state = st, ![s].data = r]
  PROVE  /\ x6' \in [ProviderPages[k].Slots -> Provider(k)!Requests] /\ x6'[s].op = x6[s].op
              /\ x6'[s].state = st
         /\ x6'[s].from = x6[s].from /\ x6'[s].data = r
         /\ \A t \in ProviderPages[k].Slots : t # s => x6'[t] = x6[t]
<1>1. PICK q : q = [x6[s] EXCEPT !.state = st, !.data = r]
  OBVIOUS
<1>2. x6[s] \in Provider(k)!Requests
  BY DEF Provider!SlotsFormed
<1>3. q \in Provider(k)!Requests /\ q.op = x6[s].op /\ q.state = st /\ q.from = x6[s].from /\ q.data = r
  BY <1>1, <1>2, Zenon DEF Provider!Requests
<1>4. x6' = [x6 EXCEPT ![s] = q]
  BY <1>1, Zenon
<1>. QED
  BY <1>3, <1>4, ProviderSlotTakes, ZenonT(30)

LEMMA ProviderLoadServed ==
  ASSUME NEW k \in DOMAIN ProviderPages, Provider(k)!RowsFormed, Provider(k)!SlotsFormed,
         NEW s \in ProviderPages[k].Slots, Provider(k)!ServeLoad(s)
  PROVE  /\ x6' \in [ProviderPages[k].Slots -> Provider(k)!Requests] /\ x6[s].op = "load"
              /\ x6'[s].op = "load"
         /\ x6'[s].state = "served"
         /\ x6'[s].data = IF ProviderPages[k].OnProfile THEN x1 ELSE x2
         /\ \A t \in ProviderPages[k].Slots : t # s => x6'[t] = x6[t]
<1>1. PICK r \in Provider(k)!ProviderRows : r = IF ProviderPages[k].OnProfile THEN x1 ELSE x2
  BY DEF Provider!RowsFormed
<1>2. PICK q : q = [x6[s] EXCEPT !.state = "served", !.data = r]
  OBVIOUS
<1>3. x6[s] \in Provider(k)!Requests /\ x6[s].op = "load"
  BY DEF Provider!ServeLoad, Provider!SlotsFormed
<1>4. q \in Provider(k)!Requests /\ q.op = "load" /\ q.state = "served" /\ q.data = r
  BY <1>2, <1>3, Zenon DEF Provider!Requests
<1>5. x6' = [x6 EXCEPT ![s] = q]
  BY <1>1, <1>2, Zenon DEF Provider!ServeLoad
<1>. QED
  BY <1>1, <1>3, <1>4, <1>5, ProviderSlotTakes, Zenon

LEMMA ProviderWriteIs ==
  ASSUME NEW k \in DOMAIN ProviderPages, Provider(k)!RowsFormed, Provider(k)!SlotsFormed,
         NEW s \in ProviderPages[k].Slots, Provider(k)!writeProvider(s)
  PROVE  /\ x6' \in [ProviderPages[k].Slots -> Provider(k)!Requests] /\ x6[s].op = "save"
              /\ x6'[s].op = "save"
         /\ x6'[s].state = "written" /\ x6'[s].from = x6[s].from
         /\ \A t \in ProviderPages[k].Slots : t # s => x6'[t] = x6[t]
<1>1. x1 \in Provider(k)!ProviderRows
  BY DEF Provider!RowsFormed
<1>2. x6' = [x6 EXCEPT ![s].state = "written", ![s].data = x1] /\ x6[s].op = "save"
  BY DEF Provider!writeProvider, Provider!SlotsFormed
<1>. QED
  BY <1>1, <1>2, ProviderSlotAnswers, Zenon

LEMMA ProviderFailIs ==
  ASSUME NEW k \in DOMAIN ProviderPages, Provider(k)!ProviderPageAssumption, Provider(k)!SlotsFormed,
         NEW s \in ProviderPages[k].Slots, Provider(k)!Fail(s)
  PROVE  /\ x6' \in [ProviderPages[k].Slots -> Provider(k)!Requests] /\ x6'[s].op = x6[s].op
              /\ x6'[s].state = "failed"
         /\ \A t \in ProviderPages[k].Slots : t # s => x6'[t] = x6[t]
<1>1. PICK q : q = [Provider(k)!Free EXCEPT !.op = x6[s].op, !.state = "failed"]
  OBVIOUS
<1>2. x6[s] \in Provider(k)!Requests /\ Provider(k)!Free \in Provider(k)!Requests
  BY ProviderNewRequests DEF Provider!SlotsFormed
<1>3. q \in Provider(k)!Requests /\ q.op = x6[s].op /\ q.state = "failed"
  BY <1>1, <1>2, Zenon DEF Provider!Requests
<1>4. x6' = [x6 EXCEPT ![s] = q]
  BY <1>1 DEF Provider!Fail
<1>. QED
  BY <1>3, <1>4, ProviderSlotTakes, Zenon

LEMMA ProviderSavedIs ==
  ASSUME NEW k \in DOMAIN ProviderPages, Provider(k)!ProviderPageAssumption, Provider(k)!SlotsFormed,
         NEW s \in ProviderPages[k].Slots, Provider(k)!Saved(s)
  PROVE  /\ x6' \in [ProviderPages[k].Slots -> Provider(k)!Requests] /\ x6[s].op = "save"
              /\ x6'[s].op = "load"
         /\ x6'[s].state = "asked"
         /\ \A t \in ProviderPages[k].Slots : t # s => x6'[t] = x6[t]
BY ProviderSlotTakes, ProviderNewRequests, Zenon DEF Provider!Saved

(* A save is sent with the dialog, fresh only while nothing else is out;   *)
(* the others are not fresh any more.                                      *)
LEMMA ProviderSaveIs ==
  ASSUME NEW k \in DOMAIN ProviderPages, Provider(k)!ProviderPageAssumption, Provider(k)!DialogFormed,
         Provider(k)!SlotsFormed, Provider(k)!updateProvider
  PROVE  /\ x6' \in [ProviderPages[k].Slots -> Provider(k)!Requests]
         /\ \E s \in ProviderPages[k].Slots :
              /\ x6[s].op = "free" /\ x6[s].state = "free"
              /\ x6'[s].op = "save" /\ x6'[s].state = "asked"
              /\ x6'[s].from.form = x5.form /\ x6'[s].from.status = x5.status
              /\ x6'[s].from.window = x5.window /\ x6'[s].from.edited = x5.edited
              /\ x6'[s].from.fresh => x5.fresh /\ Provider(k)!Quiet
              /\ \A t \in ProviderPages[k].Slots : t # s =>
                   /\ x6'[t].op = x6[t].op /\ x6'[t].state = x6[t].state
                   /\ x6'[t].data = x6[t].data
                   /\ x6'[t].from.form = x6[t].from.form /\ x6'[t].from.status = x6[t].from.status
                   /\ x6'[t].from.window = x6[t].from.window /\ ~x6'[t].from.fresh
<1>1. PICK s \in ProviderPages[k].Slots :
        /\ x6[s] = Provider(k)!Free
        /\ x6' = [t \in ProviderPages[k].Slots |->
             IF t = s THEN Provider(k)!Ask("save", [x5 EXCEPT !.fresh = @ /\ Provider(k)!Quiet])
             ELSE [x6[t] EXCEPT !.from.fresh = FALSE]]
  BY DEF Provider!updateProvider
<1>2. PICK d : d = [x5 EXCEPT !.fresh = @ /\ Provider(k)!Quiet]
  BY Zenon
<1>3. /\ d \in Provider(k)!Dialogs /\ d.form = x5.form /\ d.status = x5.status /\ d.window = x5.window
      /\ d.edited = x5.edited /\ (d.fresh => x5.fresh /\ Provider(k)!Quiet)
  <2>1. x5 \in Provider(k)!Dialogs
    BY DEF Provider!DialogFormed
  <2>2. PICK b \in BOOLEAN : b = (x5.fresh /\ Provider(k)!Quiet)
    BY Zenon
  <2>3. d = [x5 EXCEPT !.fresh = b]
    BY <1>2, <2>2
  <2>4. /\ d \in Provider(k)!Dialogs /\ d.form = x5.form /\ d.status = x5.status /\ d.window = x5.window
        /\ d.edited = x5.edited /\ d.fresh = b
    BY <2>1, <2>3 DEF Provider!Dialogs
  <2>. QED
    BY <2>2, <2>4, Zenon
<1>4. PICK q : q = Provider(k)!Ask("save", d)
  OBVIOUS
<1>5. Provider(k)!NoRow \in Provider(k)!ProviderRows
  BY DEF Provider!ProviderPageAssumption, Provider!NoRow, Provider!Row,
      Provider!ProviderRows
<1>6. q \in Provider(k)!Requests /\ q.op = "save" /\ q.state = "asked" /\ q.from = d
  BY <1>3, <1>4, <1>5 DEF Provider!Ask, Provider!Requests
<1>7. x6'[s] = q /\ \A t \in ProviderPages[k].Slots : t # s => x6'[t] = [x6[t] EXCEPT !.from.fresh = FALSE]
  BY <1>1, <1>2, <1>4
<1>8. ASSUME NEW t \in ProviderPages[k].Slots, t # s
      PROVE  /\ x6'[t] \in Provider(k)!Requests /\ x6'[t].op = x6[t].op /\ x6'[t].state = x6[t].state
             /\ x6'[t].data = x6[t].data
             /\ x6'[t].from.form = x6[t].from.form /\ x6'[t].from.status = x6[t].from.status
             /\ x6'[t].from.window = x6[t].from.window /\ ~x6'[t].from.fresh
  <2>1. x6[t] \in Provider(k)!Requests /\ x6'[t] = [x6[t] EXCEPT !.from.fresh = FALSE]
    BY <1>7, <1>8 DEF Provider!SlotsFormed
  <2>2. PICK g : g = [x6[t].from EXCEPT !.fresh = FALSE]
    BY Zenon
  <2>3. x6[t].from \in Provider(k)!Dialogs
    BY <2>1 DEF Provider!Requests
  <2>4. /\ g \in Provider(k)!Dialogs /\ g.form = x6[t].from.form /\ g.status = x6[t].from.status
        /\ g.window = x6[t].from.window /\ ~g.fresh
    BY <2>2, <2>3, Zenon DEF Provider!Dialogs
  <2>5. x6'[t] = [x6[t] EXCEPT !.from = g]
    BY <2>1, <2>2
  <2>. QED
    BY <2>1, <2>4, <2>5, Zenon DEF Provider!Requests
<1>9. x6' \in [ProviderPages[k].Slots -> Provider(k)!Requests]
  BY <1>1, <1>6, <1>7, <1>8, Zenon
<1>10. x6[s].op = "free" /\ x6[s].state = "free"
  BY <1>1, ProviderNewRequests
<1>. QED
  BY <1>3, <1>6, <1>7, <1>8, <1>9, <1>10

(* What the dialogs are filled with. *)
LEMMA ProviderFormsAre ==
  ASSUME NEW k \in DOMAIN ProviderPages, Provider(k)!ProviderPageAssumption,
         NEW p \in Provider(k)!ProviderRows
  PROVE  /\ Provider(k)!StatusForm(p) \in Provider(k)!Dialogs /\ Provider(k)!StatusForm(p).form = "status"
              /\ Provider(k)!StatusForm(p).status = p.status
         /\ Provider(k)!StatusForm(p).window = Provider(k)!WindowShown(p) /\ ~Provider(k)!StatusForm(p).edited
         /\ (Provider(k)!StatusForm(p).fresh => Provider(k)!Quiet /\ ~x7 /\ Provider(k)!Sound(p))
         /\ Provider(k)!loadProviderName(p) \in Provider(k)!Dialogs
              /\ Provider(k)!loadProviderName(p).form = "name" /\ ~Provider(k)!loadProviderName(p).fresh
<1>1. /\ Provider(k)!WindowShown(p) \in ProviderPages[k].Windows \cup {Provider(k)!NoWindow}
           /\ p.name \in ProviderPages[k].Names \cup {ProviderPages[k].Cut}
                /\ p.status \in ProviderPages[k].Statuses
  BY DEF Provider!ProviderPageAssumption, Provider!WindowShown, Provider!ProviderRows
<1>2. PICK b \in BOOLEAN : b = (Provider(k)!Quiet /\ ~x7 /\ Provider(k)!Sound(p))
  BY Zenon
<1>3. Provider(k)!StatusForm(p)
        = [form |-> "status", name |-> ProviderPages[k].Cut, status |-> p.status,
          window |-> Provider(k)!WindowShown(p),
                       edited |-> FALSE, fresh |-> b]
  BY <1>2 DEF Provider!StatusForm
<1>4. /\ Provider(k)!StatusForm(p) \in Provider(k)!Dialogs /\ Provider(k)!StatusForm(p).form = "status"
           /\ Provider(k)!StatusForm(p).status = p.status
      /\ Provider(k)!StatusForm(p).window = Provider(k)!WindowShown(p) /\ ~Provider(k)!StatusForm(p).edited
           /\ Provider(k)!StatusForm(p).fresh = b
  BY <1>1, <1>3 DEF Provider!Dialogs
<1>5. Provider(k)!loadProviderName(p) \in Provider(k)!Dialogs
        /\ Provider(k)!loadProviderName(p).form = "name" /\ ~Provider(k)!loadProviderName(p).fresh
  BY <1>1 DEF Provider!loadProviderName, Provider!Dialogs
<1>. QED
  BY <1>2, <1>4, <1>5, Zenon

(* An edit leaves everything but the dialog, which is not fresh, or filled *)
(* from what was loaded.                                                   *)
LEMMA ProviderEditIs ==
  ASSUME NEW k \in DOMAIN ProviderPages, Provider(k)!ProviderPageAssumption, Provider(k)!RowsFormed,
         Provider(k)!DialogFormed, Provider(k)!Edits
  PROVE  /\ UNCHANGED <<x1, x2, x4, x6, x7>>
         /\ ~Provider(k)!FreshForm(x5') \/ \E p \in x4 : x5' = Provider(k)!StatusForm(p)
<1>1. UNCHANGED <<x1, x2, x4, x6, x7>>
  BY Zenon DEF Provider!Edits, Provider!editProvider, Provider!resetUpdateProviderForm,
     Provider!gotoEditProviderName, Provider!resetProviderName, Provider!bindProviderProfileEvent,
     Provider!dateRangeInitial, Provider!TypeName, Provider!Close, Provider!OpenWith, Provider!serverVars
<1>2. CASE Provider(k)!editProvider \/ Provider(k)!resetUpdateProviderForm
  <2>1. \E p \in x4 : x5' = Provider(k)!StatusForm(p)
    BY <1>2 DEF Provider!editProvider, Provider!resetUpdateProviderForm,
        Provider!OpenWith
  <2>. QED
    BY <1>1, <2>1
<1>3. CASE Provider(k)!gotoEditProviderName \/ Provider(k)!resetProviderName
  <2>1. \E p \in x4 : x5' = Provider(k)!loadProviderName(p)
    BY <1>3 DEF Provider!gotoEditProviderName, Provider!resetProviderName,
        Provider!OpenWith
  <2>2. ~Provider(k)!FreshForm(x5')
    BY <2>1, ProviderFormsAre DEF Provider!RowsFormed, Provider!FreshForm
  <2>. QED
    BY <1>1, <2>2
<1>4. ASSUME NEW s \in ProviderPages[k].Statuses, Provider(k)!bindProviderProfileEvent(s)
      PROVE  ~Provider(k)!FreshForm(x5')
  <2>1. x5' = [x5 EXCEPT !.status = s, !.edited = TRUE,
                                 !.window = IF s = "maintenance" THEN ProviderPages[k].Today
                                   ELSE Provider(k)!NoWindow]
    BY <1>4 DEF Provider!bindProviderProfileEvent, Provider!OpenWith
  <2>2. x5'.edited
    BY <2>1 DEF Provider!DialogFormed, Provider!Dialogs
  <2>. QED
    BY <2>2 DEF Provider!FreshForm
<1>5. ASSUME NEW w \in ProviderPages[k].Windows \cup {Provider(k)!NoWindow}, Provider(k)!dateRangeInitial(w)
      PROVE  ~Provider(k)!FreshForm(x5')
  <2>1. x5' = [x5 EXCEPT !.window = w, !.edited = TRUE]
    BY <1>5 DEF Provider!dateRangeInitial, Provider!OpenWith
  <2>2. x5'.edited
    BY <2>1 DEF Provider!DialogFormed, Provider!Dialogs
  <2>. QED
    BY <2>2 DEF Provider!FreshForm
<1>6. ASSUME NEW n \in ProviderPages[k].Names, Provider(k)!TypeName(n)
      PROVE  ~Provider(k)!FreshForm(x5')
  <2>1. x5' = [x5 EXCEPT !.name = n, !.edited = TRUE]
    BY <1>6 DEF Provider!TypeName, Provider!OpenWith
  <2>2. x5'.edited
    BY <2>1 DEF Provider!DialogFormed, Provider!Dialogs
  <2>. QED
    BY <2>2 DEF Provider!FreshForm
<1>7. CASE Provider(k)!Close
  BY <1>1, <1>7, ProviderNewRequests DEF Provider!Close, Provider!OpenWith,
      Provider!FreshForm
<1>. QED
  BY <1>1, <1>2, <1>3, <1>4, <1>5, <1>6, <1>7 DEF Provider!Edits

LEMMA ProviderStepRows ==
  ASSUME NEW k \in DOMAIN ProviderPages, Provider(k)!ProviderPageAssumption, Provider(k)!RowsFormed,
         Provider(k)!DialogFormed, Provider(k)!SlotsFormed, Provider(k)!Next \/ UNCHANGED Provider(k)!vars
  PROVE  Provider(k)!RowsFormed'
<1>1. ASSUME NEW s \in ProviderPages[k].Slots, Provider(k)!ServeLoad(s) PROVE Provider(k)!RowsFormed'
  BY <1>1 DEF Provider!ServeLoad, Provider!serverVars, Provider!RowsFormed
<1>2. ASSUME NEW s \in ProviderPages[k].Slots,
             Provider(k)!loadProviderProfile(s) PROVE Provider(k)!RowsFormed'
  BY <1>2 DEF Provider!loadProviderProfile, Provider!Loaded, Provider!serverVars,
      Provider!RowsFormed, Provider!SlotsFormed, Provider!Requests
<1>3. ASSUME NEW s \in ProviderPages[k].Slots, Provider(k)!queryAllProviders(s) PROVE Provider(k)!RowsFormed'
  BY <1>3 DEF Provider!queryAllProviders, Provider!Loaded, Provider!serverVars,
      Provider!RowsFormed, Provider!SlotsFormed, Provider!Requests
<1>4. ASSUME NEW s \in ProviderPages[k].Slots, Provider(k)!setProvider(s) PROVE Provider(k)!RowsFormed'
  <2>1. PICK d : d = x6[s].from
    OBVIOUS
  <2>2. d \in Provider(k)!Dialogs
    BY <2>1 DEF Provider!SlotsFormed, Provider!Requests
  <2>3. PICK n : n = IF d.form = "name" THEN Provider(k)!Kept(d.name) ELSE x1.name
    OBVIOUS
  <2>4. n \in ProviderPages[k].Names \cup {ProviderPages[k].Cut} /\ d.status \in ProviderPages[k].Statuses
          /\ d.window \in ProviderPages[k].Windows \cup {Provider(k)!NoWindow}
    BY <2>2, <2>3 DEF Provider!Kept, Provider!RowsFormed, Provider!ProviderRows,
        Provider!Dialogs
  <2>5. x1' = Provider(k)!Row(n, d.status, d.window) /\ UNCHANGED <<x2, x4>>
    BY <1>4, <2>1, <2>3 DEF Provider!setProvider
  <2>6. x1' \in Provider(k)!ProviderRows
    BY <2>4, <2>5 DEF Provider!Row, Provider!ProviderRows
  <2>. QED
    BY <2>5, <2>6 DEF Provider!RowsFormed
<1>5. ASSUME NEW s \in ProviderPages[k].Slots, Provider(k)!writeProvider(s) PROVE Provider(k)!RowsFormed'
  BY <1>5 DEF Provider!writeProvider, Provider!RowsFormed
<1>6. ASSUME NEW s \in ProviderPages[k].Slots,
             Provider(k)!updateWebsiteVendor(s) PROVE Provider(k)!RowsFormed'
  BY <1>6 DEF Provider!updateWebsiteVendor, Provider!RowsFormed
<1>7. ASSUME NEW s \in ProviderPages[k].Slots, Provider(k)!Fail(s) PROVE Provider(k)!RowsFormed'
  BY <1>7 DEF Provider!Fail, Provider!serverVars, Provider!RowsFormed
<1>8. ASSUME NEW s \in ProviderPages[k].Slots, Provider(k)!Saved(s) PROVE Provider(k)!RowsFormed'
  BY <1>8 DEF Provider!Saved, Provider!serverVars, Provider!RowsFormed
<1>9. ASSUME NEW s \in ProviderPages[k].Slots, Provider(k)!Failed(s) PROVE Provider(k)!RowsFormed'
  BY <1>9 DEF Provider!Failed, Provider!serverVars, Provider!RowsFormed
<1>10. CASE Provider(k)!editProvider
  BY <1>10 DEF Provider!editProvider, Provider!OpenWith, Provider!serverVars,
      Provider!RowsFormed
<1>11. CASE Provider(k)!resetUpdateProviderForm
  BY <1>11 DEF Provider!resetUpdateProviderForm, Provider!OpenWith, Provider!serverVars,
      Provider!RowsFormed
<1>12. CASE Provider(k)!gotoEditProviderName
  BY <1>12 DEF Provider!gotoEditProviderName, Provider!OpenWith, Provider!serverVars,
      Provider!RowsFormed
<1>13. CASE Provider(k)!resetProviderName
  BY <1>13 DEF Provider!resetProviderName, Provider!OpenWith, Provider!serverVars,
      Provider!RowsFormed
<1>14. ASSUME NEW s \in ProviderPages[k].Statuses,
              Provider(k)!bindProviderProfileEvent(s) PROVE Provider(k)!RowsFormed'
  BY <1>14 DEF Provider!bindProviderProfileEvent, Provider!OpenWith, Provider!serverVars,
      Provider!RowsFormed
<1>15. ASSUME NEW w \in ProviderPages[k].Windows \cup {Provider(k)!NoWindow},
              Provider(k)!dateRangeInitial(w) PROVE Provider(k)!RowsFormed'
  BY <1>15 DEF Provider!dateRangeInitial, Provider!OpenWith, Provider!serverVars,
      Provider!RowsFormed
<1>16. ASSUME NEW n \in ProviderPages[k].Names, Provider(k)!TypeName(n) PROVE Provider(k)!RowsFormed'
  BY <1>16 DEF Provider!TypeName, Provider!OpenWith, Provider!serverVars,
      Provider!RowsFormed
<1>17. CASE Provider(k)!Close
  BY <1>17 DEF Provider!Close, Provider!OpenWith, Provider!serverVars,
      Provider!RowsFormed
<1>18. CASE Provider(k)!updateProvider
  BY <1>18 DEF Provider!updateProvider, Provider!serverVars, Provider!RowsFormed
<1>19. CASE UNCHANGED Provider(k)!vars
  BY <1>19 DEF Provider!vars, Provider!RowsFormed
<1>. QED
  BY <1>1, <1>2, <1>3, <1>4, <1>5, <1>6, <1>7, <1>8, <1>9, <1>10, <1>11, <1>12, <1>13, <1>14,
     <1>15, <1>16, <1>17, <1>18, <1>19 DEF Provider!Next

LEMMA ProviderStatusOpens ==
  ASSUME NEW k \in DOMAIN ProviderPages, Provider(k)!ProviderPageAssumption, Provider(k)!RowsFormed,
         Provider(k)!DialogFormed, NEW p \in x4, Provider(k)!OpenWith(Provider(k)!StatusForm(p))
  PROVE  Provider(k)!DialogFormed'
<1>1. p \in Provider(k)!ProviderRows
  BY DEF Provider!RowsFormed
<1>2. x5' = Provider(k)!StatusForm(p) /\ x7' = x7
  BY DEF Provider!OpenWith
<1>3. p.status # "maintenance" => Provider(k)!WindowShown(p) = Provider(k)!NoWindow
  BY DEF Provider!WindowShown
<1>. QED
  BY <1>1, <1>2, <1>3, ProviderFormsAre DEF Provider!DialogFormed

LEMMA ProviderNameOpens ==
  ASSUME NEW k \in DOMAIN ProviderPages, Provider(k)!ProviderPageAssumption, Provider(k)!RowsFormed,
         Provider(k)!DialogFormed, ProviderPages[k].OnProfile, NEW p \in x4,
         Provider(k)!OpenWith(Provider(k)!loadProviderName(p))
  PROVE  Provider(k)!DialogFormed'
<1>1. p \in Provider(k)!ProviderRows
  BY DEF Provider!RowsFormed
<1>2. x5' = Provider(k)!loadProviderName(p) /\ x7' = x7
  BY DEF Provider!OpenWith
<1>. QED
  BY <1>1, <1>2, ProviderFormsAre DEF Provider!DialogFormed

LEMMA ProviderStepDialogs ==
  ASSUME NEW k \in DOMAIN ProviderPages, Provider(k)!ProviderPageAssumption, Provider(k)!RowsFormed,
         Provider(k)!DialogFormed, Provider(k)!SlotsFormed, Provider(k)!Next \/ UNCHANGED Provider(k)!vars
  PROVE  Provider(k)!DialogFormed'
<1>1. ASSUME NEW s \in ProviderPages[k].Slots, Provider(k)!ServeLoad(s) PROVE Provider(k)!DialogFormed'
  BY <1>1 DEF Provider!ServeLoad, Provider!DialogFormed
<1>2. ASSUME NEW s \in ProviderPages[k].Slots,
             Provider(k)!loadProviderProfile(s) PROVE Provider(k)!DialogFormed'
  BY <1>2 DEF Provider!loadProviderProfile, Provider!Loaded, Provider!DialogFormed
<1>3. ASSUME NEW s \in ProviderPages[k].Slots,
             Provider(k)!queryAllProviders(s) PROVE Provider(k)!DialogFormed'
  BY <1>3 DEF Provider!queryAllProviders, Provider!Loaded, Provider!DialogFormed
<1>4. ASSUME NEW s \in ProviderPages[k].Slots, Provider(k)!setProvider(s) PROVE Provider(k)!DialogFormed'
  BY <1>4 DEF Provider!setProvider, Provider!DialogFormed
<1>5. ASSUME NEW s \in ProviderPages[k].Slots, Provider(k)!writeProvider(s) PROVE Provider(k)!DialogFormed'
  BY <1>5 DEF Provider!writeProvider, Provider!DialogFormed
<1>6. ASSUME NEW s \in ProviderPages[k].Slots,
             Provider(k)!updateWebsiteVendor(s) PROVE Provider(k)!DialogFormed'
  BY <1>6 DEF Provider!updateWebsiteVendor, Provider!DialogFormed
<1>7. ASSUME NEW s \in ProviderPages[k].Slots, Provider(k)!Fail(s) PROVE Provider(k)!DialogFormed'
  BY <1>7 DEF Provider!Fail, Provider!DialogFormed
<1>8. ASSUME NEW s \in ProviderPages[k].Slots, Provider(k)!Saved(s) PROVE Provider(k)!DialogFormed'
  BY <1>8, ProviderNewRequests DEF Provider!Saved, Provider!DialogFormed
<1>9. ASSUME NEW s \in ProviderPages[k].Slots, Provider(k)!Failed(s) PROVE Provider(k)!DialogFormed'
  BY <1>9 DEF Provider!Failed, Provider!DialogFormed
<1>10. CASE Provider(k)!editProvider
  BY <1>10, ProviderStatusOpens DEF Provider!editProvider
<1>11. CASE Provider(k)!resetUpdateProviderForm
  BY <1>11, ProviderStatusOpens DEF Provider!resetUpdateProviderForm
<1>12. CASE Provider(k)!gotoEditProviderName
  BY <1>12, ProviderNameOpens DEF Provider!gotoEditProviderName
<1>13. CASE Provider(k)!resetProviderName
  BY <1>13, ProviderNameOpens DEF Provider!resetProviderName, Provider!DialogFormed
<1>14. ASSUME NEW s \in ProviderPages[k].Statuses,
              Provider(k)!bindProviderProfileEvent(s) PROVE Provider(k)!DialogFormed'
  <2>1. PICK w : w = IF s = "maintenance" THEN ProviderPages[k].Today ELSE Provider(k)!NoWindow
    OBVIOUS
  <2>2. w \in ProviderPages[k].Windows \cup {Provider(k)!NoWindow}
    BY <2>1 DEF Provider!ProviderPageAssumption
  <2>3. /\ x5.form = "status" /\ x5' = [x5 EXCEPT !.status = s, !.edited = TRUE, !.window = w]
        /\ x7' = x7
    BY <1>14, <2>1 DEF Provider!bindProviderProfileEvent, Provider!OpenWith
  <2>4. x5' \in Provider(k)!Dialogs /\ x5'.form = "status" /\ x5'.status = s /\ x5'.window = w
    BY <2>2, <2>3, Zenon DEF Provider!DialogFormed, Provider!Dialogs
  <2>. QED
    BY <2>1, <2>3, <2>4 DEF Provider!DialogFormed
<1>15. ASSUME NEW w \in ProviderPages[k].Windows \cup {Provider(k)!NoWindow},
              Provider(k)!dateRangeInitial(w) PROVE Provider(k)!DialogFormed'
  <2>1. /\ x5.form = "status" /\ x5.status = "maintenance" /\ x7' = x7
        /\ x5' = [x5 EXCEPT !.window = w, !.edited = TRUE]
    BY <1>15 DEF Provider!dateRangeInitial, Provider!OpenWith
  <2>2. x5' \in Provider(k)!Dialogs /\ x5'.form = "status" /\ x5'.status = "maintenance"
    BY <2>1, Zenon DEF Provider!DialogFormed, Provider!Dialogs
  <2>. QED
    BY <2>1, <2>2 DEF Provider!DialogFormed
<1>16. ASSUME NEW n \in ProviderPages[k].Names, Provider(k)!TypeName(n) PROVE Provider(k)!DialogFormed'
  <2>1. x5.form = "name" /\ x5' = [x5 EXCEPT !.name = n, !.edited = TRUE] /\ x7' = x7
    BY <1>16 DEF Provider!TypeName, Provider!OpenWith
  <2>2. x5' \in Provider(k)!Dialogs /\ x5'.form = "name"
    BY <2>1, Zenon DEF Provider!DialogFormed, Provider!Dialogs
  <2>. QED
    BY <2>1, <2>2 DEF Provider!DialogFormed
<1>17. CASE Provider(k)!Close
  BY <1>17, ProviderNewRequests DEF Provider!Close, Provider!OpenWith,
      Provider!DialogFormed
<1>18. CASE Provider(k)!updateProvider
  BY <1>18 DEF Provider!updateProvider, Provider!DialogFormed
<1>19. CASE UNCHANGED Provider(k)!vars
  BY <1>19 DEF Provider!vars, Provider!DialogFormed
<1>. QED
  BY <1>1, <1>2, <1>3, <1>4, <1>5, <1>6, <1>7, <1>8, <1>9, <1>10, <1>11, <1>12, <1>13, <1>14,
     <1>15, <1>16, <1>17, <1>18, <1>19 DEF Provider!Next

LEMMA ProviderSlotsKeep ==
  ASSUME NEW k \in DOMAIN ProviderPages, Provider(k)!SlotsFormed,
         x6' \in [ProviderPages[k].Slots -> Provider(k)!Requests], NEW s \in ProviderPages[k].Slots,
         x6'[s].state \in {"set", "written"} => x6'[s].op = "save",
         x6'[s].op = "load" /\ x6'[s].state = "failed" => x7',
         x7 => x7', \A t \in ProviderPages[k].Slots : t # s => x6'[t] = x6[t]
  PROVE  Provider(k)!SlotsFormed'
BY DEF Provider!SlotsFormed

LEMMA ProviderStepSlots ==
  ASSUME NEW k \in DOMAIN ProviderPages, Provider(k)!ProviderPageAssumption, Provider(k)!RowsFormed,
         Provider(k)!DialogFormed, Provider(k)!SlotsFormed, Provider(k)!Next \/ UNCHANGED Provider(k)!vars
  PROVE  Provider(k)!SlotsFormed'
<1>1. ASSUME NEW s \in ProviderPages[k].Slots, Provider(k)!ServeLoad(s) PROVE Provider(k)!SlotsFormed'
  <2>1. /\ x6' \in [ProviderPages[k].Slots -> Provider(k)!Requests] /\ x6'[s].op = "load"
             /\ x6'[s].state = "served"
        /\ \A t \in ProviderPages[k].Slots : t # s => x6'[t] = x6[t]
    BY <1>1, ProviderLoadServed
  <2>2. x7' = x7
    BY <1>1 DEF Provider!ServeLoad
  <2>. QED
    BY <2>1, <2>2, ProviderSlotsKeep
<1>2. ASSUME NEW s \in ProviderPages[k].Slots,
             Provider(k)!loadProviderProfile(s) PROVE Provider(k)!SlotsFormed'
  BY <1>2, ProviderSlotFrees, ProviderSlotsKeep, Zenon DEF Provider!loadProviderProfile, Provider!Loaded
<1>3. ASSUME NEW s \in ProviderPages[k].Slots, Provider(k)!queryAllProviders(s) PROVE Provider(k)!SlotsFormed'
  BY <1>3, ProviderSlotFrees, ProviderSlotsKeep, Zenon DEF Provider!queryAllProviders, Provider!Loaded
<1>4. ASSUME NEW s \in ProviderPages[k].Slots, Provider(k)!setProvider(s) PROVE Provider(k)!SlotsFormed'
  BY <1>4, ProviderSlotAdvances, ProviderSlotsKeep DEF Provider!setProvider
<1>5. ASSUME NEW s \in ProviderPages[k].Slots, Provider(k)!writeProvider(s) PROVE Provider(k)!SlotsFormed'
  <2>1. /\ x6' \in [ProviderPages[k].Slots -> Provider(k)!Requests] /\ x6'[s].op = "save"
        /\ \A t \in ProviderPages[k].Slots : t # s => x6'[t] = x6[t]
    BY <1>5, ProviderWriteIs
  <2>2. x7' = x7
    BY <1>5 DEF Provider!writeProvider
  <2>. QED
    BY <2>1, <2>2, ProviderSlotsKeep
<1>6. ASSUME NEW s \in ProviderPages[k].Slots,
             Provider(k)!updateWebsiteVendor(s) PROVE Provider(k)!SlotsFormed'
  BY <1>6, ProviderSlotAdvances, ProviderSlotsKeep DEF Provider!updateWebsiteVendor
<1>7. ASSUME NEW s \in ProviderPages[k].Slots, Provider(k)!Fail(s) PROVE Provider(k)!SlotsFormed'
  BY <1>7, ProviderFailIs, ProviderSlotsKeep, ZenonT(30) DEF Provider!Fail
<1>8. ASSUME NEW s \in ProviderPages[k].Slots, Provider(k)!Saved(s) PROVE Provider(k)!SlotsFormed'
  BY <1>8, ProviderSavedIs, ProviderSlotsKeep, Zenon DEF Provider!Saved
<1>9. ASSUME NEW s \in ProviderPages[k].Slots, Provider(k)!Failed(s) PROVE Provider(k)!SlotsFormed'
  BY <1>9, ProviderSlotFrees, ProviderSlotsKeep, Zenon DEF Provider!Failed
<1>10. CASE Provider(k)!editProvider
  BY <1>10 DEF Provider!editProvider, Provider!OpenWith, Provider!SlotsFormed
<1>11. CASE Provider(k)!resetUpdateProviderForm
  BY <1>11 DEF Provider!resetUpdateProviderForm, Provider!OpenWith, Provider!SlotsFormed
<1>12. CASE Provider(k)!gotoEditProviderName
  BY <1>12 DEF Provider!gotoEditProviderName, Provider!OpenWith, Provider!SlotsFormed
<1>13. CASE Provider(k)!resetProviderName
  BY <1>13 DEF Provider!resetProviderName, Provider!OpenWith, Provider!SlotsFormed
<1>14. ASSUME NEW s \in ProviderPages[k].Statuses,
              Provider(k)!bindProviderProfileEvent(s) PROVE Provider(k)!SlotsFormed'
  BY <1>14 DEF Provider!bindProviderProfileEvent, Provider!OpenWith, Provider!SlotsFormed
<1>15. ASSUME NEW w \in ProviderPages[k].Windows \cup {Provider(k)!NoWindow},
              Provider(k)!dateRangeInitial(w) PROVE Provider(k)!SlotsFormed'
  BY <1>15 DEF Provider!dateRangeInitial, Provider!OpenWith, Provider!SlotsFormed
<1>16. ASSUME NEW n \in ProviderPages[k].Names, Provider(k)!TypeName(n) PROVE Provider(k)!SlotsFormed'
  BY <1>16 DEF Provider!TypeName, Provider!OpenWith, Provider!SlotsFormed
<1>17. CASE Provider(k)!Close
  BY <1>17 DEF Provider!Close, Provider!OpenWith, Provider!SlotsFormed
<1>18. CASE Provider(k)!updateProvider
  <2>1. PICK s \in ProviderPages[k].Slots :
          /\ x6'[s].op = "save"
          /\ \A t \in ProviderPages[k].Slots : t # s => x6'[t].op = x6[t].op /\ x6'[t].state = x6[t].state
    BY <1>18, ProviderSaveIs
  <2>2. x7' = x7
    BY <1>18 DEF Provider!updateProvider
  <2>. QED
    BY <1>18, <2>1, <2>2, ProviderSaveIs DEF Provider!SlotsFormed
<1>19. CASE UNCHANGED Provider(k)!vars
  BY <1>19 DEF Provider!vars, Provider!SlotsFormed
<1>. QED
  BY <1>1, <1>2, <1>3, <1>4, <1>5, <1>6, <1>7, <1>8, <1>9, <1>10, <1>11, <1>12, <1>13, <1>14,
     <1>15, <1>16, <1>17, <1>18, <1>19 DEF Provider!Next

(* A slot without a save, or whose save goes on. *)
LEMMA ProviderSavesKeep ==
  ASSUME NEW k \in DOMAIN ProviderPages, NEW s \in ProviderPages[k].Slots,
         s \in Provider(k)!Saves' => s \in Provider(k)!Saves /\ x6'[s].from = x6[s].from,
         \A t \in ProviderPages[k].Slots : t # s => x6'[t] = x6[t]
  PROVE  \A t \in Provider(k)!Saves' : t \in Provider(k)!Saves /\ x6'[t].from = x6[t].from
BY DEF Provider!Saves, Provider!Out

LEMMA ProviderFlightKeeps ==
  ASSUME NEW k \in DOMAIN ProviderPages, x6' = x6
  PROVE  /\ Provider(k)!Saves' = Provider(k)!Saves /\ Provider(k)!Out("load")' = Provider(k)!Out("load")
              /\ Provider(k)!Out("save")' = Provider(k)!Out("save")
                   /\ Provider(k)!LoadIsDue' = Provider(k)!LoadIsDue
         /\ Provider(k)!Quiet' = Provider(k)!Quiet
BY DEF Provider!Saves, Provider!Out, Provider!LoadIsDue, Provider!Quiet

LEMMA ProviderSoundKeeps ==
  ASSUME NEW k \in DOMAIN ProviderPages, Provider(k)!SoundInv,
         ~ProviderPages[k].OnProfile => Provider(k)!Sound(x1') /\ Provider(k)!Sound(x2'),
         \A t \in Provider(k)!Saves' : t \in Provider(k)!Saves /\ x6'[t].from = x6[t].from
  PROVE  Provider(k)!SoundInv'
BY DEF Provider!SoundInv, Provider!Sound, Provider!Whole

LEMMA ProviderStepSound ==
  ASSUME NEW k \in DOMAIN ProviderPages, Provider(k)!ProviderPageAssumption, Provider(k)!RowsFormed,
         Provider(k)!DialogFormed, Provider(k)!SlotsFormed, Provider(k)!SoundInv,
           Provider(k)!Next \/ UNCHANGED Provider(k)!vars
  PROVE  Provider(k)!SoundInv'
<1>0. ~ProviderPages[k].OnProfile => Provider(k)!Sound(x1) /\ Provider(k)!Sound(x2)
  BY DEF Provider!SoundInv
<1>1. ASSUME NEW s \in ProviderPages[k].Slots, Provider(k)!ServeLoad(s) PROVE Provider(k)!SoundInv'
  <2>1. \A t \in Provider(k)!Saves' : t \in Provider(k)!Saves /\ x6'[t].from = x6[t].from
    BY <1>1, ProviderLoadServed, ProviderSavesKeep DEF Provider!Saves, Provider!Out
  <2>. QED
    BY <1>0, <1>1, <2>1, ProviderSoundKeeps, Zenon DEF Provider!ServeLoad, Provider!serverVars
<1>2. ASSUME NEW s \in ProviderPages[k].Slots, Provider(k)!Loaded(s) PROVE Provider(k)!SoundInv'
  <2>1. \A t \in Provider(k)!Saves' : t \in Provider(k)!Saves /\ x6'[t].from = x6[t].from
    <3>1. x6'[s].op = "free" /\ \A t \in ProviderPages[k].Slots : t # s => x6'[t] = x6[t]
      BY <1>2, ProviderSlotFrees, Zenon DEF Provider!Loaded
    <3>2. s \notin Provider(k)!Saves'
      BY <3>1 DEF Provider!Saves, Provider!Out
    <3>. QED
      BY <3>1, <3>2, ProviderSavesKeep
  <2>. QED
    BY <1>0, <1>2, <2>1, ProviderSoundKeeps DEF Provider!Loaded, Provider!serverVars
<1>3. ASSUME NEW s \in ProviderPages[k].Slots, Provider(k)!setProvider(s) PROVE Provider(k)!SoundInv'
  <2>1. x6[s].op = "save" /\ x6[s].state = "asked" /\ x2' = x2
    BY <1>3 DEF Provider!setProvider
  <2>2. /\ x6'[s].op = "save" /\ x6'[s].state = "set" /\ x6'[s].from = x6[s].from
        /\ \A t \in ProviderPages[k].Slots : t # s => x6'[t] = x6[t]
    BY <1>3, ProviderSlotAdvances DEF Provider!setProvider
  <2>3. s \in Provider(k)!Saves /\ \A t \in Provider(k)!Saves' :
          t \in Provider(k)!Saves /\ x6'[t].from = x6[t].from
    BY <2>1, <2>2, ProviderSavesKeep DEF Provider!Saves, Provider!Out
  <2>4. x1'.status = x6[s].from.status /\ x1'.window = x6[s].from.window
    BY <1>3 DEF Provider!setProvider, Provider!Row
  <2>5. ~ProviderPages[k].OnProfile => Provider(k)!Sound(x1')
    BY <2>3, <2>4 DEF Provider!SoundInv, Provider!Whole, Provider!Sound
  <2>. QED
    BY <1>0, <2>1, <2>3, <2>5, ProviderSoundKeeps
<1>4. ASSUME NEW s \in ProviderPages[k].Slots, Provider(k)!writeProvider(s) PROVE Provider(k)!SoundInv'
  <2>1. \A t \in Provider(k)!Saves' : t \in Provider(k)!Saves /\ x6'[t].from = x6[t].from
    <3>1. s \in Provider(k)!Saves
      BY <1>4, ProviderWriteIs, Zenon DEF Provider!writeProvider, Provider!Saves, Provider!Out
    <3>. QED
      BY <1>4, <3>1, ProviderWriteIs, ProviderSavesKeep
  <2>. QED
    BY <1>0, <1>4, <2>1, ProviderSoundKeeps, Zenon DEF Provider!writeProvider
<1>5. ASSUME NEW s \in ProviderPages[k].Slots, Provider(k)!updateWebsiteVendor(s) PROVE Provider(k)!SoundInv'
  <2>1. \A t \in Provider(k)!Saves' : t \in Provider(k)!Saves /\ x6'[t].from = x6[t].from
    <3>1. s \in Provider(k)!Saves
      BY <1>5 DEF Provider!updateWebsiteVendor, Provider!SlotsFormed, Provider!Saves,
          Provider!Out
    <3>. QED
      BY <1>5, <3>1, ProviderSlotAdvances, ProviderSavesKeep DEF
          Provider!updateWebsiteVendor
  <2>. QED
    BY <1>0, <1>5, <2>1, ProviderSoundKeeps DEF Provider!updateWebsiteVendor
<1>6. ASSUME NEW s \in ProviderPages[k].Slots, Provider(k)!Fail(s) PROVE Provider(k)!SoundInv'
  <2>1. \A t \in Provider(k)!Saves' : t \in Provider(k)!Saves /\ x6'[t].from = x6[t].from
    BY <1>6, ProviderFailIs, ProviderSavesKeep DEF Provider!Saves, Provider!Out
  <2>. QED
    BY <1>0, <1>6, <2>1, ProviderSoundKeeps DEF Provider!Fail, Provider!serverVars
<1>7. ASSUME NEW s \in ProviderPages[k].Slots, Provider(k)!Saved(s) PROVE Provider(k)!SoundInv'
  <2>1. \A t \in Provider(k)!Saves' : t \in Provider(k)!Saves /\ x6'[t].from = x6[t].from
    BY <1>7, ProviderSavedIs, ProviderSavesKeep DEF Provider!Saves, Provider!Out
  <2>. QED
    BY <1>0, <1>7, <2>1, ProviderSoundKeeps DEF Provider!Saved, Provider!serverVars
<1>8. ASSUME NEW s \in ProviderPages[k].Slots, Provider(k)!Failed(s) PROVE Provider(k)!SoundInv'
  <2>1. \A t \in Provider(k)!Saves' : t \in Provider(k)!Saves /\ x6'[t].from = x6[t].from
    <3>1. x6'[s].op = "free" /\ \A t \in ProviderPages[k].Slots : t # s => x6'[t] = x6[t]
      BY <1>8, ProviderSlotFrees, Zenon DEF Provider!Failed
    <3>2. s \notin Provider(k)!Saves'
      BY <3>1 DEF Provider!Saves, Provider!Out
    <3>. QED
      BY <3>1, <3>2, ProviderSavesKeep
  <2>. QED
    BY <1>0, <1>8, <2>1, ProviderSoundKeeps DEF Provider!Failed, Provider!serverVars
<1>9. CASE Provider(k)!Edits
  <2>1. UNCHANGED <<x1, x2, x6>>
    BY <1>9, ProviderEditIs
  <2>. QED
    BY <2>1, ProviderFlightKeeps DEF Provider!SoundInv, Provider!Sound, Provider!Whole
<1>10. CASE Provider(k)!updateProvider
  <2>1. PICK s \in ProviderPages[k].Slots :
          /\ x6'[s].from.form = x5.form /\ x6'[s].from.status = x5.status
          /\ x6'[s].from.window = x5.window
          /\ \A t \in ProviderPages[k].Slots : t # s =>
               /\ x6'[t].op = x6[t].op /\ x6'[t].state = x6[t].state
               /\ x6'[t].from.form = x6[t].from.form /\ x6'[t].from.status = x6[t].from.status
               /\ x6'[t].from.window = x6[t].from.window
    BY <1>10, ProviderSaveIs
  <2>2. \A t \in Provider(k)!Saves' : t # s => t \in Provider(k)!Saves
    BY <2>1 DEF Provider!Saves, Provider!Out
  <2>3. ~ProviderPages[k].OnProfile => x5.form = "status" /\ Provider(k)!Whole(x5)
    BY <1>10 DEF Provider!updateProvider, Provider!Valid, Provider!DialogFormed,
        Provider!Dialogs, Provider!Whole
  <2>4. UNCHANGED <<x1, x2>>
    BY <1>10 DEF Provider!updateProvider, Provider!serverVars
  <2>5. ASSUME ~ProviderPages[k].OnProfile, NEW t \in Provider(k)!Saves'
        PROVE  x6'[t].from.form = "status" /\ Provider(k)!Whole(x6'[t].from)
    <3>1. CASE t = s
      BY <2>1, <2>3, <2>5, <3>1 DEF Provider!Whole
    <3>2. CASE t # s
      <4>1. t \in ProviderPages[k].Slots /\ t \in Provider(k)!Saves
        BY <2>2, <2>5, <3>2 DEF Provider!Saves, Provider!Out
      <4>. QED
        BY <2>1, <2>5, <3>2, <4>1 DEF Provider!SoundInv, Provider!Whole
    <3>. QED
      BY <3>1, <3>2
  <2>6. ~ProviderPages[k].OnProfile => Provider(k)!Sound(x1) /\ Provider(k)!Sound(x2)
    BY DEF Provider!SoundInv
  <2>. QED
    BY <2>4, <2>5, <2>6 DEF Provider!SoundInv, Provider!Sound, Provider!Whole
<1>11. CASE UNCHANGED Provider(k)!vars
  BY <1>11, ProviderFlightKeeps DEF Provider!vars, Provider!SoundInv, Provider!Sound,
      Provider!Whole
<1>. QED
  BY <1>1, <1>2, <1>3, <1>4, <1>5, <1>6, <1>7, <1>8, <1>9, <1>10, <1>11
     DEF Provider!Next, Provider!Edits, Provider!loadProviderProfile,
         Provider!queryAllProviders

LEMMA ProviderWrittenKeeps ==
  ASSUME NEW k \in DOMAIN ProviderPages, Provider(k)!WrittenInv, NEW s \in ProviderPages[k].Slots,
         x6[s].state # "set" \/ x7',
         UNCHANGED <<x1, x2>>, x7 => x7',
         \A t \in ProviderPages[k].Slots : t # s => x6'[t] = x6[t]
  PROVE  Provider(k)!WrittenInv'
BY DEF Provider!WrittenInv

LEMMA ProviderStepWritten ==
  ASSUME NEW k \in DOMAIN ProviderPages, Provider(k)!ProviderPageAssumption, Provider(k)!RowsFormed,
         Provider(k)!DialogFormed, Provider(k)!SlotsFormed, Provider(k)!WrittenInv,
           Provider(k)!Next \/ UNCHANGED Provider(k)!vars
  PROVE  Provider(k)!WrittenInv'
<1>1. ASSUME NEW s \in ProviderPages[k].Slots, Provider(k)!ServeLoad(s) PROVE Provider(k)!WrittenInv'
  <2>1. \A t \in ProviderPages[k].Slots : t # s => x6'[t] = x6[t]
    BY <1>1, ProviderLoadServed
  <2>2. x6[s].state = "asked" /\ UNCHANGED <<x1, x2, x7>>
    BY <1>1 DEF Provider!ServeLoad, Provider!serverVars
  <2>. QED
    BY <2>1, <2>2, ProviderWrittenKeeps
<1>2. ASSUME NEW s \in ProviderPages[k].Slots, Provider(k)!Loaded(s) PROVE Provider(k)!WrittenInv'
  BY <1>2, ProviderSlotFrees, ProviderWrittenKeeps, Zenon DEF Provider!Loaded, Provider!serverVars
<1>3. ASSUME NEW s \in ProviderPages[k].Slots, Provider(k)!setProvider(s) PROVE Provider(k)!WrittenInv'
  <2>1. x6'[s].state = "set"
    BY <1>3, ProviderSlotAdvances DEF Provider!setProvider
  <2>. QED
    BY <2>1 DEF Provider!WrittenInv
<1>4. ASSUME NEW s \in ProviderPages[k].Slots, Provider(k)!writeProvider(s) PROVE Provider(k)!WrittenInv'
  BY <1>4 DEF Provider!writeProvider, Provider!WrittenInv
<1>5. ASSUME NEW s \in ProviderPages[k].Slots,
             Provider(k)!updateWebsiteVendor(s) PROVE Provider(k)!WrittenInv'
  BY <1>5, ProviderSlotAdvances, ProviderWrittenKeeps DEF Provider!updateWebsiteVendor
<1>6. ASSUME NEW s \in ProviderPages[k].Slots, Provider(k)!Fail(s) PROVE Provider(k)!WrittenInv'
  BY <1>6, ProviderFailIs, ProviderWrittenKeeps, Zenon DEF Provider!Fail, Provider!serverVars
<1>7. ASSUME NEW s \in ProviderPages[k].Slots, Provider(k)!Saved(s) PROVE Provider(k)!WrittenInv'
  BY <1>7, ProviderSavedIs, ProviderWrittenKeeps DEF Provider!Saved, Provider!serverVars
<1>8. ASSUME NEW s \in ProviderPages[k].Slots, Provider(k)!Failed(s) PROVE Provider(k)!WrittenInv'
  BY <1>8, ProviderSlotFrees, ProviderWrittenKeeps DEF Provider!Failed,
      Provider!serverVars
<1>9. CASE Provider(k)!Edits
  BY <1>9, ProviderEditIs DEF Provider!WrittenInv
<1>10. CASE Provider(k)!updateProvider
  <2>1. \A t \in ProviderPages[k].Slots : x6'[t].state # "set" => x6[t].state # "set"
    BY <1>10, ProviderSaveIs
  <2>. QED
    BY <1>10, <2>1, Zenon DEF Provider!updateProvider, Provider!serverVars, Provider!WrittenInv
<1>11. CASE UNCHANGED Provider(k)!vars
  BY <1>11 DEF Provider!vars, Provider!WrittenInv
<1>. QED
  BY <1>1, <1>2, <1>3, <1>4, <1>5, <1>6, <1>7, <1>8, <1>9, <1>10, <1>11
     DEF Provider!Next, Provider!Edits, Provider!loadProviderProfile,
         Provider!queryAllProviders

LEMMA ProviderTakenKeepsFresh ==
  ASSUME NEW k \in DOMAIN ProviderPages, NEW s \in ProviderPages[k].Slots, x6'[s].op = "save",
         x6'[s].state \in {"set", "written", "served"}
  PROVE  Provider(k)!FreshInv'
<1>1. s \in Provider(k)!Out("save")'
  BY DEF Provider!Out
<1>2. Provider(k)!LoadIsDue'
  BY <1>1 DEF Provider!LoadIsDue
<1>. QED
  BY <1>2 DEF Provider!FreshInv

(* No load comes or goes, nor a save that was taken. *)
LEMMA ProviderOtherKeepsFresh ==
  ASSUME NEW k \in DOMAIN ProviderPages, Provider(k)!FreshInv, UNCHANGED <<x2, x4>>, x7 => x7',
         Provider(k)!Out("load")' = Provider(k)!Out("load"),
         \A t \in Provider(k)!Out("load") : x6'[t].state = x6[t].state /\ x6'[t].data = x6[t].data,
         Provider(k)!LoadIsDue => Provider(k)!LoadIsDue'
  PROVE  Provider(k)!FreshInv'
<1>1. \A t \in ProviderPages[k].Slots : Provider(k)!Out("load") = {t} => t \in Provider(k)!Out("load")
  OBVIOUS
<1>. QED
  BY <1>1 DEF Provider!FreshInv

LEMMA ProviderStepFresh ==
  ASSUME NEW k \in DOMAIN ProviderPages, Provider(k)!ProviderPageAssumption, Provider(k)!RowsFormed,
         Provider(k)!DialogFormed, Provider(k)!SlotsFormed, Provider(k)!WrittenInv, Provider(k)!FreshInv,
           Provider(k)!Next \/ UNCHANGED Provider(k)!vars
  PROVE  Provider(k)!FreshInv'
<1>1. ASSUME NEW s \in ProviderPages[k].Slots, Provider(k)!ServeLoad(s) PROVE Provider(k)!FreshInv'
  <2>. SUFFICES ASSUME ~x7', ~Provider(k)!LoadIsDue'
                PROVE  Provider(k)!FreshInv'
    BY DEF Provider!FreshInv
  <2>1. /\ x6[s].op = "load" /\ x6'[s].op = "load"
        /\ x6'[s].data = IF ProviderPages[k].OnProfile THEN x1 ELSE x2
        /\ \A t \in ProviderPages[k].Slots : t # s => x6'[t] = x6[t]
    BY <1>1, ProviderLoadServed
  <2>2. x6[s].state = "asked" /\ UNCHANGED <<x1, x2, x4, x7>>
    BY <1>1 DEF Provider!ServeLoad, Provider!serverVars
  <2>3. \A t \in Provider(k)!Out("save") : t \in Provider(k)!Out("save")' /\ x6'[t] = x6[t]
    BY <2>1 DEF Provider!Out
  <2>4. ~Provider(k)!LoadIsDue
    BY <2>3 DEF Provider!LoadIsDue
  <2>5. \A t \in ProviderPages[k].Slots : x6[t].state # "set"
    BY <2>4 DEF Provider!LoadIsDue, Provider!Out, Provider!SlotsFormed
  <2>6. x1 = x2
    BY <2>2, <2>5 DEF Provider!WrittenInv
  <2>7. s \in Provider(k)!Out("load")' /\ x6'[s].data = x2'
    BY <2>1, <2>2, <2>6 DEF Provider!Out
  <2>. QED
    BY <2>7 DEF Provider!FreshInv
<1>2. ASSUME NEW s \in ProviderPages[k].Slots, Provider(k)!Loaded(s) PROVE Provider(k)!FreshInv'
  <2>. SUFFICES ASSUME ~x7', ~Provider(k)!LoadIsDue'
                PROVE  Provider(k)!FreshInv'
    BY DEF Provider!FreshInv
  <2>1. /\ x6[s].op = "load" /\ x6[s].state = "served" /\ x6' = [x6 EXCEPT ![s] = Provider(k)!Free]
        /\ x7' = (x7 \/ Provider(k)!Out("load") # {s}) /\ x2' = x2 /\ x4' = {x6[s].data}
    BY <1>2 DEF Provider!Loaded, Provider!serverVars
  <2>2. x6'[s].op = "free" /\ \A t \in ProviderPages[k].Slots : t # s => x6'[t] = x6[t]
    BY <2>1, ProviderSlotFrees, Zenon
  <2>3. Provider(k)!Out("load") = {s} /\ ~x7
    BY <2>1, Zenon
  <2>4. \A t \in Provider(k)!Out("save") : t \in Provider(k)!Out("save")' /\ x6'[t] = x6[t]
    BY <2>1, <2>2 DEF Provider!Out
  <2>5. ~Provider(k)!LoadIsDue
    BY <2>4 DEF Provider!LoadIsDue
  <2>6. x6[s].data = x2
    BY <2>1, <2>3, <2>5 DEF Provider!FreshInv
  <2>7. Provider(k)!Out("load")' = {}
    BY <2>2, <2>3 DEF Provider!Out
  <2>. QED
    BY <2>1, <2>6, <2>7 DEF Provider!FreshInv
<1>3. ASSUME NEW s \in ProviderPages[k].Slots, Provider(k)!setProvider(s) PROVE Provider(k)!FreshInv'
  <2>1. x6'[s].op = "save" /\ x6'[s].state = "set"
    BY <1>3, ProviderSlotAdvances DEF Provider!setProvider
  <2>. QED
    BY <2>1, ProviderTakenKeepsFresh
<1>4. ASSUME NEW s \in ProviderPages[k].Slots, Provider(k)!writeProvider(s) PROVE Provider(k)!FreshInv'
  BY <1>4, ProviderWriteIs, ProviderTakenKeepsFresh
<1>5. ASSUME NEW s \in ProviderPages[k].Slots, Provider(k)!updateWebsiteVendor(s) PROVE Provider(k)!FreshInv'
  <2>1. x6'[s].op = "save" /\ x6'[s].state = "served"
    BY <1>5, ProviderSlotAdvances DEF Provider!updateWebsiteVendor, Provider!SlotsFormed
  <2>. QED
    BY <2>1, ProviderTakenKeepsFresh
<1>6. ASSUME NEW s \in ProviderPages[k].Slots, Provider(k)!Fail(s) PROVE Provider(k)!FreshInv'
  <2>1. /\ x6'[s].op = x6[s].op /\ x6'[s].state = "failed"
        /\ \A t \in ProviderPages[k].Slots : t # s => x6'[t] = x6[t]
    BY <1>6, ProviderFailIs
  <2>2. /\ UNCHANGED <<x2, x4>>
        /\ x7' = (x7 \/ x6[s].op = "load" \/ x6[s].state # "asked")
    BY <1>6 DEF Provider!Fail, Provider!serverVars
  <2>3. CASE x7'
    BY <2>3 DEF Provider!FreshInv
  <2>4. CASE ~x7'
    <3>1. x6[s].op # "load" /\ x6[s].state = "asked" /\ ~x7
      BY <2>2, <2>4, Zenon
    <3>2. Provider(k)!Out("load")' = Provider(k)!Out("load") /\ \A t \in Provider(k)!Out("load") :
            x6'[t] = x6[t]
      BY <2>1, <3>1 DEF Provider!Out
    <3>3. Provider(k)!LoadIsDue => Provider(k)!LoadIsDue'
      BY <2>1, <3>1 DEF Provider!LoadIsDue, Provider!Out
    <3>. QED
      BY <2>2, <2>4, <3>1, <3>2, <3>3, ProviderOtherKeepsFresh
  <2>. QED
    BY <2>3, <2>4
<1>7. ASSUME NEW s \in ProviderPages[k].Slots, Provider(k)!Saved(s) PROVE Provider(k)!FreshInv'
  <2>1. x6'[s].op = "load" /\ x6'[s].state = "asked"
    BY <1>7, ProviderSavedIs
  <2>2. s \in Provider(k)!Out("load")'
    BY <2>1 DEF Provider!Out
  <2>. QED
    BY <2>1, <2>2 DEF Provider!FreshInv
<1>8. ASSUME NEW s \in ProviderPages[k].Slots, Provider(k)!Failed(s) PROVE Provider(k)!FreshInv'
  <2>1. /\ x6[s].state = "failed" /\ UNCHANGED <<x2, x4, x7>>
        /\ x6' = [x6 EXCEPT ![s] = Provider(k)!Free]
    BY <1>8 DEF Provider!Failed, Provider!serverVars
  <2>2. x6'[s].op = "free" /\ \A t \in ProviderPages[k].Slots : t # s => x6'[t] = x6[t]
    BY <2>1, ProviderSlotFrees, Zenon
  <2>3. CASE x7
    BY <2>1, <2>3 DEF Provider!FreshInv
  <2>4. CASE ~x7
    <3>1. x6[s].op # "load"
      BY <2>1, <2>4 DEF Provider!SlotsFormed
    <3>2. Provider(k)!Out("load")' = Provider(k)!Out("load") /\ \A t \in Provider(k)!Out("load") :
            x6'[t] = x6[t]
      BY <2>2, <3>1 DEF Provider!Out
    <3>3. Provider(k)!LoadIsDue => Provider(k)!LoadIsDue'
      BY <2>1, <2>2 DEF Provider!LoadIsDue, Provider!Out
    <3>. QED
      BY <2>1, <3>2, <3>3, ProviderOtherKeepsFresh
  <2>. QED
    BY <2>3, <2>4
<1>9. CASE Provider(k)!Edits
  BY <1>9, ProviderEditIs, ProviderFlightKeeps DEF Provider!FreshInv
<1>10. CASE Provider(k)!updateProvider
  <2>1. PICK s \in ProviderPages[k].Slots :
          /\ x6[s].op = "free" /\ x6'[s].op = "save"
          /\ \A t \in ProviderPages[k].Slots : t # s =>
               /\ x6'[t].op = x6[t].op /\ x6'[t].state = x6[t].state
               /\ x6'[t].data = x6[t].data
    BY <1>10, ProviderSaveIs
  <2>2. Provider(k)!Out("load")' = Provider(k)!Out("load")
    BY <2>1 DEF Provider!Out
  <2>3. \A t \in Provider(k)!Out("load") : x6'[t].state = x6[t].state /\ x6'[t].data = x6[t].data
    BY <2>1 DEF Provider!Out
  <2>4. \A t \in Provider(k)!Out("save") : t \in Provider(k)!Out("save")' /\ x6'[t].state = x6[t].state
    BY <2>1 DEF Provider!Out
  <2>5. Provider(k)!LoadIsDue => Provider(k)!LoadIsDue'
    BY <2>4 DEF Provider!LoadIsDue
  <2>6. UNCHANGED <<x2, x4, x7>>
    BY <1>10 DEF Provider!updateProvider, Provider!serverVars
  <2>. QED
    BY <2>2, <2>3, <2>5, <2>6, ProviderOtherKeepsFresh
<1>11. CASE UNCHANGED Provider(k)!vars
  BY <1>11, ProviderFlightKeeps DEF Provider!vars, Provider!FreshInv
<1>. QED
  BY <1>1, <1>2, <1>3, <1>4, <1>5, <1>6, <1>7, <1>8, <1>9, <1>10, <1>11
     DEF Provider!Next, Provider!Edits, Provider!loadProviderProfile,
         Provider!queryAllProviders

(* The row is left as it is, and no save comes or changes. *)
LEMMA ProviderSavesKeepForms ==
  ASSUME NEW k \in DOMAIN ProviderPages, UNCHANGED <<x1, x2>>, x7 => x7',
         \A t \in Provider(k)!Saves' : t \in Provider(k)!Saves /\ x6'[t].from = x6[t].from
  PROVE  /\ Provider(k)!DialogInv /\ x5' = x5 => Provider(k)!DialogInv'
         /\ Provider(k)!SaveInv => Provider(k)!SaveInv'
BY DEF Provider!DialogInv, Provider!SaveInv, Provider!FreshForm, Provider!IsRow

(* What a save of the row as it is leaves. *)
LEMMA ProviderSetIs ==
  ASSUME NEW k \in DOMAIN ProviderPages, Provider(k)!RowsFormed, NEW s \in ProviderPages[k].Slots,
         Provider(k)!setProvider(s), x1 = x2, Provider(k)!IsRow(x6[s].from)
  PROVE  x1' = x2 /\ x2' = x2
<1>1. x1' = Provider(k)!Row(x2.name, x2.status, x2.window) /\ x2' = x2
  BY DEF Provider!setProvider, Provider!IsRow
<1>2. x2 \in Provider(k)!ProviderRows
  BY DEF Provider!RowsFormed
<1>. QED
  BY <1>1, <1>2 DEF Provider!Row, Provider!ProviderRows

LEMMA ProviderStepForms ==
  ASSUME NEW k \in DOMAIN ProviderPages, Provider(k)!ProviderPageAssumption, Provider(k)!IInv,
         Provider(k)!Next \/ UNCHANGED Provider(k)!vars
  PROVE  Provider(k)!DialogInv' /\ Provider(k)!SaveInv'
<1>. USE DEF Provider!IInv
<1>1. ASSUME NEW s \in ProviderPages[k].Slots,
             Provider(k)!ServeLoad(s) PROVE Provider(k)!DialogInv' /\ Provider(k)!SaveInv'
  <2>1. \A t \in Provider(k)!Saves' : t \in Provider(k)!Saves /\ x6'[t].from = x6[t].from
    BY <1>1, ProviderLoadServed, ProviderSavesKeep DEF Provider!Saves, Provider!Out
  <2>. QED
    BY <1>1, <2>1, ProviderSavesKeepForms, Zenon DEF Provider!ServeLoad, Provider!serverVars
<1>2. ASSUME NEW s \in ProviderPages[k].Slots,
             Provider(k)!Loaded(s) PROVE Provider(k)!DialogInv' /\ Provider(k)!SaveInv'
  <2>1. \A t \in Provider(k)!Saves' : t \in Provider(k)!Saves /\ x6'[t].from = x6[t].from
    <3>1. x6'[s].op = "free" /\ \A t \in ProviderPages[k].Slots : t # s => x6'[t] = x6[t]
      BY <1>2, ProviderSlotFrees, Zenon DEF Provider!Loaded
    <3>2. s \notin Provider(k)!Saves'
      BY <3>1 DEF Provider!Saves, Provider!Out
    <3>. QED
      BY <3>1, <3>2, ProviderSavesKeep
  <2>. QED
    BY <1>2, <2>1, ProviderSavesKeepForms, Zenon DEF Provider!Loaded, Provider!serverVars
<1>3. ASSUME NEW s \in ProviderPages[k].Slots,
             Provider(k)!setProvider(s) PROVE Provider(k)!DialogInv' /\ Provider(k)!SaveInv'
  <2>1. x6[s].op = "save" /\ x6[s].state = "asked" /\ UNCHANGED <<x2, x5, x7>>
    BY <1>3 DEF Provider!setProvider
  <2>2. /\ x6'[s].op = "save" /\ x6'[s].state = "set" /\ x6'[s].from = x6[s].from
        /\ \A t \in ProviderPages[k].Slots : t # s => x6'[t] = x6[t]
    BY <1>3, ProviderSlotAdvances DEF Provider!setProvider
  <2>3. s \in Provider(k)!Saves /\ \A t \in Provider(k)!Saves' :
          t \in Provider(k)!Saves /\ x6'[t].from = x6[t].from
    BY <2>1, <2>2, ProviderSavesKeep DEF Provider!Saves, Provider!Out
  <2>4. Provider(k)!DialogInv'
    <3>. SUFFICES ASSUME ~x7, Provider(k)!FreshForm(x5)
                  PROVE  Provider(k)!DialogInv'
      BY <2>1 DEF Provider!DialogInv
    <3>1. x1 = x2 /\ Provider(k)!IsRow(x5) /\ \A t \in Provider(k)!Saves : Provider(k)!IsRow(x6[t].from)
      BY DEF Provider!DialogInv
    <3>2. x1' = x2
      BY <1>3, <2>3, <3>1, ProviderSetIs
    <3>. QED
      BY <2>1, <2>3, <3>1, <3>2 DEF Provider!DialogInv, Provider!IsRow
  <2>5. Provider(k)!SaveInv'
    <3>. SUFFICES ASSUME ~x7, NEW t \in Provider(k)!Saves', Provider(k)!FreshForm(x6'[t].from)
                  PROVE  /\ x1' = x2' /\ Provider(k)!IsRow(x6[t].from) /\ \A u \in Provider(k)!Saves' : u = t
      BY <2>1, <2>3 DEF Provider!SaveInv, Provider!IsRow
    <3>1. t \in Provider(k)!Saves /\ Provider(k)!FreshForm(x6[t].from)
      BY <2>3
    <3>2. x1 = x2 /\ Provider(k)!IsRow(x6[t].from) /\ \A u \in Provider(k)!Saves : u = t
      BY <3>1 DEF Provider!SaveInv
    <3>3. s = t
      BY <2>3, <3>2
    <3>4. x1' = x2
      BY <1>3, <3>2, <3>3, ProviderSetIs
    <3>. QED
      BY <2>1, <2>3, <3>2, <3>4
  <2>. QED
    BY <2>4, <2>5
<1>4. ASSUME NEW s \in ProviderPages[k].Slots,
             Provider(k)!writeProvider(s) PROVE Provider(k)!DialogInv' /\ Provider(k)!SaveInv'
  <2>1. s \in Provider(k)!Saves /\ UNCHANGED <<x1, x5, x7>> /\ x2' = x1
    BY <1>4, ProviderWriteIs, Zenon DEF Provider!writeProvider, Provider!Saves, Provider!Out
  <2>2. \A t \in Provider(k)!Saves' : t \in Provider(k)!Saves /\ x6'[t].from = x6[t].from
    BY <1>4, <2>1, ProviderWriteIs, ProviderSavesKeep
  <2>3. CASE x1 = x2
    BY <2>1, <2>2, <2>3, ProviderSavesKeepForms
  <2>4. CASE x1 # x2
    <3>1. x7 \/ ~Provider(k)!FreshForm(x5)
      BY <2>4 DEF Provider!DialogInv
    <3>2. x7 \/ \A t \in Provider(k)!Saves : ~Provider(k)!FreshForm(x6[t].from)
      BY <2>4 DEF Provider!SaveInv
    <3>. QED
      BY <2>1, <2>2, <3>1, <3>2 DEF Provider!DialogInv, Provider!SaveInv
  <2>. QED
    BY <2>3, <2>4
<1>5. ASSUME NEW s \in ProviderPages[k].Slots,
             Provider(k)!updateWebsiteVendor(s) PROVE Provider(k)!DialogInv' /\ Provider(k)!SaveInv'
  <2>1. s \in Provider(k)!Saves
    BY <1>5 DEF Provider!updateWebsiteVendor, Provider!SlotsFormed, Provider!Saves,
        Provider!Out
  <2>2. \A t \in Provider(k)!Saves' : t \in Provider(k)!Saves /\ x6'[t].from = x6[t].from
    BY <1>5, <2>1, ProviderSlotAdvances, ProviderSavesKeep DEF
        Provider!updateWebsiteVendor
  <2>. QED
    BY <1>5, <2>2, ProviderSavesKeepForms DEF Provider!updateWebsiteVendor
<1>6. ASSUME NEW s \in ProviderPages[k].Slots,
             Provider(k)!Fail(s) PROVE Provider(k)!DialogInv' /\ Provider(k)!SaveInv'
  <2>1. \A t \in Provider(k)!Saves' : t \in Provider(k)!Saves /\ x6'[t].from = x6[t].from
    BY <1>6, ProviderFailIs, ProviderSavesKeep DEF Provider!Saves, Provider!Out
  <2>. QED
    BY <1>6, <2>1, ProviderSavesKeepForms, Zenon DEF Provider!Fail, Provider!serverVars
<1>7. ASSUME NEW s \in ProviderPages[k].Slots,
             Provider(k)!Saved(s) PROVE Provider(k)!DialogInv' /\ Provider(k)!SaveInv'
  <2>1. \A t \in Provider(k)!Saves' : t \in Provider(k)!Saves /\ x6'[t].from = x6[t].from
    BY <1>7, ProviderSavedIs, ProviderSavesKeep DEF Provider!Saves, Provider!Out
  <2>2. Provider(k)!SaveInv'
    BY <1>7, <2>1, ProviderSavesKeepForms DEF Provider!Saved, Provider!serverVars
  <2>3. x5'.form = "none"
    BY <1>7, ProviderNewRequests DEF Provider!Saved
  <2>. QED
    BY <2>2, <2>3 DEF Provider!DialogInv, Provider!FreshForm
<1>8. ASSUME NEW s \in ProviderPages[k].Slots,
             Provider(k)!Failed(s) PROVE Provider(k)!DialogInv' /\ Provider(k)!SaveInv'
  <2>1. \A t \in Provider(k)!Saves' : t \in Provider(k)!Saves /\ x6'[t].from = x6[t].from
    <3>1. x6'[s].op = "free" /\ \A t \in ProviderPages[k].Slots : t # s => x6'[t] = x6[t]
      BY <1>8, ProviderSlotFrees, Zenon DEF Provider!Failed
    <3>2. s \notin Provider(k)!Saves'
      BY <3>1 DEF Provider!Saves, Provider!Out
    <3>. QED
      BY <3>1, <3>2, ProviderSavesKeep
  <2>. QED
    BY <1>8, <2>1, ProviderSavesKeepForms DEF Provider!Failed, Provider!serverVars
<1>9. CASE Provider(k)!Edits
  <2>1. UNCHANGED <<x1, x2, x4, x6, x7>>
    BY <1>9, ProviderEditIs
  <2>2. Provider(k)!SaveInv'
    BY <2>1, ProviderFlightKeeps DEF Provider!SaveInv, Provider!FreshForm, Provider!IsRow
  <2>3. ASSUME ~Provider(k)!FreshForm(x5') PROVE Provider(k)!DialogInv'
    BY <2>3 DEF Provider!DialogInv, Provider!FreshForm
  <2>4. ASSUME NEW p \in x4, x5' = Provider(k)!StatusForm(p), Provider(k)!FreshForm(x5')
        PROVE  Provider(k)!DialogInv'
    <3>1. p \in Provider(k)!ProviderRows
      BY DEF Provider!RowsFormed
    <3>2. Provider(k)!Quiet /\ ~x7 /\ Provider(k)!Sound(p)
      BY <2>4, <3>1, ProviderFormsAre DEF Provider!FreshForm
    <3>3. \A t \in ProviderPages[k].Slots : x6[t].op = "free" /\ x6[t].state = "free"
      BY <3>2, ProviderNewRequests DEF Provider!Quiet
    <3>4. Provider(k)!Out("load") = {} /\ ~Provider(k)!LoadIsDue /\ Provider(k)!Saves = {}
      BY <3>3 DEF Provider!Out, Provider!LoadIsDue, Provider!Saves
    <3>5. p = x2 /\ x1 = x2
      BY <3>2, <3>3, <3>4 DEF Provider!FreshInv, Provider!WrittenInv
    <3>6. Provider(k)!WindowShown(x2) = x2.window
      BY <3>2, <3>5 DEF Provider!WindowShown, Provider!Sound
    <3>7. Provider(k)!IsRow(x5')
      BY <2>4, <3>1, <3>5, <3>6, ProviderFormsAre DEF Provider!IsRow
    <3>. QED
      BY <2>1, <3>4, <3>5, <3>7, ProviderFlightKeeps DEF Provider!DialogInv,
          Provider!IsRow
  <2>. QED
    BY <1>9, <2>2, <2>3, <2>4, ProviderEditIs
<1>10. CASE Provider(k)!updateProvider
  <2>1. PICK s \in ProviderPages[k].Slots :
          /\ x6'[s].from.form = x5.form /\ x6'[s].from.status = x5.status
          /\ x6'[s].from.window = x5.window /\ x6'[s].from.edited = x5.edited
          /\ x6'[s].from.fresh => x5.fresh /\ Provider(k)!Quiet
          /\ \A t \in ProviderPages[k].Slots : t # s =>
               /\ x6'[t].op = x6[t].op /\ x6'[t].state = x6[t].state
               /\ x6'[t].from.form = x6[t].from.form /\ x6'[t].from.status = x6[t].from.status
               /\ x6'[t].from.window = x6[t].from.window /\ ~x6'[t].from.fresh
    BY <1>10, ProviderSaveIs
  <2>2. \A t \in Provider(k)!Saves' : t # s => t \in Provider(k)!Saves
    BY <2>1 DEF Provider!Saves, Provider!Out
  <2>3. \A t \in Provider(k)!Saves' : t \in ProviderPages[k].Slots
    BY DEF Provider!Saves, Provider!Out
  <2>4. UNCHANGED <<x1, x2, x5, x7>>
    BY <1>10 DEF Provider!updateProvider, Provider!serverVars
  <2>5. Provider(k)!DialogInv'
    <3>. SUFFICES ASSUME ~x7, Provider(k)!FreshForm(x5)
                  PROVE  Provider(k)!DialogInv'
      BY <2>4 DEF Provider!DialogInv
    <3>1. x1 = x2 /\ Provider(k)!IsRow(x5) /\ \A t \in Provider(k)!Saves : Provider(k)!IsRow(x6[t].from)
      BY DEF Provider!DialogInv
    <3>2. \A t \in Provider(k)!Saves' : Provider(k)!IsRow(x6'[t].from)
      BY <2>1, <2>2, <2>3, <3>1 DEF Provider!IsRow
    <3>. QED
      BY <2>4, <3>1, <3>2 DEF Provider!DialogInv, Provider!IsRow
  <2>6. Provider(k)!SaveInv'
    <3>. SUFFICES ASSUME ~x7, NEW t \in Provider(k)!Saves', Provider(k)!FreshForm(x6'[t].from)
                  PROVE  x1' = x2' /\ Provider(k)!IsRow(x6'[t].from) /\ \A u \in Provider(k)!Saves' : u = t
      BY <2>4 DEF Provider!SaveInv, Provider!IsRow
    <3>1. t = s
      BY <2>1, <2>3 DEF Provider!FreshForm
    <3>2. Provider(k)!FreshForm(x5) /\ Provider(k)!Quiet
      BY <2>1, <3>1 DEF Provider!FreshForm
    <3>3. x1 = x2 /\ Provider(k)!IsRow(x5)
      BY <3>2 DEF Provider!DialogInv
    <3>4. Provider(k)!Saves = {}
      BY <3>2, ProviderNewRequests DEF Provider!Quiet, Provider!Saves, Provider!Out
    <3>. QED
      BY <2>1, <2>2, <2>4, <3>1, <3>3, <3>4 DEF Provider!IsRow
  <2>. QED
    BY <2>5, <2>6
<1>11. CASE UNCHANGED Provider(k)!vars
  BY <1>11, ProviderFlightKeeps DEF Provider!vars, Provider!DialogInv, Provider!SaveInv,
      Provider!FreshForm, Provider!IsRow
<1>. QED
  BY <1>1, <1>2, <1>3, <1>4, <1>5, <1>6, <1>7, <1>8, <1>9, <1>10, <1>11
     DEF Provider!Next, Provider!Edits, Provider!loadProviderProfile,
         Provider!queryAllProviders

LEMMA ProviderInitIInv ==
  ASSUME NEW k \in DOMAIN ProviderPages, Provider(k)!ProviderPageAssumption, Provider(k)!Init
  PROVE  Provider(k)!IInv
<1>1. PICK n \in ProviderPages[k].Names \ ProviderPages[k].LongNames, st \in ProviderPages[k].Statuses,
             w \in ProviderPages[k].Windows \cup {Provider(k)!NoWindow} :
        Provider(k)!Sound(Provider(k)!Row(n, st, w)) /\ x2 = Provider(k)!Row(n, st, w)
  BY DEF Provider!Init
<1>2. x2 \in Provider(k)!ProviderRows /\ Provider(k)!Sound(x2) /\ x1 = x2
  BY <1>1 DEF Provider!Init, Provider!Row, Provider!ProviderRows
<1>3. Provider(k)!RowsFormed
  BY <1>2 DEF Provider!Init, Provider!RowsFormed
<1>4. Provider(k)!DialogFormed
  BY ProviderNewRequests, Zenon DEF Provider!Init, Provider!DialogFormed
<1>5. PICK s \in ProviderPages[k].Slots :
             x6 = [t \in ProviderPages[k].Slots |-> IF t = s THEN Provider(k)!Ask("load", Provider(k)!NoForm)
               ELSE Provider(k)!Free]
  BY DEF Provider!Init
<1>6. x6[s] = Provider(k)!Ask("load", Provider(k)!NoForm) /\ \A t \in ProviderPages[k].Slots :
        t # s => x6[t] = Provider(k)!Free
  BY <1>5
<1>7. Provider(k)!SlotsFormed
  BY <1>5, <1>6, ProviderNewRequests DEF Provider!SlotsFormed
<1>8. s \in Provider(k)!Out("load") /\ x6[s].state = "asked" /\ Provider(k)!Saves = {}
  BY <1>6, ProviderNewRequests DEF Provider!Out, Provider!Saves
<1>9. Provider(k)!SoundInv /\ Provider(k)!WrittenInv
  BY <1>2, <1>8 DEF Provider!SoundInv, Provider!WrittenInv
<1>10. Provider(k)!FreshInv
  BY <1>8 DEF Provider!FreshInv
<1>11. Provider(k)!DialogInv /\ Provider(k)!SaveInv
  BY <1>8, ProviderNewRequests DEF Provider!Init, Provider!DialogInv, Provider!SaveInv,
      Provider!FreshForm
<1>. QED
  BY <1>3, <1>4, <1>7, <1>9, <1>10, <1>11 DEF Provider!IInv

LEMMA ProviderNextIInv ==
  ASSUME NEW k \in DOMAIN ProviderPages, Provider(k)!ProviderPageAssumption, Provider(k)!IInv,
         Provider(k)!Next \/ UNCHANGED Provider(k)!vars
  PROVE  Provider(k)!IInv' /\ Provider(k)!UneditedSaveKeeps
<1>1. ASSUME NEW s \in ProviderPages[k].Slots, Provider(k)!FreshForm(x6[s].from), ~x7,
             Provider(k)!writeProvider(s)
      PROVE  x2' = x2
  <2>1. s \in Provider(k)!Saves /\ x2' = x1
    BY <1>1, ProviderWriteIs, Zenon DEF Provider!IInv, Provider!writeProvider, Provider!Saves, Provider!Out
  <2>. QED
    BY <1>1, <2>1 DEF Provider!IInv, Provider!SaveInv
<1>2. Provider(k)!UneditedSaveKeeps
  BY <1>1 DEF Provider!UneditedSaveKeeps, Provider!FreshForm
<1>. QED
  BY <1>2, ProviderStepRows, ProviderStepDialogs, ProviderStepSlots, ProviderStepSound, ProviderStepWritten,
     ProviderStepFresh, ProviderStepForms DEF
      Provider!IInv

LEMMA ProviderIInvImplies ==
  ASSUME NEW k \in DOMAIN ProviderPages, Provider(k)!ProviderPageAssumption, Provider(k)!IInv
  PROVE  Provider(k)!TypeOK /\ Provider(k)!QuietPageIsFresh /\ Provider(k)!WindowWhileInMaintenance
<1>1. Provider(k)!TypeOK
  BY DEF Provider!IInv, Provider!RowsFormed, Provider!DialogFormed, Provider!SlotsFormed,
      Provider!TypeOK, Provider!ProviderRows, Provider!Dialogs, Provider!Requests
<1>2. Provider(k)!Quiet => Provider(k)!Out("load") = {} /\ ~Provider(k)!LoadIsDue
  BY ProviderNewRequests DEF Provider!Quiet, Provider!Out, Provider!LoadIsDue
<1>3. Provider(k)!QuietPageIsFresh
  BY <1>2 DEF Provider!IInv, Provider!FreshInv, Provider!QuietPageIsFresh
<1>4. Provider(k)!WindowWhileInMaintenance
  BY DEF Provider!IInv, Provider!SoundInv, Provider!WindowWhileInMaintenance
<1>. QED
  BY <1>1, <1>3, <1>4

(* The invariant of the pages of this script. *)
ProviderInv == \A k \in On("provider", ProviderPages) : Provider(k)!IInv

LEMMA ProviderBegins ==
  ASSUME SiteInit
  PROVE  ProviderInv
<1>. SUFFICES ASSUME NEW k \in On("provider", ProviderPages)
         PROVE  Provider(k)!IInv
  BY DEF ProviderInv
<1>1. k \in DOMAIN ProviderPages /\ script = "provider" /\ page = k
  BY DEF On
<1>2. Provider(k)!Init
  BY <1>1 DEF SiteInit
<1>3. Provider(k)!ProviderPageAssumption
  BY <1>1, SitePagesAreSound DEF SitePagesAssumption
<1>. QED
  BY <1>1, <1>2, ProviderInitIInv, <1>3

LEMMA ProviderGoesOn ==
  ASSUME ProviderInv, SiteStep
  PROVE  /\ ProviderInv'
         /\ \A k \in On("provider", ProviderPages) : Provider(k)!UneditedSaveKeeps
<1>1. script' = script /\ page' = page
  BY SiteStays
<1>2. ASSUME NEW k \in On("provider", ProviderPages)
      PROVE  Provider(k)!IInv' /\ Provider(k)!UneditedSaveKeeps
  <2>1. k \in DOMAIN ProviderPages /\ script = "provider" /\ page = k
    BY DEF On
  <2>2. Provider(k)!Next \/ UNCHANGED Provider(k)!vars
    BY <2>1 DEF SiteStep, SiteNext, On, vars, Provider!vars
  <2>3. Provider(k)!ProviderPageAssumption
    BY <2>1, SitePagesAreSound DEF SitePagesAssumption
  <2>4. Provider(k)!IInv
    BY DEF ProviderInv
  <2>. QED
    BY <2>1, <2>2, ProviderNextIInv, <2>3, <2>4
<1>3. On("provider", ProviderPages)' = On("provider", ProviderPages)
  BY <1>1 DEF On
<1>. QED
  BY <1>2, <1>3 DEF ProviderInv

LEMMA ProviderShows ==
  ASSUME ProviderInv
  PROVE  /\ \A k \in On("provider", ProviderPages) : Provider(k)!TypeOK
         /\ \A k \in On("provider", ProviderPages) : Provider(k)!QuietPageIsFresh
         /\ \A k \in On("provider", ProviderPages) : Provider(k)!WindowWhileInMaintenance
<1>. SUFFICES ASSUME NEW k \in On("provider", ProviderPages)
         PROVE  Provider(k)!TypeOK /\ Provider(k)!QuietPageIsFresh /\ Provider(k)!WindowWhileInMaintenance
  OBVIOUS
<1>1. k \in DOMAIN ProviderPages /\ Provider(k)!IInv
  BY DEF On, ProviderInv
<1>2. Provider(k)!ProviderPageAssumption
  BY <1>1, SitePagesAreSound DEF SitePagesAssumption
<1>. QED
  BY <1>1, ProviderIInvImplies, <1>2

-----------------------------------------------------------------------------
(***************************************************************************)
(* SidebarMenu (Menu): x1 is asked, x2 is timers, x3 is nav, x4 is         *)
(* handlers, x5 is open, x6 is wanted, x7 is dividers, x8 is moves, x9 is  *)
(* pressed, x10 is width, x11 is refreshes, x12 is raced.                  *)
(***************************************************************************)
LEMMA MenuTailIs ==
  ASSUME NEW k \in DOMAIN MenuBars, NEW S, NEW t \in Seq(S), t # <<>>
  PROVE  /\ Tail(t) \in Seq(S) /\ Len(t) \in Nat /\ Len(t) > 0
         /\ Len(Tail(t)) = Len(t) - 1 /\ Head(t) = t[1]
         /\ DOMAIN t = 1..Len(t) /\ DOMAIN Tail(t) = 1..Len(Tail(t))
         /\ \A i \in DOMAIN Tail(t) : i + 1 \in DOMAIN t /\ Tail(t)[i] = t[i + 1]
OBVIOUS

LEMMA MenuAppendIs ==
  ASSUME NEW k \in DOMAIN MenuBars, NEW S, NEW t \in Seq(S), NEW e \in S
  PROVE  /\ Append(t, e) \in Seq(S) /\ Len(t) \in Nat
         /\ Len(Append(t, e)) = Len(t) + 1
         /\ DOMAIN t = 1..Len(t) /\ DOMAIN Append(t, e) = 1..(Len(t) + 1)
         /\ \A i \in DOMAIN t : Append(t, e)[i] = t[i]
         /\ Append(t, e)[Len(t) + 1] = e
OBVIOUS

(* A timer that is appended binds only if none was to bind. *)
LEMMA MenuTimerComes ==
  ASSUME NEW k \in DOMAIN MenuBars, Menu(k)!TimersInv, NEW e \in {"bind", "menus", "error"},
         x2' = Append(x2, e),
         e = "bind" => Menu(k)!ToBind = {}
  PROVE  /\ x2' \in Seq({"bind", "menus", "error"})
         /\ Len(x2) \in Nat /\ Len(x2') = Len(x2) + 1
         /\ \A i, j \in Menu(k)!ToBind' : i = j
         /\ e # "bind" => Menu(k)!ToBind' = Menu(k)!ToBind
<1>1. x2 \in Seq({"bind", "menus", "error"})
  BY DEF Menu!TimersInv
<1>2. /\ x2' \in Seq({"bind", "menus", "error"})
      /\ Len(x2) \in Nat /\ Len(x2') = Len(x2) + 1
      /\ DOMAIN x2 = 1..Len(x2) /\ DOMAIN x2' = 1..(Len(x2) + 1)
      /\ \A i \in DOMAIN x2 : x2'[i] = x2[i]
      /\ x2'[Len(x2) + 1] = e
  BY <1>1, MenuAppendIs
<1>3. Menu(k)!ToBind' = IF e = "bind" THEN {Len(x2) + 1} ELSE Menu(k)!ToBind
  <2>1. \A i \in DOMAIN x2' : i \in DOMAIN x2 \/ i = Len(x2) + 1
    BY <1>2
  <2>2. DOMAIN x2 \subseteq DOMAIN x2' /\ Len(x2) + 1 \in DOMAIN x2'
    BY <1>2
  <2>3. Len(x2) + 1 \notin DOMAIN x2
    BY <1>2
  <2>. QED
    BY <1>2, <2>1, <2>2, <2>3 DEF Menu!ToBind
<1>. QED
  BY <1>2, <1>3 DEF Menu!TimersInv

(* A timer that fires leaves the others. *)
LEMMA MenuTimerFires ==
  ASSUME NEW k \in DOMAIN MenuBars, Menu(k)!TimersInv, x2 # <<>>, x2' = Tail(x2)
  PROVE  /\ x2' \in Seq({"bind", "menus", "error"})
         /\ Len(x2) \in Nat /\ Len(x2') = Len(x2) - 1 /\ Len(x2) > 0
         /\ \A i, j \in Menu(k)!ToBind' : i = j
         /\ Menu(k)!ToBind = {} => Menu(k)!ToBind' = {}
         /\ Menu(k)!ToBind' # {} => Menu(k)!ToBind # {}
         /\ Head(x2) = "bind" => Menu(k)!ToBind # {} /\ Menu(k)!ToBind' = {}
<1>1. x2 \in Seq({"bind", "menus", "error"})
  BY DEF Menu!TimersInv
<1>2. /\ x2' \in Seq({"bind", "menus", "error"}) /\ Len(x2) \in Nat /\ Len(x2) > 0
      /\ Len(x2') = Len(x2) - 1 /\ Head(x2) = x2[1]
      /\ DOMAIN x2 = 1..Len(x2) /\ DOMAIN x2' = 1..Len(x2')
      /\ \A i \in DOMAIN x2' : i + 1 \in DOMAIN x2 /\ x2'[i] = x2[i + 1]
  BY <1>1, MenuTailIs
<1>3. \A i \in Menu(k)!ToBind' : i \in Nat /\ i > 0 /\ i + 1 \in Menu(k)!ToBind
  BY <1>2 DEF Menu!ToBind
<1>4. \A i, j \in Menu(k)!ToBind' : i = j
  <2>. SUFFICES ASSUME NEW i \in Menu(k)!ToBind', NEW j \in Menu(k)!ToBind'
                PROVE  i = j
    OBVIOUS
  <2>1. i + 1 = j + 1 /\ i \in Nat /\ j \in Nat
    BY <1>3 DEF Menu!TimersInv
  <2>. QED
    BY <2>1
<1>5. ASSUME Head(x2) = "bind"
      PROVE  Menu(k)!ToBind # {} /\ Menu(k)!ToBind' = {}
  <2>1. 1 \in Menu(k)!ToBind
    BY <1>2, <1>5 DEF Menu!ToBind
  <2>2. ASSUME NEW i \in Menu(k)!ToBind' PROVE FALSE
    <3>1. i + 1 = 1 /\ i \in Nat /\ i > 0
      BY <1>3, <2>1 DEF Menu!TimersInv
    <3>. QED
      BY <3>1
  <2>. QED
    BY <2>1, <2>2
<1>. QED
  BY <1>2, <1>3, <1>4, <1>5

LEMMA MenuInitIInv ==
  ASSUME NEW k \in DOMAIN MenuBars, Menu(k)!SidebarAssumption, Menu(k)!Init
  PROVE  Menu(k)!IInv
<1>1. Menu(k)!TypeOK
  <2>1. MenuBars[k].MaxRefreshes \in Nat
    BY DEF Menu!SidebarAssumption
  <2>2. /\ x4 \in 0..2 /\ x10 \in 0..300 /\ x11 \in 0..MenuBars[k].MaxRefreshes
        /\ x7 \in 0..MenuBars[k].MaxRefreshes + 1 /\ x8 \in 0..MenuBars[k].MaxRefreshes + 1
    BY <2>1 DEF Menu!Init
  <2>3. DOMAIN x2 = {}
    BY DEF Menu!Init
  <2>. QED
    BY <2>2, <2>3, Zenon DEF Menu!Init, Menu!TypeOK
<1>2. Menu(k)!TimersInv
  <2>1. x2 \in Seq({"bind", "menus", "error"}) /\ Len(x2) = 0 /\ DOMAIN x2 = {}
    BY DEF Menu!Init
  <2>. QED
    BY <2>1 DEF Menu!Init, Menu!TimersInv, Menu!ToBind
<1>3. Menu(k)!OpenInv /\ Menu(k)!DragInv
  BY DEF Menu!Init, Menu!OpenInv, Menu!DragInv
<1>. QED
  BY <1>1, <1>2, <1>3 DEF Menu!IInv

(* The conjuncts of TypeOK, for the steps. *)
LEMMA MenuValuesAre ==
  ASSUME NEW k \in DOMAIN MenuBars, Menu(k)!SidebarAssumption, Menu(k)!IInv
  PROVE  /\ x1 \in BOOLEAN /\ x9 \in BOOLEAN /\ x12 \in BOOLEAN /\ MenuBars[k].Wide \in BOOLEAN
         /\ x3 \in {{}, MenuBars[k].Menus} /\ x5 \subseteq x3 /\ x4 \in Nat /\ x4 <= 2
         /\ x7 \in Nat /\ x8 \in Nat /\ x10 \in 0..300 /\ x11 \in Nat /\ x11 <= MenuBars[k].MaxRefreshes
         /\ MenuBars[k].MaxRefreshes \in Nat /\ MenuBars[k].DividerWidth \in Nat /\ Len(x2) \in Nat
         /\ \A i \in DOMAIN x2 : x2[i] \in {"bind", "menus", "error"}
  BY DEF Menu!SidebarAssumption, Menu!IInv, Menu!TypeOK, Menu!TimersInv

(* The bound of the dividers is that of the refreshes. *)
LEMMA MenuTypesFollow ==
  ASSUME NEW k \in DOMAIN MenuBars, Menu(k)!SidebarAssumption, x1' \in BOOLEAN, x9' \in BOOLEAN,
         x12' \in BOOLEAN,
         x3' \in {{}, MenuBars[k].Menus}, x5' \subseteq x3', x4' \in Nat, x4' <= 2,
         x7' \in Nat, x8' \in Nat, x10' \in 0..300, x11' \in Nat, x11' <= MenuBars[k].MaxRefreshes,
         Menu(k)!TimersInv', Menu(k)!DragInv'
  PROVE  Menu(k)!TypeOK'
<1>1. Len(x2') \in Nat /\ MenuBars[k].MaxRefreshes \in Nat
      /\ x2' \in Seq({"bind", "menus", "error"})
  BY DEF Menu!TimersInv, Menu!SidebarAssumption
<1>2. \A i \in DOMAIN x2' : x2'[i] \in {"bind", "menus", "error"}
  BY <1>1
<1>3. x7' <= MenuBars[k].MaxRefreshes + 1
  BY <1>1 DEF Menu!TimersInv
<1>4. x8' <= MenuBars[k].MaxRefreshes + 1
  BY <1>1, <1>3 DEF Menu!DragInv
<1>. QED
  BY <1>1, <1>2, <1>3, <1>4 DEF Menu!TypeOK

LEMMA MenuInitMenuKeeps ==
  ASSUME NEW k \in DOMAIN MenuBars, Menu(k)!SidebarAssumption, Menu(k)!IInv, Menu(k)!initMenu
  PROVE  Menu(k)!IInv' /\ Menu(k)!StillWhenReleased
<1>1. /\ x2' \in Seq({"bind", "menus", "error"})
      /\ Len(x2) \in Nat /\ Len(x2') = Len(x2) + 1
      /\ \A i, j \in Menu(k)!ToBind' : i = j
  BY MenuTimerComes DEF Menu!IInv, Menu!TimersInv, Menu!initMenu
<1>2. Menu(k)!TimersInv'
  BY <1>1, MenuValuesAre DEF Menu!IInv, Menu!TimersInv, Menu!initMenu
<1>3. Menu(k)!OpenInv'
  BY DEF Menu!IInv, Menu!OpenInv, Menu!initMenu
<1>4. Menu(k)!DragInv' /\ Menu(k)!StillWhenReleased
  BY DEF Menu!IInv, Menu!DragInv, Menu!StillWhenReleased, Menu!initMenu, Menu!dragging
<1>5. Menu(k)!TypeOK'
  <2>1. x3' = MenuBars[k].Menus /\ x5' \subseteq x3' /\ x4' = 0 /\ x1' = FALSE
    BY DEF Menu!initMenu
  <2>2. UNCHANGED <<x7, x8, x9, x10, x11, x12>>
    BY DEF Menu!initMenu, Menu!dragging
  <2>3. /\ x1' \in BOOLEAN /\ x9' \in BOOLEAN /\ x12' \in BOOLEAN
        /\ x3' \in {{}, MenuBars[k].Menus} /\ x4' \in Nat /\ x4' <= 2
        /\ x7' \in Nat /\ x8' \in Nat /\ x10' \in 0..300 /\ x11' \in Nat
        /\ x11' <= MenuBars[k].MaxRefreshes
    <3>0. x1' \in BOOLEAN
      BY <2>1, Zenon
    <3>1. x1' \in BOOLEAN /\ x3' \in {{}, MenuBars[k].Menus} /\ x4' \in Nat /\ x4' <= 2
      BY <2>1, <3>0
    <3>2. x9' \in BOOLEAN /\ x12' \in BOOLEAN
      BY <2>2, MenuValuesAre
    <3>. QED
      BY <2>2, <3>1, <3>2, MenuValuesAre
  <2>. QED
    BY <1>2, <1>4, <2>1, <2>3, MenuTypesFollow
<1>. QED
  BY <1>2, <1>3, <1>4, <1>5 DEF Menu!IInv

LEMMA MenuUpdateKeeps ==
  ASSUME NEW k \in DOMAIN MenuBars, Menu(k)!SidebarAssumption, Menu(k)!IInv, NEW data \in {"menus", "error"},
         Menu(k)!updateMenuBar(data)
  PROVE  Menu(k)!IInv' /\ Menu(k)!StillWhenReleased
<1>1. /\ x2' \in Seq({"bind", "menus", "error"})
      /\ Len(x2) \in Nat /\ Len(x2') = Len(x2) + 1
      /\ \A i, j \in Menu(k)!ToBind' : i = j
      /\ Menu(k)!ToBind' = Menu(k)!ToBind
  BY MenuTimerComes DEF Menu!IInv, Menu!updateMenuBar
<1>2. Menu(k)!TimersInv'
  BY <1>1, MenuValuesAre DEF Menu!IInv, Menu!TimersInv, Menu!updateMenuBar
<1>3. Menu(k)!OpenInv'
  BY Zenon DEF Menu!IInv, Menu!OpenInv, Menu!updateMenuBar
<1>4. Menu(k)!DragInv' /\ Menu(k)!StillWhenReleased
  BY DEF Menu!IInv, Menu!DragInv, Menu!StillWhenReleased, Menu!updateMenuBar,
      Menu!dragging
<1>5. Menu(k)!TypeOK'
  BY <1>2, <1>4, MenuValuesAre, MenuTypesFollow DEF Menu!updateMenuBar, Menu!dragging
<1>. QED
  BY <1>2, <1>3, <1>4, <1>5 DEF Menu!IInv

(* One handler more, and the menu of the page is open. *)
LEMMA MenuBindKeeps ==
  ASSUME NEW k \in DOMAIN MenuBars, Menu(k)!SidebarAssumption, Menu(k)!IInv, Menu(k)!BindTimer
  PROVE  Menu(k)!IInv' /\ Menu(k)!StillWhenReleased
<1>1. /\ x2' \in Seq({"bind", "menus", "error"})
      /\ Len(x2) \in Nat /\ Len(x2') = Len(x2) - 1 /\ Len(x2) > 0
      /\ \A i, j \in Menu(k)!ToBind' : i = j
      /\ Menu(k)!ToBind # {} /\ Menu(k)!ToBind' = {}
  BY MenuTimerFires DEF Menu!IInv, Menu!BindTimer
<1>2. ~x1 /\ x4 <= 1 /\ x4' = x4 + 1 /\ x7' = x7 + 1
  BY <1>1 DEF Menu!IInv, Menu!TimersInv, Menu!BindTimer, Menu!bindOn
<1>3. Menu(k)!TimersInv'
  BY <1>1, <1>2, MenuValuesAre DEF Menu!IInv, Menu!TimersInv, Menu!BindTimer
<1>4. Menu(k)!OpenInv'
  <2>1. x4' # 0
    BY <1>2, MenuValuesAre
  <2>2. ASSUME ~x12'
        PROVE  ~x12 /\ x4 = 0 /\ x5 = {}
    <3>1. ~x12 /\ ~(x4 > 0)
      BY <2>2, Zenon DEF Menu!BindTimer
    <3>. QED
      BY <3>1, MenuValuesAre DEF Menu!IInv, Menu!OpenInv
  <2>3. x5' = x5 \union ({MenuBars[k].Current} \intersect x3) /\ x6' = x5'
    BY DEF Menu!BindTimer, Menu!bindOn
  <2>. QED
    BY <1>2, <2>1, <2>2, <2>3 DEF Menu!OpenInv
<1>5. Menu(k)!DragInv' /\ Menu(k)!StillWhenReleased
  BY <1>2, MenuValuesAre DEF Menu!IInv, Menu!DragInv, Menu!StillWhenReleased,
      Menu!BindTimer, Menu!dragging
<1>6. x12' \in BOOLEAN /\ x5' \subseteq x3'
  BY MenuValuesAre DEF Menu!BindTimer, Menu!bindOn
<1>7. Menu(k)!TypeOK'
  BY <1>2, <1>3, <1>5, <1>6, MenuValuesAre, MenuTypesFollow, SMTT(30) DEF Menu!BindTimer, Menu!dragging
<1>. QED
  BY <1>3, <1>4, <1>5, <1>7 DEF Menu!IInv

LEMMA MenuDrawKeeps ==
  ASSUME NEW k \in DOMAIN MenuBars, Menu(k)!SidebarAssumption, Menu(k)!IInv, Menu(k)!DrawTimer
  PROVE  Menu(k)!IInv' /\ Menu(k)!StillWhenReleased
<1>1. /\ x2' \in Seq({"bind", "menus", "error"})
      /\ Len(x2) \in Nat /\ Len(x2') = Len(x2) - 1 /\ Len(x2) > 0
      /\ \A i, j \in Menu(k)!ToBind' : i = j
      /\ Menu(k)!ToBind = {} => Menu(k)!ToBind' = {}
  BY MenuTimerFires DEF Menu!IInv, Menu!DrawTimer
<1>2. x4' = 1 /\ x7' = x7 + 1 /\ x5' = {MenuBars[k].Current} \intersect MenuBars[k].Menus /\ x6' = x5'
  BY DEF Menu!DrawTimer, Menu!bindOn
<1>3. Menu(k)!TimersInv'
  BY <1>1, <1>2, MenuValuesAre DEF Menu!IInv, Menu!TimersInv, Menu!DrawTimer
<1>4. Menu(k)!OpenInv'
  BY <1>2 DEF Menu!OpenInv
<1>5. Menu(k)!DragInv' /\ Menu(k)!StillWhenReleased
  BY <1>2, MenuValuesAre DEF Menu!IInv, Menu!DragInv, Menu!StillWhenReleased,
      Menu!DrawTimer, Menu!dragging
<1>6. Menu(k)!TypeOK'
  BY <1>2, <1>3, <1>5, MenuValuesAre, MenuTypesFollow DEF Menu!DrawTimer, Menu!dragging
<1>. QED
  BY <1>3, <1>4, <1>5, <1>6 DEF Menu!IInv

LEMMA MenuErrorKeeps ==
  ASSUME NEW k \in DOMAIN MenuBars, Menu(k)!SidebarAssumption, Menu(k)!IInv, Menu(k)!ErrorTimer
  PROVE  Menu(k)!IInv' /\ Menu(k)!StillWhenReleased
<1>1. /\ x2' \in Seq({"bind", "menus", "error"})
      /\ Len(x2) \in Nat /\ Len(x2') = Len(x2) - 1 /\ Len(x2) > 0
      /\ \A i, j \in Menu(k)!ToBind' : i = j
      /\ Menu(k)!ToBind = {} => Menu(k)!ToBind' = {}
  BY MenuTimerFires DEF Menu!IInv, Menu!ErrorTimer
<1>2. Menu(k)!TimersInv'
  BY <1>1, MenuValuesAre DEF Menu!IInv, Menu!TimersInv, Menu!ErrorTimer
<1>3. Menu(k)!OpenInv'
  BY DEF Menu!OpenInv, Menu!ErrorTimer
<1>4. Menu(k)!DragInv' /\ Menu(k)!StillWhenReleased
  BY DEF Menu!IInv, Menu!DragInv, Menu!StillWhenReleased, Menu!ErrorTimer, Menu!dragging
<1>5. Menu(k)!TypeOK'
  BY <1>2, <1>4, MenuValuesAre, MenuTypesFollow DEF Menu!ErrorTimer, Menu!dragging
<1>. QED
  BY <1>2, <1>3, <1>4, <1>5 DEF Menu!IInv

LEMMA MenuToggleKeeps ==
  ASSUME NEW k \in DOMAIN MenuBars, Menu(k)!SidebarAssumption, Menu(k)!IInv, NEW p \in MenuBars[k].Menus,
         Menu(k)!toggle(p)
  PROVE  Menu(k)!IInv' /\ Menu(k)!StillWhenReleased
<1>1. Menu(k)!TimersInv'
  BY DEF Menu!IInv, Menu!TimersInv, Menu!ToBind, Menu!toggle
<1>2. Menu(k)!DragInv' /\ Menu(k)!StillWhenReleased
  BY DEF Menu!IInv, Menu!DragInv, Menu!StillWhenReleased, Menu!toggle, Menu!dragging
<1>3. Menu(k)!OpenInv'
  <2>1. ~x12 => x4 = 1 /\ x5' = x6'
    <3>1. ~x12 => x4 = 1
      BY MenuValuesAre DEF Menu!IInv, Menu!OpenInv, Menu!toggle
    <3>. QED
      BY <3>1 DEF Menu!toggle
  <2>2. MenuBars[k].Wide => x5' \subseteq {p}
    BY DEF Menu!toggle, Menu!others
  <2>3. x4' # 0 /\ x4' = x4 /\ x12' = x12
    BY MenuValuesAre DEF Menu!toggle
  <2>. QED
    BY <2>1, <2>2, <2>3 DEF Menu!OpenInv
<1>4. x5' \subseteq x3'
  BY MenuValuesAre DEF Menu!toggle, Menu!others
<1>5. Menu(k)!TypeOK'
  BY <1>1, <1>2, <1>4, MenuValuesAre, MenuTypesFollow DEF Menu!toggle, Menu!dragging
<1>. QED
  BY <1>1, <1>2, <1>3, <1>5 DEF Menu!IInv

(* The divider and the mouse leave the menus. *)
LEMMA MenuDragKeeps ==
  ASSUME NEW k \in DOMAIN MenuBars, Menu(k)!SidebarAssumption, Menu(k)!IInv,
         UNCHANGED <<Menu(k)!drawing, x7>>,
         x9' \in BOOLEAN, x8' \in Nat, x10' \in 0..300, Menu(k)!DragInv'
  PROVE  Menu(k)!IInv'
<1>1. Menu(k)!TimersInv' /\ Menu(k)!OpenInv'
  BY Zenon DEF Menu!IInv, Menu!TimersInv, Menu!OpenInv, Menu!ToBind, Menu!drawing
<1>2. Menu(k)!TypeOK'
  BY <1>1, MenuValuesAre, MenuTypesFollow DEF Menu!drawing
<1>. QED
  BY <1>1, <1>2 DEF Menu!IInv

LEMMA MenuMouseKeeps ==
  ASSUME NEW k \in DOMAIN MenuBars, Menu(k)!SidebarAssumption, Menu(k)!IInv,
         Menu(k)!MouseDown \/ Menu(k)!MouseUp \/ \E x \in MenuBars[k].Positions : Menu(k)!MouseMove(x)
  PROVE  Menu(k)!IInv' /\ Menu(k)!StillWhenReleased
<1>1. CASE Menu(k)!MouseDown
  <2>1. x8 = 0 /\ Menu(k)!DragInv'
    BY <1>1, MenuValuesAre DEF Menu!IInv, Menu!DragInv, Menu!MouseDown
  <2>. QED
    BY <1>1, <2>1, MenuValuesAre, MenuDragKeeps DEF Menu!MouseDown,
        Menu!StillWhenReleased
<1>2. CASE Menu(k)!MouseUp
  <2>1. Menu(k)!DragInv'
    BY <1>2, MenuValuesAre DEF Menu!DragInv, Menu!MouseUp
  <2>. QED
    BY <1>2, <2>1, MenuValuesAre, MenuDragKeeps, Zenon DEF Menu!MouseUp, Menu!StillWhenReleased
<1>3. ASSUME NEW x \in MenuBars[k].Positions, Menu(k)!MouseMove(x)
      PROVE  Menu(k)!IInv' /\ Menu(k)!StillWhenReleased
  <2>1. Menu(k)!DragInv' /\ x9
    BY <1>3 DEF Menu!IInv, Menu!DragInv, Menu!MouseMove
  <2>2. x \in Nat /\ MenuBars[k].DividerWidth \in Nat
    BY DEF Menu!SidebarAssumption
  <2>3. x10' \in 0..300
    <3>1. PICK w \in Int : w = x + MenuBars[k].DividerWidth
      BY <2>2
    <3>2. w <= 300 /\ w >= MenuBars[k].DividerWidth * 2 - 3 /\ x10' = IF w \in 240..260 THEN 250 ELSE w
      BY <1>3, <3>1 DEF Menu!MouseMove
    <3>3. w >= 0
      BY <2>2, <3>1
    <3>. QED
      BY <3>1, <3>2, <3>3
  <2>. QED
    BY <1>3, <2>1, <2>3, MenuValuesAre, MenuDragKeeps DEF Menu!MouseMove,
        Menu!StillWhenReleased
<1>. QED
  BY <1>1, <1>2, <1>3

LEMMA MenuNextIInv ==
  ASSUME NEW k \in DOMAIN MenuBars, Menu(k)!SidebarAssumption, Menu(k)!IInv,
         Menu(k)!Next \/ UNCHANGED Menu(k)!vars
  PROVE  Menu(k)!IInv' /\ Menu(k)!StillWhenReleased
<1>1. CASE UNCHANGED Menu(k)!vars
  <2>1. Menu(k)!DragInv'
    BY <1>1 DEF Menu!IInv, Menu!DragInv, Menu!vars, Menu!dragging
  <2>. QED
    BY <1>1, <2>1, MenuValuesAre, MenuDragKeeps DEF Menu!vars, Menu!dragging,
        Menu!StillWhenReleased
<1>. QED
  BY <1>1, MenuInitMenuKeeps, MenuUpdateKeeps, MenuBindKeeps, MenuDrawKeeps, MenuErrorKeeps, MenuToggleKeeps,
     MenuMouseKeeps DEF
      Menu!Next

LEMMA MenuIInvImplies ==
  ASSUME NEW k \in DOMAIN MenuBars, Menu(k)!IInv
  PROVE  Menu(k)!TypeOK /\ Menu(k)!Accordion /\ Menu(k)!ClicksTurnMenus
<1>1. ASSUME MenuBars[k].Wide, ~x12
      PROVE  Menu(k)!Cardinality(x5) <= 1
  <2>1. PICK p \in MenuBars[k].Menus \cup {MenuBars[k].Current} : x5 \subseteq {p}
    BY <1>1 DEF Menu!IInv, Menu!OpenInv
  <2>2. x5 = {} \/ x5 = {p}
    BY <2>1
  <2>3. Menu(k)!Cardinality({}) = 0 /\ Menu(k)!Cardinality({p}) = 1
    BY FS_EmptySet, FS_Singleton, Zenon DEF Menu!Cardinality, Cardinality
  <2>. QED
    BY <2>2, <2>3
<1>. QED
  BY <1>1 DEF Menu!IInv, Menu!Accordion, Menu!ClicksTurnMenus, Menu!OpenInv

(* The invariant of the pages of this script. *)
MenuInv == \A k \in On("menu", MenuBars) : Menu(k)!IInv

LEMMA MenuBegins ==
  ASSUME SiteInit
  PROVE  MenuInv
<1>. SUFFICES ASSUME NEW k \in On("menu", MenuBars)
         PROVE  Menu(k)!IInv
  BY DEF MenuInv
<1>1. k \in DOMAIN MenuBars /\ script = "menu" /\ page = k
  BY DEF On
<1>2. Menu(k)!Init
  BY <1>1 DEF SiteInit
<1>3. Menu(k)!SidebarAssumption
  BY <1>1, SitePagesAreSound DEF SitePagesAssumption
<1>. QED
  BY <1>1, <1>2, MenuInitIInv, <1>3

LEMMA MenuGoesOn ==
  ASSUME MenuInv, SiteStep
  PROVE  /\ MenuInv'
         /\ \A k \in On("menu", MenuBars) : Menu(k)!StillWhenReleased
<1>1. script' = script /\ page' = page
  BY SiteStays
<1>2. ASSUME NEW k \in On("menu", MenuBars)
      PROVE  Menu(k)!IInv' /\ Menu(k)!StillWhenReleased
  <2>1. k \in DOMAIN MenuBars /\ script = "menu" /\ page = k
    BY DEF On
  <2>2. Menu(k)!Next \/ UNCHANGED Menu(k)!vars
    BY <2>1 DEF SiteStep, SiteNext, On, vars, Menu!vars, Menu!drawing,
      Menu!dragging
  <2>3. Menu(k)!SidebarAssumption
    BY <2>1, SitePagesAreSound DEF SitePagesAssumption
  <2>4. Menu(k)!IInv
    BY DEF MenuInv
  <2>. QED
    BY <2>1, <2>2, MenuNextIInv, <2>3, <2>4
<1>3. On("menu", MenuBars)' = On("menu", MenuBars)
  BY <1>1 DEF On
<1>. QED
  BY <1>2, <1>3 DEF MenuInv

LEMMA MenuShows ==
  ASSUME MenuInv
  PROVE  /\ \A k \in On("menu", MenuBars) : Menu(k)!TypeOK
         /\ \A k \in On("menu", MenuBars) : Menu(k)!Accordion
         /\ \A k \in On("menu", MenuBars) : Menu(k)!ClicksTurnMenus
<1>. SUFFICES ASSUME NEW k \in On("menu", MenuBars)
         PROVE  Menu(k)!TypeOK /\ Menu(k)!Accordion /\ Menu(k)!ClicksTurnMenus
  OBVIOUS
<1>1. k \in DOMAIN MenuBars /\ Menu(k)!IInv
  BY DEF On, MenuInv
<1>. QED
  BY <1>1, MenuIInvImplies

-----------------------------------------------------------------------------
(***************************************************************************)
(* BackgroundTasks (Tasks): x1 is queue, x2 is loops, x3 is cycleTick, x4  *)
(* is flights, x5 is checks, x6 is runs.                                   *)
(***************************************************************************)
(* What is left of a stack. *)
LEMMA TasksFront ==
  ASSUME NEW k \in DOMAIN TaskQueues, NEW T, NEW q \in Seq(T), q # <<>>
  PROVE  /\ SubSeq(q, 1, Len(q) - 1) \in Seq(T) /\ Len(SubSeq(q, 1, Len(q) - 1)) = Len(q) - 1
         /\ \A i \in 1..Len(q) - 1 : SubSeq(q, 1, Len(q) - 1)[i] = q[i]
         /\ Len(q) \in Nat \ {0} /\ q[Len(q)] \in T
<1>1. Len(q) \in Nat \ {0} /\ q[Len(q)] \in T
  OBVIOUS
<1>2. SubSeq(q, 1, Len(q) - 1) \in Seq(T)
  OBVIOUS
<1>3. Len(SubSeq(q, 1, Len(q) - 1)) = Len(q) - 1
  <2>. DEFINE n == Len(q) - 1
  <2>1. n \in Nat /\ n < Len(q)
    BY <1>1
  <2>. HIDE DEF n
  <2>2. Len(SubSeq(q, 1, n)) = n
    BY <2>1
  <2>. QED
    BY <2>2 DEF n
<1>4. \A i \in 1..Len(q) - 1 : SubSeq(q, 1, Len(q) - 1)[i] = q[i]
  OBVIOUS
<1>. QED
  BY <1>1, <1>2, <1>3, <1>4

(* How often a task is in a queue. *)
LEMMA TasksCountIs ==
  ASSUME NEW k \in DOMAIN TaskQueues, NEW q \in Seq(TaskQueues[k].Tasks), NEW u
  PROVE  /\ IsFiniteSet({i \in DOMAIN q : q[i] = u})
         /\ Cardinality({i \in DOMAIN q : q[i] = u}) \in Nat
<1>. DEFINE S == {i \in DOMAIN q : q[i] = u}
<1>1. PICK n \in Nat : DOMAIN q = 1..n
  <2>1. Len(q) \in Nat /\ DOMAIN q = 1..Len(q)
    OBVIOUS
  <2>. QED
    BY <2>1, Zenon
<1>2. IsFiniteSet(1..n)
  BY FS_Interval
<1>3. IsFiniteSet(S)
  BY <1>1, <1>2, FS_Subset
<1>. QED
  BY <1>3, FS_CardinalityType

(* The stack of the executer, task by task. *)
LEMMA TasksQueuedIs ==
  ASSUME NEW k \in DOMAIN TaskQueues, x1 \in Seq(TaskQueues[k].Tasks)
  PROVE  \A u \in TaskQueues[k].Tasks : /\ Tasks(k)!Queued(u) \in Nat
                                        /\ IsFiniteSet({i \in DOMAIN x1 : x1[i] = u})
                                        /\ Tasks(k)!Queued(u) = Cardinality({i \in DOMAIN x1 : x1[i] = u})
<1>. TAKE u \in TaskQueues[k].Tasks
<1>1. Tasks(k)!Queued(u) = Cardinality({i \in DOMAIN x1 : x1[i] = u})
  BY DEF Tasks!Queued, Tasks!Cardinality, Cardinality
<1>. QED
  BY <1>1, TasksCountIs

LEMMA TasksQueuedNextIs ==
  ASSUME NEW k \in DOMAIN TaskQueues, x1' \in Seq(TaskQueues[k].Tasks), NEW u \in TaskQueues[k].Tasks
  PROVE  Tasks(k)!Queued(u)' \in Nat
<1>1. PICK q : q = x1'
  OBVIOUS
<1>2. q \in Seq(TaskQueues[k].Tasks)
  BY <1>1, Zenon
<1>3. Tasks(k)!Queued(u)' = Cardinality({i \in DOMAIN q : q[i] = u})
  BY <1>1 DEF Tasks!Queued, Tasks!Cardinality, Cardinality
<1>. QED
  BY <1>2, <1>3, TasksCountIs

LEMMA TasksQueuedAppended ==
  ASSUME NEW k \in DOMAIN TaskQueues, x1 \in Seq(TaskQueues[k].Tasks), NEW t \in TaskQueues[k].Tasks,
         x1' = Append(x1, t)
  PROVE  \A u \in TaskQueues[k].Tasks : Tasks(k)!Queued(u)' = Tasks(k)!Queued(u) + (IF u = t THEN 1 ELSE 0)
<1>. TAKE u \in TaskQueues[k].Tasks
<1>. DEFINE S == {i \in DOMAIN x1 : x1[i] = u}
            N == {i \in DOMAIN x1' : x1'[i] = u}
<1>1. x1' \in Seq(TaskQueues[k].Tasks) /\ Len(x1') = Len(x1) + 1 /\ x1'[Len(x1) + 1] = t
      /\ \A i \in 1..Len(x1) : x1'[i] = x1[i]
  OBVIOUS
<1>2. IsFiniteSet(S) /\ Tasks(k)!Queued(u) = Cardinality(S) /\ Tasks(k)!Queued(u) \in Nat
  BY TasksQueuedIs
<1>3. Tasks(k)!Queued(u)' = Cardinality(N)
  BY DEF Tasks!Queued, Tasks!Cardinality, Cardinality
<1>4. CASE u = t
  <2>1. N = S \cup {Len(x1) + 1} /\ Len(x1) + 1 \notin S
    BY <1>1, <1>4
  <2>. HIDE DEF S, N
  <2>2. Cardinality(N) = Cardinality(S) + 1
    BY <1>2, <2>1, FS_AddElement, Zenon
  <2>. QED
    BY <1>2, <1>3, <1>4, <2>2
<1>5. CASE u # t
  <2>1. N = S
    BY <1>1, <1>5
  <2>. HIDE DEF S, N
  <2>. QED
    BY <1>2, <1>3, <1>5, <2>1
<1>. QED
  BY <1>4, <1>5

LEMMA TasksQueuedPopped ==
  ASSUME NEW k \in DOMAIN TaskQueues, x1 \in Seq(TaskQueues[k].Tasks), x1 # <<>>,
         x1' = SubSeq(x1, 1, Len(x1) - 1)
  PROVE  /\ x1[Len(x1)] \in TaskQueues[k].Tasks
         /\ x1' \in Seq(TaskQueues[k].Tasks) /\ Len(x1') = Len(x1) - 1
         /\ \A u \in TaskQueues[k].Tasks :
              Tasks(k)!Queued(u)' = Tasks(k)!Queued(u) - (IF u = x1[Len(x1)] THEN 1 ELSE 0)
<1>1. /\ x1[Len(x1)] \in TaskQueues[k].Tasks /\ x1' \in Seq(TaskQueues[k].Tasks) /\ Len(x1') = Len(x1) - 1
      /\ \A i \in 1..Len(x1) - 1 : x1'[i] = x1[i]
      /\ Len(x1) \in Nat \ {0}
  BY TasksFront, Zenon
<1>2. ASSUME NEW u \in TaskQueues[k].Tasks
      PROVE  Tasks(k)!Queued(u)' = Tasks(k)!Queued(u) - (IF u = x1[Len(x1)] THEN 1 ELSE 0)
  <2>. DEFINE S == {i \in DOMAIN x1 : x1[i] = u}
              N == {i \in DOMAIN x1' : x1'[i] = u}
  <2>2. IsFiniteSet(S) /\ Tasks(k)!Queued(u) = Cardinality(S) /\ Tasks(k)!Queued(u) \in Nat
    BY TasksQueuedIs, Zenon
  <2>3. Tasks(k)!Queued(u)' = Cardinality(N)
    BY DEF Tasks!Queued, Tasks!Cardinality, Cardinality
  <2>4. CASE u = x1[Len(x1)]
    <3>1. N = S \ {Len(x1)} /\ Len(x1) \in S
      BY <1>1, <2>4
    <3>. HIDE DEF S, N
    <3>2. Cardinality(N) = Cardinality(S) - 1
      BY <2>2, <3>1, FS_RemoveElement, Zenon
    <3>. QED
      BY <2>2, <2>3, <2>4, <3>2
  <2>5. CASE u # x1[Len(x1)]
    <3>1. N = S
      BY <1>1, <2>5
    <3>. HIDE DEF S, N
    <3>. QED
      BY <2>2, <2>3, <2>5, <3>1
  <2>. QED
    BY <2>4, <2>5
<1>. QED
  BY <1>1, <1>2

(* One more timer. *)
LEMMA TasksTimerSet ==
  ASSUME NEW k \in DOMAIN TaskQueues, NEW c \in [TaskQueues[k].Tasks -> Nat],
         NEW d \in [TaskQueues[k].Tasks -> Nat], IsFiniteSet(Tasks(k)!Timers(c)),
           NEW t \in TaskQueues[k].Tasks,
         \A u \in TaskQueues[k].Tasks : d[u] = c[u] + (IF u = t THEN 1 ELSE 0)
  PROVE  /\ IsFiniteSet(Tasks(k)!Timers(d))
         /\ Cardinality(Tasks(k)!Timers(d)) = Cardinality(Tasks(k)!Timers(c)) + 1
         /\ Cardinality(Tasks(k)!Timers(c)) \in Nat
<1>. DEFINE x == <<t, c[t] + 1>>
<1>1. d[t] = c[t] + 1 /\ \A u \in TaskQueues[k].Tasks \ {t} : d[u] = c[u]
  OBVIOUS
<1>2. \A u \in TaskQueues[k].Tasks : \A i \in 1..d[u] : <<u, i>> \in Tasks(k)!Timers(c) \cup {x}
  <2>1. \A u \in TaskQueues[k].Tasks : \A i \in 1..d[u] : i \in 1..c[u] \/ (u = t /\ i = c[t] + 1)
    BY <1>1
  <2>2. \A u \in TaskQueues[k].Tasks : \A i \in 1..c[u] : <<u, i>> \in Tasks(k)!Timers(c)
    BY DEF Tasks!Timers
  <2>. QED
    BY <2>1, <2>2, Zenon
<1>3. ASSUME NEW z \in Tasks(k)!Timers(d)
      PROVE  \E u \in TaskQueues[k].Tasks : \E i \in 1..d[u] : z = <<u, i>>
  BY DEF Tasks!Timers
<1>4. Tasks(k)!Timers(c) \subseteq Tasks(k)!Timers(d)
  BY <1>1 DEF Tasks!Timers
<1>5. x \in Tasks(k)!Timers(d) /\ x \notin Tasks(k)!Timers(c)
  BY <1>1 DEF Tasks!Timers
<1>. HIDE DEF x
<1>6. Tasks(k)!Timers(d) = Tasks(k)!Timers(c) \cup {x}
  <2>1. \A z \in Tasks(k)!Timers(d) : z \in Tasks(k)!Timers(c) \cup {x}
    BY <1>2, <1>3
  <2>. QED
    BY <1>4, <1>5, <2>1
<1>7. Cardinality(Tasks(k)!Timers(c)) \in Nat
  BY FS_CardinalityType
<1>8. IsFiniteSet(Tasks(k)!Timers(c) \cup {x})
        /\ Cardinality(Tasks(k)!Timers(c) \cup {x}) = Cardinality(Tasks(k)!Timers(c)) + 1
  BY <1>5, FS_AddElement, Zenon
<1>. QED
  BY <1>6, <1>7, <1>8

LEMMA TasksTimerLess ==
  ASSUME NEW k \in DOMAIN TaskQueues, NEW c \in [TaskQueues[k].Tasks -> Nat],
         NEW d \in [TaskQueues[k].Tasks -> Nat], IsFiniteSet(Tasks(k)!Timers(c)),
           NEW t \in TaskQueues[k].Tasks,
         \A u \in TaskQueues[k].Tasks : d[u] = c[u] - (IF u = t THEN 1 ELSE 0)
  PROVE  /\ IsFiniteSet(Tasks(k)!Timers(d))
         /\ Cardinality(Tasks(k)!Timers(c)) = Cardinality(Tasks(k)!Timers(d)) + 1
         /\ Cardinality(Tasks(k)!Timers(d)) \in Nat
<1>1. \A u \in TaskQueues[k].Tasks : d[u] <= c[u] /\ c[u] = d[u] + (IF u = t THEN 1 ELSE 0)
  OBVIOUS
<1>2. Tasks(k)!Timers(d) \subseteq Tasks(k)!Timers(c)
  BY <1>1 DEF Tasks!Timers
<1>3. IsFiniteSet(Tasks(k)!Timers(d))
  BY <1>2, FS_Subset
<1>. QED
  BY <1>1, <1>3, TasksTimerSet

(* What an execution of the stack does: the chains stay, and there is one  *)
(* loop more.                                                              *)
LEMMA TasksExecuted ==
  ASSUME NEW k \in DOMAIN TaskQueues, Tasks(k)!Typed, NEW sent \in [TaskQueues[k].Tasks -> Nat],
         NEW waiting \in Nat, Tasks(k)!execute(sent, waiting)
  PROVE  /\ x1' \in Seq(TaskQueues[k].Tasks) /\ x4' \in [TaskQueues[k].Tasks -> Nat] /\ x2' \in Nat
         /\ x2' + Len(x1) = waiting + 1 + Len(x1')
         /\ \A u \in TaskQueues[k].Tasks : x4'[u] + Tasks(k)!Queued(u)' = sent[u] + Tasks(k)!Queued(u)
<1>1. \A u \in TaskQueues[k].Tasks : Tasks(k)!Queued(u) \in Nat
  BY TasksQueuedIs, Zenon DEF Tasks!Typed
<1>2. CASE x1 # <<>>
  <2>. DEFINE v == x1[Len(x1)]
  <2>1. /\ x4' = [sent EXCEPT ![v] = @ + 1] /\ x2' = waiting
        /\ x1' = SubSeq(x1, 1, Len(x1) - 1)
    BY <1>2 DEF Tasks!execute
  <2>2. /\ v \in TaskQueues[k].Tasks /\ x1' \in Seq(TaskQueues[k].Tasks) /\ Len(x1') = Len(x1) - 1
        /\ \A u \in TaskQueues[k].Tasks : Tasks(k)!Queued(u)' = Tasks(k)!Queued(u) - (IF u = v THEN 1 ELSE 0)
    BY <1>2, <2>1, TasksQueuedPopped DEF Tasks!Typed
  <2>3. Len(x1) \in Nat
    BY DEF Tasks!Typed
  <2>. HIDE DEF v
  <2>4. ASSUME NEW u \in TaskQueues[k].Tasks
        PROVE  x4'[u] + Tasks(k)!Queued(u)' = sent[u] + Tasks(k)!Queued(u)
    BY <1>1, <2>1, <2>2
  <2>5. x4' \in [TaskQueues[k].Tasks -> Nat]
    BY <2>1, <2>2
  <2>6. x2' + Len(x1) = waiting + 1 + Len(x1')
    <3>1. x2' = waiting
      BY <2>1
    <3>. QED
      BY <2>2, <2>3, <3>1
  <2>. QED
    BY <2>1, <2>2, <2>4, <2>5, <2>6, Zenon
<1>3. CASE x1 = <<>>
  <2>1. x4' = sent /\ x2' = waiting + 1 /\ x1' = x1
    BY <1>3 DEF Tasks!execute
  <2>2. \A u \in TaskQueues[k].Tasks : Tasks(k)!Queued(u)' = Tasks(k)!Queued(u)
    BY <2>1 DEF Tasks!Queued
  <2>. QED
    BY <1>1, <2>1, <2>2 DEF Tasks!Typed
<1>. QED
  BY <1>2, <1>3

(* What a check does: of the timers of its task there is one more, at most.*)
LEMMA TasksChecked ==
  ASSUME NEW k \in DOMAIN TaskQueues, Tasks(k)!TasksAssumption, Tasks(k)!Typed, NEW t \in TaskQueues[k].Tasks,
         NEW pending \in [TaskQueues[k].Tasks -> Nat], Tasks(k)!check(t, pending),
         IsFiniteSet(Tasks(k)!Timers(pending)), IsFiniteSet(Tasks(k)!Timers(x6))
  PROVE  /\ x5' \in [TaskQueues[k].Tasks -> Nat] /\ x6' \in [TaskQueues[k].Tasks -> Nat]
         /\ x3' \in [TaskQueues[k].Tasks -> Int] /\ \A u \in TaskQueues[k].Tasks :
              x3'[u] \in -1..TaskQueues[k].CycleTime[u]
         /\ \A u \in TaskQueues[k].Tasks : x5'[u] + x6'[u] <= pending[u] + x6[u] + (IF u = t THEN 1 ELSE 0)
         /\ IsFiniteSet(Tasks(k)!Timers(x5')) /\ IsFiniteSet(Tasks(k)!Timers(x6'))
         /\ Cardinality(Tasks(k)!Timers(x5')) + Cardinality(Tasks(k)!Timers(x6'))
              <= Cardinality(Tasks(k)!Timers(pending)) + Cardinality(Tasks(k)!Timers(x6)) + 1
<1>0. /\ Cardinality(Tasks(k)!Timers(pending)) \in Nat /\ Cardinality(Tasks(k)!Timers(x6)) \in Nat
      /\ x6 \in [TaskQueues[k].Tasks -> Nat] /\ x3 \in [TaskQueues[k].Tasks -> Int]
      /\ \A u \in TaskQueues[k].Tasks :
           x3[u] \in -1..TaskQueues[k].CycleTime[u] /\ TaskQueues[k].CycleTime[u] \in Nat
  BY FS_CardinalityType, Zenon DEF Tasks!Typed, Tasks!TasksAssumption
<1>1. CASE x3[t] < 0
  <2>1. x5' = pending /\ UNCHANGED <<x3, x6>>
    BY <1>0, <1>1 DEF Tasks!check
  <2>. QED
    BY <1>0, <2>1
<1>2. CASE x3[t] = 0
  <2>1. /\ x3' = [x3 EXCEPT ![t] = -1] /\ x6' = [x6 EXCEPT ![t] = @ + 1]
        /\ x5' = pending
    BY <1>0, <1>2 DEF Tasks!check
  <2>2. IsFiniteSet(Tasks(k)!Timers(x6'))
          /\ Cardinality(Tasks(k)!Timers(x6')) = Cardinality(Tasks(k)!Timers(x6)) + 1
    <3>1. x6' \in [TaskQueues[k].Tasks -> Nat] /\ \A u \in TaskQueues[k].Tasks :
            x6'[u] = x6[u] + (IF u = t THEN 1 ELSE 0)
      BY <1>0, <2>1
    <3>. QED
      BY <1>0, <3>1, TasksTimerSet
  <2>3. x6' \in [TaskQueues[k].Tasks -> Nat] /\ x3' \in [TaskQueues[k].Tasks -> Int]
          /\ \A u \in TaskQueues[k].Tasks : x3'[u] \in -1..TaskQueues[k].CycleTime[u]
    BY <1>0, <2>1
  <2>4. \A u \in TaskQueues[k].Tasks : x5'[u] + x6'[u] <= pending[u] + x6[u] + (IF u = t THEN 1 ELSE 0)
    BY <1>0, <2>1
  <2>. QED
    BY <1>0, <2>1, <2>2, <2>3, <2>4
<1>3. CASE x3[t] > 0
  <2>1. /\ x3' = [x3 EXCEPT ![t] = @ - 1] /\ x5' = [pending EXCEPT ![t] = @ + 1]
        /\ x6' = x6
    BY <1>0, <1>3 DEF Tasks!check
  <2>2. IsFiniteSet(Tasks(k)!Timers(x5'))
          /\ Cardinality(Tasks(k)!Timers(x5')) = Cardinality(Tasks(k)!Timers(pending)) + 1
    <3>1. x5' \in [TaskQueues[k].Tasks -> Nat] /\ \A u \in TaskQueues[k].Tasks :
            x5'[u] = pending[u] + (IF u = t THEN 1 ELSE 0)
      BY <2>1
    <3>. QED
      BY <3>1, TasksTimerSet
  <2>3. x5' \in [TaskQueues[k].Tasks -> Nat] /\ x3' \in [TaskQueues[k].Tasks -> Int]
          /\ \A u \in TaskQueues[k].Tasks : x3'[u] \in -1..TaskQueues[k].CycleTime[u]
    BY <1>0, <1>3, <2>1
  <2>4. \A u \in TaskQueues[k].Tasks : x5'[u] + x6'[u] <= pending[u] + x6[u] + (IF u = t THEN 1 ELSE 0)
    BY <1>0, <2>1
  <2>. QED
    BY <1>0, <2>1, <2>2, <2>3, <2>4
<1>. QED
  BY <1>0, <1>1, <1>2, <1>3

LEMMA TasksLoopsInvIs ==
  ASSUME NEW k \in DOMAIN TaskQueues, Tasks(k)!TasksAssumption
  PROVE
  /\ Tasks(k)!LoopsInv <=> /\ IsFiniteSet(Tasks(k)!Timers(x5)) /\ IsFiniteSet(Tasks(k)!Timers(x6))
                           /\ Cardinality(Tasks(k)!Timers(x5)) + Cardinality(Tasks(k)!Timers(x6)) + Len(x1) <= x2
  /\ Tasks(k)!LoopsInv' <=> /\ IsFiniteSet(Tasks(k)!Timers(x5')) /\ IsFiniteSet(Tasks(k)!Timers(x6'))
                            /\ Cardinality(Tasks(k)!Timers(x5')) + Cardinality(Tasks(k)!Timers(x6')) + Len(x1') <= x2'
BY DEF Tasks!LoopsInv, Tasks!Timers, Tasks!IsFiniteSet, IsFiniteSet, Tasks!Cardinality,
    Cardinality

(* No step of the chains of a task adds a chain, or leaves one without its *)
(* loop.                                                                   *)
LEMMA TasksNextIInv ==
  ASSUME NEW k \in DOMAIN TaskQueues, Tasks(k)!TasksAssumption, Tasks(k)!IInv,
         Tasks(k)!Next \/ UNCHANGED Tasks(k)!vars
  PROVE  Tasks(k)!IInv'
<1>0. Tasks(k)!Typed
  BY DEF Tasks!IInv
<1>t. ASSUME NEW u \in TaskQueues[k].Tasks
      PROVE  x4[u] \in Nat /\ x5[u] \in Nat /\ x6[u] \in Nat /\ Tasks(k)!Queued(u) \in Nat
               /\ TaskQueues[k].Starts[u] \in Nat
  BY <1>0, TasksQueuedIs, Zenon DEF Tasks!Typed, Tasks!TasksAssumption
<1>c. ASSUME NEW u \in TaskQueues[k].Tasks
      PROVE  x4[u] + x5[u] + x6[u] + Tasks(k)!Queued(u) <= TaskQueues[k].Starts[u]
  BY DEF Tasks!IInv, Tasks!ChainsNeverMultiply, Tasks!Chains
<1>f. IsFiniteSet(Tasks(k)!Timers(x5)) /\ IsFiniteSet(Tasks(k)!Timers(x6))
  BY TasksLoopsInvIs DEF Tasks!IInv
<1>n. /\ Cardinality(Tasks(k)!Timers(x5)) \in Nat /\ Cardinality(Tasks(k)!Timers(x6)) \in Nat
      /\ Len(x1) \in Nat /\ x2 \in Nat
  BY <1>0, <1>f, FS_CardinalityType DEF Tasks!Typed
<1>l. Cardinality(Tasks(k)!Timers(x5)) + Cardinality(Tasks(k)!Timers(x6)) + Len(x1) <= x2
  BY TasksLoopsInvIs DEF Tasks!IInv
<1>. SUFFICES /\ Tasks(k)!Typed'
              /\ \A u \in TaskQueues[k].Tasks :
                   x4'[u] + x5'[u] + x6'[u] + Tasks(k)!Queued(u)' <= TaskQueues[k].Starts[u]
              /\ IsFiniteSet(Tasks(k)!Timers(x5')) /\ IsFiniteSet(Tasks(k)!Timers(x6'))
              /\ Cardinality(Tasks(k)!Timers(x5')) + Cardinality(Tasks(k)!Timers(x6')) + Len(x1') <= x2'
  BY TasksLoopsInvIs DEF Tasks!IInv, Tasks!ChainsNeverMultiply, Tasks!Chains
<1>1. ASSUME NEW t \in TaskQueues[k].Tasks, Tasks(k)!Answered(t)
      PROVE  /\ Tasks(k)!Typed'
             /\ \A u \in TaskQueues[k].Tasks :
                  x4'[u] + x5'[u] + x6'[u] + Tasks(k)!Queued(u)' <= TaskQueues[k].Starts[u]
             /\ IsFiniteSet(Tasks(k)!Timers(x5')) /\ IsFiniteSet(Tasks(k)!Timers(x6'))
             /\ Cardinality(Tasks(k)!Timers(x5')) + Cardinality(Tasks(k)!Timers(x6')) + Len(x1') <= x2'
  <2>. DEFINE sent == [x4 EXCEPT ![t] = @ - 1]
  <2>0. x4[t] > 0 /\ Tasks(k)!check(t, x5) /\ Tasks(k)!execute(sent, x2)
    BY <1>1 DEF Tasks!Answered
  <2>1. /\ sent \in [TaskQueues[k].Tasks -> Nat]
        /\ \A u \in TaskQueues[k].Tasks : sent[u] = x4[u] - (IF u = t THEN 1 ELSE 0)
    BY <1>0, <2>0 DEF Tasks!Typed
  <2>. HIDE DEF sent
  <2>2. /\ x1' \in Seq(TaskQueues[k].Tasks) /\ x4' \in [TaskQueues[k].Tasks -> Nat] /\ x2' \in Nat
        /\ x2' + Len(x1) = x2 + 1 + Len(x1')
        /\ \A u \in TaskQueues[k].Tasks : x4'[u] + Tasks(k)!Queued(u)' = sent[u] + Tasks(k)!Queued(u)
    BY <1>0, <1>n, <2>0, <2>1, TasksExecuted
  <2>3. /\ x5' \in [TaskQueues[k].Tasks -> Nat] /\ x6' \in [TaskQueues[k].Tasks -> Nat]
        /\ x3' \in [TaskQueues[k].Tasks -> Int] /\ \A u \in TaskQueues[k].Tasks :
             x3'[u] \in -1..TaskQueues[k].CycleTime[u]
        /\ \A u \in TaskQueues[k].Tasks : x5'[u] + x6'[u] <= x5[u] + x6[u] + (IF u = t THEN 1 ELSE 0)
        /\ IsFiniteSet(Tasks(k)!Timers(x5')) /\ IsFiniteSet(Tasks(k)!Timers(x6'))
        /\ Cardinality(Tasks(k)!Timers(x5')) + Cardinality(Tasks(k)!Timers(x6'))
             <= Cardinality(Tasks(k)!Timers(x5)) + Cardinality(Tasks(k)!Timers(x6)) + 1
    BY <1>0, <1>f, <2>0, TasksChecked, Zenon DEF Tasks!Typed
  <2>4. Tasks(k)!Typed'
    BY <2>2, <2>3, Zenon DEF Tasks!Typed
  <2>5. ASSUME NEW u \in TaskQueues[k].Tasks
        PROVE  x4'[u] + x5'[u] + x6'[u] + Tasks(k)!Queued(u)' <= TaskQueues[k].Starts[u]
    <3>1. Tasks(k)!Queued(u)' \in Nat /\ x4'[u] \in Nat /\ x5'[u] \in Nat /\ x6'[u] \in Nat
      BY <2>2, <2>3, TasksQueuedNextIs
    <3>2. x4'[u] + Tasks(k)!Queued(u)' = x4[u] - (IF u = t THEN 1 ELSE 0) + Tasks(k)!Queued(u)
      BY <2>1, <2>2
    <3>3. x5'[u] + x6'[u] <= x5[u] + x6[u] + (IF u = t THEN 1 ELSE 0)
      BY <2>3
    <3>. QED
      BY <1>t, <1>c, <3>1, <3>2, <3>3
  <2>6. Cardinality(Tasks(k)!Timers(x5')) + Cardinality(Tasks(k)!Timers(x6')) + Len(x1') <= x2'
    <3>1. /\ Cardinality(Tasks(k)!Timers(x5')) \in Nat /\ Cardinality(Tasks(k)!Timers(x6')) \in Nat
          /\ Len(x1') \in Nat
      BY <2>2, <2>3, FS_CardinalityType
    <3>2. x2' \in Nat /\ x2' + Len(x1) = x2 + 1 + Len(x1')
      BY <2>2
    <3>3. Cardinality(Tasks(k)!Timers(x5')) + Cardinality(Tasks(k)!Timers(x6'))
            <= Cardinality(Tasks(k)!Timers(x5)) + Cardinality(Tasks(k)!Timers(x6)) + 1
      BY <2>3
    <3>. QED
      BY <1>n, <1>l, <3>1, <3>2, <3>3
  <2>. QED
    BY <2>3, <2>4, <2>5, <2>6
<1>2. ASSUME NEW t \in TaskQueues[k].Tasks, Tasks(k)!PaymentFailed(t)
      PROVE  /\ Tasks(k)!Typed'
             /\ \A u \in TaskQueues[k].Tasks :
                  x4'[u] + x5'[u] + x6'[u] + Tasks(k)!Queued(u)' <= TaskQueues[k].Starts[u]
             /\ IsFiniteSet(Tasks(k)!Timers(x5')) /\ IsFiniteSet(Tasks(k)!Timers(x6'))
             /\ Cardinality(Tasks(k)!Timers(x5')) + Cardinality(Tasks(k)!Timers(x6')) + Len(x1') <= x2'
  <2>1. /\ x4' = [x4 EXCEPT ![t] = @ - 1] /\ x4[t] > 0
        /\ UNCHANGED <<x1, x2, x3, x5, x6>>
    BY <1>2 DEF Tasks!PaymentFailed
  <2>2. Tasks(k)!Typed' /\ \A u \in TaskQueues[k].Tasks :
          Tasks(k)!Queued(u)' = Tasks(k)!Queued(u) /\ x4'[u] <= x4[u]
    BY <1>0, <2>1 DEF Tasks!Typed, Tasks!Queued
  <2>3. \A u \in TaskQueues[k].Tasks : x4[u] \in Nat /\ x4'[u] \in Nat /\ x5[u] \in Nat /\ x6[u] \in Nat
    BY <1>0, <2>2 DEF Tasks!Typed
  <2>4. \A u \in TaskQueues[k].Tasks :
          x4'[u] + x5'[u] + x6'[u] + Tasks(k)!Queued(u)' <= TaskQueues[k].Starts[u]
    <3>. TAKE u \in TaskQueues[k].Tasks
    <3>1. x4'[u] \in Nat /\ x4'[u] <= x4[u] /\ Tasks(k)!Queued(u)' = Tasks(k)!Queued(u)
      BY <2>2, <2>3
    <3>2. x5'[u] = x5[u] /\ x6'[u] = x6[u]
      BY <2>1
    <3>. QED
      BY <1>t, <1>c, <3>1, <3>2
  <2>. QED
    BY <1>f, <1>l, <2>1, <2>2, <2>4
<1>3. ASSUME NEW t \in TaskQueues[k].Tasks, Tasks(k)!CheckTimer(t)
      PROVE  /\ Tasks(k)!Typed'
             /\ \A u \in TaskQueues[k].Tasks :
                  x4'[u] + x5'[u] + x6'[u] + Tasks(k)!Queued(u)' <= TaskQueues[k].Starts[u]
             /\ IsFiniteSet(Tasks(k)!Timers(x5')) /\ IsFiniteSet(Tasks(k)!Timers(x6'))
             /\ Cardinality(Tasks(k)!Timers(x5')) + Cardinality(Tasks(k)!Timers(x6')) + Len(x1') <= x2'
  <2>. DEFINE pending == [x5 EXCEPT ![t] = @ - 1]
  <2>1. /\ x5[t] > 0 /\ Tasks(k)!check(t, pending) /\ UNCHANGED <<x1, x2, x4>>
    BY <1>3 DEF Tasks!CheckTimer
  <2>a. x5 \in [TaskQueues[k].Tasks -> Nat]
    BY <1>0 DEF Tasks!Typed
  <2>2. \A u \in TaskQueues[k].Tasks : pending[u] = x5[u] - (IF u = t THEN 1 ELSE 0)
    BY <2>a
  <2>3. /\ pending \in [TaskQueues[k].Tasks -> Nat] /\ IsFiniteSet(Tasks(k)!Timers(pending))
        /\ Cardinality(Tasks(k)!Timers(x5)) = Cardinality(Tasks(k)!Timers(pending)) + 1
        /\ Cardinality(Tasks(k)!Timers(pending)) \in Nat
    <3>1. pending \in [TaskQueues[k].Tasks -> Nat]
      BY <2>1, <2>a
    <3>. HIDE DEF pending
    <3>. QED
      BY <1>f, <2>a, <2>2, <3>1, TasksTimerLess
  <2>. HIDE DEF pending
  <2>4. /\ x5' \in [TaskQueues[k].Tasks -> Nat] /\ x6' \in [TaskQueues[k].Tasks -> Nat]
        /\ x3' \in [TaskQueues[k].Tasks -> Int] /\ \A u \in TaskQueues[k].Tasks :
             x3'[u] \in -1..TaskQueues[k].CycleTime[u]
        /\ \A u \in TaskQueues[k].Tasks : x5'[u] + x6'[u] <= pending[u] + x6[u] + (IF u = t THEN 1 ELSE 0)
        /\ IsFiniteSet(Tasks(k)!Timers(x5')) /\ IsFiniteSet(Tasks(k)!Timers(x6'))
        /\ Cardinality(Tasks(k)!Timers(x5')) + Cardinality(Tasks(k)!Timers(x6'))
             <= Cardinality(Tasks(k)!Timers(pending)) + Cardinality(Tasks(k)!Timers(x6)) + 1
    BY <1>0, <1>f, <2>1, <2>3, TasksChecked
  <2>5. Tasks(k)!Typed'
    BY <1>0, <2>1, <2>4, Zenon DEF Tasks!Typed
  <2>6. ASSUME NEW u \in TaskQueues[k].Tasks
        PROVE  x4'[u] + x5'[u] + x6'[u] + Tasks(k)!Queued(u)' <= TaskQueues[k].Starts[u]
    <3>1. Tasks(k)!Queued(u)' = Tasks(k)!Queued(u)
      BY <2>1 DEF Tasks!Queued
    <3>2. x5'[u] \in Nat /\ x6'[u] \in Nat /\ x4'[u] = x4[u]
      BY <2>1, <2>4
    <3>3. x5'[u] + x6'[u] <= x5[u] - (IF u = t THEN 1 ELSE 0) + x6[u] + (IF u = t THEN 1 ELSE 0)
      BY <2>2, <2>4
    <3>. QED
      BY <1>t, <1>c, <3>1, <3>2, <3>3
  <2>7. Cardinality(Tasks(k)!Timers(x5')) + Cardinality(Tasks(k)!Timers(x6')) + Len(x1') <= x2'
    <3>1. Cardinality(Tasks(k)!Timers(x5')) \in Nat /\ Cardinality(Tasks(k)!Timers(x6')) \in Nat
      BY <2>4, FS_CardinalityType
    <3>2. Cardinality(Tasks(k)!Timers(x5')) + Cardinality(Tasks(k)!Timers(x6'))
            <= Cardinality(Tasks(k)!Timers(pending)) + Cardinality(Tasks(k)!Timers(x6)) + 1
      BY <2>4
    <3>3. Len(x1') = Len(x1) /\ x2' = x2
      BY <2>1
    <3>. QED
      BY <1>n, <1>l, <2>3, <3>1, <3>2, <3>3
  <2>. QED
    BY <2>4, <2>5, <2>6, <2>7
<1>4. ASSUME NEW t \in TaskQueues[k].Tasks, Tasks(k)!run(t)
      PROVE  /\ Tasks(k)!Typed'
             /\ \A u \in TaskQueues[k].Tasks :
                  x4'[u] + x5'[u] + x6'[u] + Tasks(k)!Queued(u)' <= TaskQueues[k].Starts[u]
             /\ IsFiniteSet(Tasks(k)!Timers(x5')) /\ IsFiniteSet(Tasks(k)!Timers(x6'))
             /\ Cardinality(Tasks(k)!Timers(x5')) + Cardinality(Tasks(k)!Timers(x6')) + Len(x1') <= x2'
  <2>1. /\ x6[t] > 0 /\ x6' = [x6 EXCEPT ![t] = @ - 1] /\ x1' = Append(x1, t)
        /\ x3' = [x3 EXCEPT ![t] = TaskQueues[k].CycleTime[t]] /\ UNCHANGED <<x2, x4, x5>>
    BY <1>4 DEF Tasks!run
  <2>2. \A u \in TaskQueues[k].Tasks : Tasks(k)!Queued(u)' = Tasks(k)!Queued(u) + (IF u = t THEN 1 ELSE 0)
    BY <1>0, <2>1, TasksQueuedAppended, Zenon DEF Tasks!Typed
  <2>3. /\ IsFiniteSet(Tasks(k)!Timers(x6'))
             /\ Cardinality(Tasks(k)!Timers(x6)) = Cardinality(Tasks(k)!Timers(x6')) + 1
        /\ Cardinality(Tasks(k)!Timers(x6')) \in Nat /\ x6' \in [TaskQueues[k].Tasks -> Nat]
    <3>1. x6 \in [TaskQueues[k].Tasks -> Nat]
      BY <1>0 DEF Tasks!Typed
    <3>2. x6' \in [TaskQueues[k].Tasks -> Nat] /\ \A u \in TaskQueues[k].Tasks :
            x6'[u] = x6[u] - (IF u = t THEN 1 ELSE 0)
      BY <2>1, <3>1
    <3>. QED
      BY <1>f, <3>1, <3>2, TasksTimerLess
  <2>4. x3' \in [TaskQueues[k].Tasks -> Int] /\ \A u \in TaskQueues[k].Tasks :
          x3'[u] \in -1..TaskQueues[k].CycleTime[u]
    <3>1. TaskQueues[k].CycleTime[t] \in Nat /\ TaskQueues[k].CycleTime[t] \in -1..TaskQueues[k].CycleTime[t]
      BY DEF Tasks!TasksAssumption
    <3>. QED
      BY <1>0, <2>1, <3>1 DEF Tasks!Typed
  <2>5. x1' \in Seq(TaskQueues[k].Tasks) /\ Len(x1') = Len(x1) + 1
    BY <1>0, <2>1 DEF Tasks!Typed
  <2>6. Tasks(k)!Typed'
    BY <1>0, <2>1, <2>3, <2>4, <2>5, Zenon DEF Tasks!Typed
  <2>7. \A u \in TaskQueues[k].Tasks : x6'[u] = x6[u] - (IF u = t THEN 1 ELSE 0)
    BY <1>0, <2>1 DEF Tasks!Typed
  <2>8. \A u \in TaskQueues[k].Tasks :
          x4'[u] + x5'[u] + x6'[u] + Tasks(k)!Queued(u)' <= TaskQueues[k].Starts[u]
    <3>. TAKE u \in TaskQueues[k].Tasks
    <3>1. x4'[u] = x4[u] /\ x5'[u] = x5[u]
      BY <2>1
    <3>2. x6'[u] = x6[u] - (IF u = t THEN 1 ELSE 0)
            /\ Tasks(k)!Queued(u)' = Tasks(k)!Queued(u) + (IF u = t THEN 1 ELSE 0)
      BY <2>2, <2>7
    <3>. QED
      BY <1>t, <1>c, <3>1, <3>2
  <2>9. Cardinality(Tasks(k)!Timers(x5')) + Cardinality(Tasks(k)!Timers(x6')) + Len(x1') <= x2'
    <3>1. x5' = x5 /\ x2' = x2
      BY <2>1
    <3>. QED
      BY <1>n, <1>l, <2>3, <2>5, <3>1
  <2>10. IsFiniteSet(Tasks(k)!Timers(x5'))
    BY <1>f, <2>1
  <2>. QED
    BY <2>3, <2>6, <2>8, <2>9, <2>10
<1>5. CASE Tasks(k)!LoopTimer
  <2>1. /\ x2 > 0 /\ Tasks(k)!execute(x4, x2 - 1) /\ UNCHANGED <<x3, x5, x6>>
    BY <1>5 DEF Tasks!LoopTimer
  <2>2. x2 - 1 \in Nat /\ x4 \in [TaskQueues[k].Tasks -> Nat] /\ x2 \in Nat
    BY <1>0, <2>1 DEF Tasks!Typed
  <2>3. /\ x1' \in Seq(TaskQueues[k].Tasks) /\ x4' \in [TaskQueues[k].Tasks -> Nat] /\ x2' \in Nat
        /\ x2' + Len(x1) = x2 - 1 + 1 + Len(x1')
        /\ \A u \in TaskQueues[k].Tasks : x4'[u] + Tasks(k)!Queued(u)' = x4[u] + Tasks(k)!Queued(u)
    BY <1>0, <2>1, <2>2, TasksExecuted
  <2>4. Tasks(k)!Typed'
    BY <1>0, <2>1, <2>3 DEF Tasks!Typed
  <2>5. ASSUME NEW u \in TaskQueues[k].Tasks
        PROVE  x4'[u] + x5'[u] + x6'[u] + Tasks(k)!Queued(u)' <= TaskQueues[k].Starts[u]
    <3>1. Tasks(k)!Queued(u)' \in Nat /\ x4'[u] \in Nat /\ x5'[u] = x5[u] /\ x6'[u] = x6[u]
      BY <2>1, <2>3, TasksQueuedNextIs
    <3>2. x4'[u] + Tasks(k)!Queued(u)' = x4[u] + Tasks(k)!Queued(u)
      BY <2>3
    <3>. QED
      BY <1>t, <1>c, <3>1, <3>2
  <2>6. Cardinality(Tasks(k)!Timers(x5')) + Cardinality(Tasks(k)!Timers(x6')) + Len(x1') <= x2'
    <3>1. Len(x1') \in Nat
      BY <2>3
    <3>2. x2' + Len(x1) = x2 + Len(x1')
      BY <2>2, <2>3, <3>1
    <3>3. x5' = x5 /\ x6' = x6 /\ x2' \in Nat
      BY <2>1, <2>3
    <3>. QED
      BY <1>n, <1>l, <3>1, <3>2, <3>3
  <2>. QED
    BY <1>f, <2>1, <2>4, <2>5, <2>6
<1>6. CASE UNCHANGED Tasks(k)!vars
  BY <1>0, <1>c, <1>f, <1>l, <1>6 DEF Tasks!vars, Tasks!Typed, Tasks!Queued
<1>. QED
  BY <1>1, <1>2, <1>3, <1>4, <1>5, <1>6 DEF Tasks!Next

LEMMA TasksInitIInv ==
  ASSUME NEW k \in DOMAIN TaskQueues, Tasks(k)!TasksAssumption, Tasks(k)!Init
  PROVE  Tasks(k)!IInv
<1>1. /\ x1 = <<>> /\ x2 = 0 /\ x3 = Tasks(k)!Zero /\ x4 = TaskQueues[k].Starts /\ x5 = Tasks(k)!Zero
           /\ x6 = Tasks(k)!Zero
  BY DEF Tasks!Init
<1>2. Tasks(k)!Zero \in [TaskQueues[k].Tasks -> Nat] /\ \A t \in TaskQueues[k].Tasks : Tasks(k)!Zero[t] = 0
  BY DEF Tasks!Zero
<1>3. Tasks(k)!Typed
  BY <1>1, <1>2 DEF Tasks!Typed, Tasks!TasksAssumption
<1>4. Tasks(k)!Timers(Tasks(k)!Zero) = {}
  BY <1>2 DEF Tasks!Timers
<1>5. Tasks(k)!LoopsInv
  BY <1>1, <1>4, TasksLoopsInvIs, FS_EmptySet
<1>6. ASSUME NEW u \in TaskQueues[k].Tasks PROVE Tasks(k)!Queued(u) = 0
  <2>1. {i \in DOMAIN x1 : x1[i] = u} = {}
    BY <1>1
  <2>2. Tasks(k)!Queued(u) = Cardinality({i \in DOMAIN x1 : x1[i] = u})
    BY TasksQueuedIs, <1>3, Zenon DEF Tasks!Typed
  <2>. QED
    BY <2>1, <2>2, FS_EmptySet
<1>7. Tasks(k)!ChainsNeverMultiply
  BY <1>1, <1>2, <1>6 DEF Tasks!ChainsNeverMultiply, Tasks!Chains, Tasks!TasksAssumption
<1>. QED
  BY <1>3, <1>5, <1>7 DEF Tasks!IInv

LEMMA TasksIInvImplies ==
  ASSUME NEW k \in DOMAIN TaskQueues, Tasks(k)!TasksAssumption, Tasks(k)!IInv
  PROVE  Tasks(k)!TypeOK /\ Tasks(k)!ChainsNeverMultiply /\ Tasks(k)!LoopForEveryQueuedTask
<1>1. /\ Cardinality(Tasks(k)!Timers(x5)) + Cardinality(Tasks(k)!Timers(x6)) + Len(x1) <= x2
      /\ Cardinality(Tasks(k)!Timers(x5)) \in Nat /\ Cardinality(Tasks(k)!Timers(x6)) \in Nat
      /\ Len(x1) \in Nat /\ x2 \in Nat
  BY TasksLoopsInvIs, FS_CardinalityType DEF Tasks!IInv, Tasks!Typed
<1>2. Tasks(k)!LoopForEveryQueuedTask
  BY <1>1 DEF Tasks!LoopForEveryQueuedTask
<1>3. Tasks(k)!TypeOK
  BY DEF Tasks!IInv, Tasks!Typed, Tasks!TypeOK
<1>. QED
  BY <1>2, <1>3 DEF Tasks!IInv

(* The invariant of the pages of this script. *)
TasksInv == \A k \in On("tasks", TaskQueues) : Tasks(k)!IInv

LEMMA TasksBegins ==
  ASSUME SiteInit
  PROVE  TasksInv
<1>. SUFFICES ASSUME NEW k \in On("tasks", TaskQueues)
         PROVE  Tasks(k)!IInv
  BY DEF TasksInv
<1>1. k \in DOMAIN TaskQueues /\ script = "tasks" /\ page = k
  BY DEF On
<1>2. Tasks(k)!Init
  BY <1>1 DEF SiteInit
<1>3. Tasks(k)!TasksAssumption
  BY <1>1, SitePagesAreSound DEF SitePagesAssumption
<1>. QED
  BY <1>1, <1>2, TasksInitIInv, <1>3

LEMMA TasksGoesOn ==
  ASSUME TasksInv, SiteStep
  PROVE  TasksInv'
<1>1. script' = script /\ page' = page
  BY SiteStays
<1>2. ASSUME NEW k \in On("tasks", TaskQueues)
      PROVE  Tasks(k)!IInv'
  <2>1. k \in DOMAIN TaskQueues /\ script = "tasks" /\ page = k
    BY DEF On
  <2>2. Tasks(k)!Next \/ UNCHANGED Tasks(k)!vars
    BY <2>1 DEF SiteStep, SiteNext, On, vars, Tasks!vars
  <2>3. Tasks(k)!TasksAssumption
    BY <2>1, SitePagesAreSound DEF SitePagesAssumption
  <2>4. Tasks(k)!IInv
    BY DEF TasksInv
  <2>. QED
    BY <2>1, <2>2, TasksNextIInv, <2>3, <2>4
<1>3. On("tasks", TaskQueues)' = On("tasks", TaskQueues)
  BY <1>1 DEF On
<1>. QED
  BY <1>2, <1>3 DEF TasksInv

LEMMA TasksShows ==
  ASSUME TasksInv
  PROVE  /\ \A k \in On("tasks", TaskQueues) : Tasks(k)!TypeOK
         /\ \A k \in On("tasks", TaskQueues) : Tasks(k)!ChainsNeverMultiply
         /\ \A k \in On("tasks", TaskQueues) : Tasks(k)!LoopForEveryQueuedTask
<1>. SUFFICES ASSUME NEW k \in On("tasks", TaskQueues)
         PROVE  Tasks(k)!TypeOK /\ Tasks(k)!ChainsNeverMultiply /\ Tasks(k)!LoopForEveryQueuedTask
  OBVIOUS
<1>1. k \in DOMAIN TaskQueues /\ Tasks(k)!IInv
  BY DEF On, TasksInv
<1>2. Tasks(k)!TasksAssumption
  BY <1>1, SitePagesAreSound DEF SitePagesAssumption
<1>. QED
  BY <1>1, TasksIInvImplies, <1>2

-----------------------------------------------------------------------------
(***************************************************************************)
(* ManagerSession (Login): x1 is db, x2 is up, x3 is cache, x4 is bean, x5 *)
(* is refresh, x6 is at, x7 is obj, x8 is doing, x9 is read, x10 is left.  *)
(***************************************************************************)
LEMMA LoginInitIInv ==
  ASSUME NEW k \in DOMAIN Logins, Login(k)!ManagerSessionAssumption, Login(k)!Init
  PROVE  Login(k)!IInv
<1>1. Login(k)!Rest \in Login(k)!Refreshes /\ Login(k)!Rest.phase = "rest"
  BY DEF Login!Rest, Login!Refreshes, Login!Phases
<1>2. Login(k)!Typed
  BY <1>1 DEF Login!ManagerSessionAssumption, Login!Init, Login!Typed, Login!Row,
      Login!Object, Login!Blank, Login!Steps, Login!Threads, Login!New, Login!Gone,
      Login!Bean
<1>3. Login(k)!Placed
  BY DEF Login!ManagerSessionAssumption, Login!Init, Login!Placed, Login!Bean
<1>4. \A x \in Login(k)!Threads : Login(k)!Holds(x)
  BY <1>1 DEF Login!Init, Login!Holds
<1>. QED
  BY <1>2, <1>3, <1>4 DEF Login!IInv

(* What the invariant is for. *)
LEMMA LoginIInvImplies ==
  ASSUME NEW k \in DOMAIN Logins, Login(k)!ManagerSessionAssumption, Login(k)!IInv
  PROVE  Login(k)!TypeOK /\ Login(k)!CachedIsHere
<1>1. \A v \in Logins[k].Servers : x3[v] \in Logins[k].Sessions => x7[x3[v]] # Login(k)!Blank
  BY DEF Login!ManagerSessionAssumption, Login!IInv, Login!Placed, Login!Blank
<1>2. Login(k)!TypeOK
  BY <1>1 DEF Login!IInv, Login!Typed, Login!TypeOK, Login!Row
<1>3. Login(k)!CachedIsHere
  BY DEF Login!ManagerSessionAssumption, Login!IInv, Login!Typed, Login!Placed,
      Login!CachedIsHere, Login!Cached, Login!Bean
<1>. QED
  BY <1>2, <1>3

(* The row stays a row when it is stored, cleared, opened or closed. *)
LEMMA LoginRowChanges ==
  ASSUME NEW k \in DOMAIN Logins, x1 \in Login(k)!Row
  PROVE  /\ \A s \in Logins[k].Sessions,
              v \in Logins[k].Servers : [x1 EXCEPT !.session = s, !.server = v] \in Login(k)!Row
         /\ \A v \in Logins[k].Servers : [x1 EXCEPT !.server = v, !.stamp = @ + 1] \in Login(k)!Row
         /\ [x1 EXCEPT !.session = Logins[k].None, !.server = Logins[k].None, !.stamp = @ + 1]
              \in Login(k)!Row
         /\ [x1 EXCEPT !.active = ~@, !.stamp = @ + 1] \in Login(k)!Row
         /\ [x1 EXCEPT !.stamp = @ + 1] \in Login(k)!Row
<1>1. x1.stamp + 1 \in Nat /\ (~x1.active) \in BOOLEAN
  BY DEF Login!Row
<1>2. \A s \in Logins[k].Sessions,
        v \in Logins[k].Servers : [x1 EXCEPT !.session = s, !.server = v] \in Login(k)!Row
  BY Zenon DEF Login!Row
<1>3. \A v \in Logins[k].Servers : [x1 EXCEPT !.server = v, !.stamp = @ + 1] \in Login(k)!Row
  BY <1>1, Zenon DEF Login!Row
<1>4. [x1 EXCEPT !.session = Logins[k].None, !.server = Logins[k].None, !.stamp = @ + 1] \in Login(k)!Row
  BY <1>1, Zenon DEF Login!Row
<1>5. [x1 EXCEPT !.active = ~@, !.stamp = @ + 1] \in Login(k)!Row
  <2>1. \A b \in BOOLEAN : [x1 EXCEPT !.active = b, !.stamp = @ + 1] \in Login(k)!Row
    BY <1>1, Zenon DEF Login!Row
  <2>. QED
    BY <1>1, <2>1, Zenon
<1>6. [x1 EXCEPT !.stamp = @ + 1] \in Login(k)!Row
  BY <1>1 DEF Login!Row
<1>. QED
  BY <1>2, <1>3, <1>4, <1>5, <1>6, Zenon

(* A refresh runs on a server, of a thread that does nothing else. *)
LEMMA LoginRefreshPlace ==
  ASSUME NEW k \in DOMAIN Logins, Login(k)!ManagerSessionAssumption, Login(k)!IInv,
         NEW x \in Login(k)!Threads, x5[x].phase # "rest"
  PROVE  Login(k)!Home(x) \in Logins[k].Servers /\ Login(k)!Home(x) \in x2
           /\ (x \in Logins[k].Sessions => x8[x] = "refresh")
<1>1. CASE x \in Logins[k].Servers
  BY <1>1 DEF Login!ManagerSessionAssumption, Login!IInv, Login!Typed, Login!Home
<1>2. CASE x \notin Logins[k].Servers
  <2>1. x \in Logins[k].Sessions /\ x8[x] = "refresh"
    BY <1>2 DEF Login!IInv, Login!Typed, Login!Threads
  <2>2. x6[x] \in x2
    BY <2>1 DEF Login!IInv, Login!Typed
  <2>. QED
    BY <1>2, <2>1, <2>2 DEF Login!IInv, Login!Typed, Login!Home
<1>. QED
  BY <1>1, <1>2

(* What keeps the hold of the refreshes: none starts, none changes its     *)
(* server or its rows, and an object it holds is still there.              *)
LEMMA LoginHoldsKept ==
  ASSUME NEW k \in DOMAIN Logins, Login(k)!ManagerSessionAssumption, Login(k)!IInv,
         \A x \in Login(k)!Threads : x5'[x].phase # "rest" =>
           /\ x5[x].phase # "rest"
           /\ Login(k)!Home(x)' = Login(k)!Home(x)
           /\ x5'[x].rows \subseteq x5[x].rows
           /\ x5'[x].target \in Logins[k].Sessions =>
                x5'[x].target = x5[x].target /\ x6'[x5[x].target] = x6[x5[x].target]
           /\ x5'[x].target = Login(k)!Bean => x3'[Login(k)!Home(x)] = Login(k)!Bean
  PROVE  \A x \in Login(k)!Threads : Login(k)!Holds(x)'
<1>1. SUFFICES ASSUME NEW x \in Login(k)!Threads, x5'[x].phase # "rest"
               PROVE  /\ \A row \in x5'[x].rows : row.server = Login(k)!Home(x)'
                      /\ x5'[x].target \in Logins[k].Sessions => x6'[x5'[x].target] = Login(k)!Home(x)'
                      /\ x5'[x].target = Login(k)!Bean' => x3'[Login(k)!Home(x)'] = Login(k)!Bean'
  BY DEF Login!Holds
<1>2. Login(k)!Holds(x) /\ x5[x].phase # "rest"
  BY <1>1 DEF Login!IInv
<1>. QED
  BY <1>1, <1>2 DEF Login!Holds, Login!Bean

(* The same when no refresh is touched. *)
LEMMA LoginHoldsUntouched ==
  ASSUME NEW k \in DOMAIN Logins, Login(k)!ManagerSessionAssumption, Login(k)!IInv, x5' = x5, x3' = x3,
         \A q \in Logins[k].Sessions :
           x6'[q] = x6[q] \/ (x6[q] \notin Logins[k].Servers /\ x5[q].phase = "rest")
  PROVE  \A x \in Login(k)!Threads : Login(k)!Holds(x)'
<1>1. ASSUME NEW x \in Login(k)!Threads, x5'[x].phase # "rest"
      PROVE  /\ Login(k)!Home(x)' = Login(k)!Home(x) /\ Login(k)!Home(x) \in Logins[k].Servers
             /\ x5[x].target \in Logins[k].Sessions => x6'[x5[x].target] = x6[x5[x].target]
             /\ x5[x].target = Login(k)!Bean => x3[Login(k)!Home(x)] = Login(k)!Bean
  <2>1. x5[x].phase # "rest" /\ Login(k)!Home(x) \in Logins[k].Servers /\ Login(k)!Holds(x)
    BY <1>1, LoginRefreshPlace DEF Login!IInv
  <2>2. Login(k)!Home(x)' = Login(k)!Home(x)
    BY <2>1 DEF Login!Home, Login!Threads
  <2>. QED
    BY <2>1, <2>2 DEF Login!Holds
<1>. QED
  BY <1>1, LoginHoldsKept

(* The refreshes of a server let go of some objects. *)
LEMMA LoginRedirectHolds ==
  ASSUME NEW k \in DOMAIN Logins, Login(k)!ManagerSessionAssumption, Login(k)!IInv, NEW v, NEW from,
         NEW to \in {Login(k)!Bean, Login(k)!Lost}, Login(k)!Redirect(v, from, to),
         \A q \in Logins[k].Sessions : x6'[q] = x6[q]
                              \/ (x6[q] = v /\ q \in from /\ x8[q] # "refresh")
                              \/ (x6[q] \notin Logins[k].Servers /\ x8[q] # "refresh"),
         \A w \in Logins[k].Servers : w # v => x3'[w] = x3[w],
         x3'[v] = Login(k)!Bean \/ Login(k)!Bean \in from
           \/ (v \in Logins[k].Servers => x3[v] # Login(k)!Bean) \/ x3' = x3,
         to = Login(k)!Bean => x3'[v] = Login(k)!Bean
  PROVE  /\ x5' \in [Login(k)!Threads -> Login(k)!Refreshes]
         /\ \A x \in Login(k)!Threads : x5'[x].phase = x5[x].phase
         /\ \A x \in Login(k)!Threads : Login(k)!Holds(x)'
<1>1. \A x \in Login(k)!Threads :
        /\ Login(k)!Redirected(x, from, to) \in Login(k)!Refreshes /\ x5[x] \in Login(k)!Refreshes
                                  /\ Login(k)!Redirected(x, from, to).phase = x5[x].phase
                                  /\ Login(k)!Redirected(x, from, to).rows = x5[x].rows
                                  /\ Login(k)!Redirected(x, from, to).target =
                                       IF x5[x].target \in from THEN to ELSE x5[x].target
  BY DEF Login!Redirected, Login!Refreshes, Login!IInv, Login!Typed
<1>2. /\ x5' \in [Login(k)!Threads -> Login(k)!Refreshes]
      /\ \A x \in Login(k)!Threads : /\ x5'[x].phase = x5[x].phase /\ x5'[x].rows = x5[x].rows
                                     /\ x5'[x].target = IF x \in Login(k)!Running(v) /\ x5[x].target \in from
                                          THEN to
                                                             ELSE x5[x].target
  BY <1>1 DEF Login!Redirect
<1>3. ASSUME NEW x \in Login(k)!Threads, x5'[x].phase # "rest"
      PROVE  /\ x5[x].phase # "rest"
             /\ Login(k)!Home(x)' = Login(k)!Home(x)
             /\ x5'[x].rows \subseteq x5[x].rows
             /\ x5'[x].target \in Logins[k].Sessions =>
                  x5'[x].target = x5[x].target /\ x6'[x5[x].target] = x6[x5[x].target]
             /\ x5'[x].target = Login(k)!Bean => x3'[Login(k)!Home(x)] = Login(k)!Bean
  <2>1. /\ x5[x].phase # "rest" /\ Login(k)!Home(x) \in Logins[k].Servers /\ Login(k)!Holds(x)
        /\ x \in Logins[k].Sessions => x8[x] = "refresh"
    BY <1>2, <1>3, LoginRefreshPlace DEF Login!IInv
  <2>2. Login(k)!Home(x)' = Login(k)!Home(x)
    <3>1. CASE x \in Logins[k].Servers
      BY <3>1 DEF Login!Home
    <3>2. CASE x \notin Logins[k].Servers
      <4>1. x \in Logins[k].Sessions /\ x6'[x] = x6[x]
        BY <2>1, <3>2 DEF Login!Threads
      <4>. QED
        BY <3>2, <4>1 DEF Login!Home
    <3>. QED
      BY <3>1, <3>2
  <2>3. x \in Login(k)!Running(v) <=> Login(k)!Home(x) = v
    BY <2>1 DEF Login!Running
  <2>4. ASSUME x5'[x].target \in Logins[k].Sessions
        PROVE  x5'[x].target = x5[x].target /\ x6'[x5[x].target] = x6[x5[x].target]
    <3>1. x5'[x].target = x5[x].target /\ ~(x \in Login(k)!Running(v) /\ x5[x].target \in from)
      BY <1>2, <2>4 DEF Login!Bean, Login!Lost, Login!ManagerSessionAssumption
    <3>2. x6[x5[x].target] = Login(k)!Home(x)
      BY <2>1, <2>4, <3>1 DEF Login!Holds
    <3>. QED
      BY <2>1, <2>3, <2>4, <3>1, <3>2
  <2>5. ASSUME x5'[x].target = Login(k)!Bean
        PROVE  x3'[Login(k)!Home(x)] = Login(k)!Bean
    <3>1. CASE x \in Login(k)!Running(v) /\ x5[x].target \in from
      BY <1>2, <2>3, <2>5, <3>1
    <3>2. CASE ~(x \in Login(k)!Running(v) /\ x5[x].target \in from)
      <4>1. x5[x].target = Login(k)!Bean /\ x3[Login(k)!Home(x)] = Login(k)!Bean
        BY <1>2, <2>1, <2>5, <3>2 DEF Login!Holds
      <4>. QED
        BY <2>1, <2>3, <3>2, <4>1
    <3>. QED
      BY <3>1, <3>2
  <2>. QED
    BY <1>2, <1>3, <2>1, <2>2, <2>4, <2>5
<1>. QED
  BY <1>2, <1>3, LoginHoldsKept

LEMMA LoginReplaceHolds ==
  ASSUME NEW k \in DOMAIN Logins, Login(k)!ManagerSessionAssumption, Login(k)!IInv, NEW v, NEW from,
         NEW f \in BOOLEAN, Login(k)!Replace(v, from, f),
         Login(k)!Bean \in from, x6' = x6, \A w \in Logins[k].Servers : w # v => x3'[w] = x3[w]
  PROVE  /\ x5' \in [Login(k)!Threads -> Login(k)!Refreshes]
         /\ \A x \in Login(k)!Threads : x5'[x].phase = x5[x].phase
         /\ \A x \in Login(k)!Threads : Login(k)!Holds(x)'
<1>0. Login(k)!Lost \in {Login(k)!Bean, Login(k)!Lost} /\ Login(k)!Lost # Login(k)!Bean
  BY DEF Login!Lost, Login!Bean
<1>1. ASSUME NEW x \in Login(k)!Threads
      PROVE  /\ Login(k)!Redirected(x, from, Login(k)!Lost) \in Login(k)!Refreshes
                  /\ x5[x] \in Login(k)!Refreshes
             /\ Login(k)!Redirected(x, from, Login(k)!Lost).phase = x5[x].phase
             /\ Login(k)!Redirected(x, from, Login(k)!Lost).rows = x5[x].rows
             /\ Login(k)!Redirected(x, from, Login(k)!Lost).target = IF x5[x].target \in from
                  THEN Login(k)!Lost ELSE x5[x].target
  <2>1. x5[x] \in Login(k)!Refreshes
    BY DEF Login!IInv, Login!Typed
  <2>. QED
    BY <2>1 DEF Login!Redirected, Login!Refreshes, Login!Lost
<1>2. \A q \in Login(k)!Refreshes : LET g == [q EXCEPT !.fresh = f] IN
         g \in Login(k)!Refreshes /\ g.phase = q.phase /\ g.rows = q.rows /\ g.target = q.target
  BY DEF Login!Refreshes
<1>3. /\ x5' \in [Login(k)!Threads -> Login(k)!Refreshes]
      /\ \A x \in Login(k)!Threads : /\ x5'[x].phase = x5[x].phase /\ x5'[x].rows = x5[x].rows
                                     /\ x5'[x].target = IF x \in Login(k)!Running(v) /\ x5[x].target \in from
                                          THEN Login(k)!Lost
                                                             ELSE x5[x].target
  BY <1>1, <1>2 DEF Login!Replace
<1>4. ASSUME NEW x \in Login(k)!Threads, x5'[x].phase # "rest"
      PROVE  /\ x5[x].phase # "rest"
             /\ Login(k)!Home(x)' = Login(k)!Home(x)
             /\ x5'[x].rows \subseteq x5[x].rows
             /\ x5'[x].target \in Logins[k].Sessions =>
                  x5'[x].target = x5[x].target /\ x6'[x5[x].target] = x6[x5[x].target]
             /\ x5'[x].target = Login(k)!Bean => x3'[Login(k)!Home(x)] = Login(k)!Bean
  <2>1. /\ x5[x].phase # "rest" /\ Login(k)!Home(x) \in Logins[k].Servers /\ Login(k)!Holds(x)
        /\ x \in Logins[k].Sessions => x8[x] = "refresh"
    BY <1>3, <1>4, LoginRefreshPlace DEF Login!IInv
  <2>2. Login(k)!Home(x)' = Login(k)!Home(x)
    <3>1. CASE x \in Logins[k].Servers
      BY <3>1 DEF Login!Home
    <3>2. CASE x \notin Logins[k].Servers
      <4>1. x \in Logins[k].Sessions /\ x6'[x] = x6[x]
        BY <2>1, <3>2 DEF Login!Threads
      <4>. QED
        BY <3>2, <4>1 DEF Login!Home
    <3>. QED
      BY <3>1, <3>2
  <2>3. x \in Login(k)!Running(v) <=> Login(k)!Home(x) = v
    BY <2>1 DEF Login!Running
  <2>4. ASSUME x5'[x].target \in Logins[k].Sessions
        PROVE  x5'[x].target = x5[x].target /\ x6'[x5[x].target] = x6[x5[x].target]
    <3>1. x5'[x].target = x5[x].target /\ ~(x \in Login(k)!Running(v) /\ x5[x].target \in from)
      BY <1>0, <1>3, <2>4 DEF Login!Bean, Login!Lost, Login!ManagerSessionAssumption
    <3>2. x6[x5[x].target] = Login(k)!Home(x)
      BY <2>1, <2>4, <3>1 DEF Login!Holds
    <3>. QED
      BY <2>1, <2>3, <2>4, <3>1, <3>2
  <2>5. ASSUME x5'[x].target = Login(k)!Bean
        PROVE  x3'[Login(k)!Home(x)] = Login(k)!Bean
    <3>1. CASE x \in Login(k)!Running(v) /\ x5[x].target \in from
      BY <1>0, <1>3, <2>3, <2>5, <3>1
    <3>2. CASE ~(x \in Login(k)!Running(v) /\ x5[x].target \in from)
      <4>1. x5[x].target = Login(k)!Bean /\ x3[Login(k)!Home(x)] = Login(k)!Bean
        BY <1>0, <1>3, <2>1, <2>5, <3>2 DEF Login!Holds
      <4>. QED
        BY <2>1, <2>3, <3>2, <4>1
    <3>. QED
      BY <3>1, <3>2
  <2>. QED
    BY <1>3, <1>4, <2>1, <2>2, <2>4, <2>5
<1>. QED
  BY <1>3, <1>4, LoginHoldsKept

(* The end of a session leaves its object where it was cached. *)
LEMMA LoginInvalidateKeeps ==
  ASSUME NEW k \in DOMAIN Logins, Login(k)!ManagerSessionAssumption, Login(k)!IInv,
         NEW s \in Logins[k].Sessions, Login(k)!Invalidate(s), x2' = x2, x8[s] # "refresh"
  PROVE  /\ x6' \in [Logins[k].Sessions -> x2' \cup {Login(k)!New, Login(k)!Gone}]
              /\ x6' = [x6 EXCEPT ![s] = Login(k)!Gone]
         /\ x3' \in [Logins[k].Servers -> Logins[k].Sessions \cup {Login(k)!Bean, Logins[k].None}]
         /\ x4' \in [Logins[k].Servers -> Login(k)!Object] /\ x7' \in [Logins[k].Sessions -> Login(k)!Object]
         /\ x5' \in [Login(k)!Threads -> Login(k)!Refreshes]
         /\ \A x \in Login(k)!Threads : x5'[x].phase = x5[x].phase
         /\ \A x \in Login(k)!Threads : Login(k)!Holds(x)'
         /\ Login(k)!Placed'
<1>1. Login(k)!Blank \in Login(k)!Object
  BY DEF Login!Blank, Login!Object
<1>2. x7' = [x7 EXCEPT ![s] = Login(k)!Blank] /\ x6' = [x6 EXCEPT ![s] = Login(k)!Gone]
  BY DEF Login!Invalidate
<1>3. x6[s] \in x2 \cup {Login(k)!New, Login(k)!Gone} /\ x2 \subseteq Logins[k].Servers
        /\ {Login(k)!New, Login(k)!Gone} \cap Logins[k].Servers = {}
  BY DEF Login!IInv, Login!Typed, Login!ManagerSessionAssumption, Login!New, Login!Gone
<1>4. \A q \in Logins[k].Sessions : x6'[q] = x6[q]
                           \/ (x6[q] = x6[s] /\ q \in {s} /\ x8[q] # "refresh")
  BY <1>2 DEF Login!IInv, Login!Typed
<1>5. CASE x6[s] \in Logins[k].Servers /\ x3[x6[s]] = s
  <2>1. /\ x3' = [x3 EXCEPT ![x6[s]] = Login(k)!Bean] /\ x4' = [x4 EXCEPT ![x6[s]] = x7[s]]
        /\ Login(k)!Redirect(x6[s], {s}, Login(k)!Bean)
    BY <1>5 DEF Login!Invalidate, Login!KeepCached
  <2>2. \A v \in Logins[k].Servers : x3'[v] # s
    BY <1>5, <2>1 DEF Login!IInv, Login!Typed, Login!Placed,
        Login!ManagerSessionAssumption, Login!Bean
  <2>3. x3'[x6[s]] = Login(k)!Bean /\ \A w \in Logins[k].Servers : w # x6[s] => x3'[w] = x3[w]
    BY <1>5, <2>1 DEF Login!IInv, Login!Typed
  <2>4. /\ x5' \in [Login(k)!Threads -> Login(k)!Refreshes]
        /\ \A x \in Login(k)!Threads : x5'[x].phase = x5[x].phase
        /\ \A x \in Login(k)!Threads : Login(k)!Holds(x)'
    BY <1>4, <2>1, <2>3, LoginRedirectHolds
  <2>. QED
    BY <1>1, <1>2, <1>3, <1>5, <2>1, <2>2, <2>4 DEF Login!IInv, Login!Typed,
        Login!Placed, Login!ManagerSessionAssumption, Login!Bean, Login!New, Login!Gone
<1>6. CASE ~(x6[s] \in Logins[k].Servers /\ x3[x6[s]] = s)
  <2>1. x3' = x3 /\ x4' = x4 /\ Login(k)!Redirect(x6[s], {s}, Login(k)!Lost)
    BY <1>6 DEF Login!Invalidate, Login!KeepCached
  <2>2. \A v \in Logins[k].Servers : x3[v] # s
    BY <1>6 DEF Login!IInv, Login!Typed, Login!Placed
  <2>3. Login(k)!Lost \in {Login(k)!Bean, Login(k)!Lost} /\ Login(k)!Lost # Login(k)!Bean
    BY DEF Login!Lost, Login!Bean
  <2>4. /\ x5' \in [Login(k)!Threads -> Login(k)!Refreshes]
        /\ \A x \in Login(k)!Threads : x5'[x].phase = x5[x].phase
        /\ \A x \in Login(k)!Threads : Login(k)!Holds(x)'
    BY <1>4, <2>1, <2>3, LoginRedirectHolds
  <2>. QED
    BY <1>1, <1>2, <1>3, <2>1, <2>2, <2>4 DEF Login!IInv, Login!Typed, Login!Placed,
        Login!ManagerSessionAssumption, Login!Bean, Login!New, Login!Gone
<1>. QED
  BY <1>5, <1>6

(* A cache takes the object of a session that is on its server. *)
LEMMA LoginAddKeeps ==
  ASSUME NEW k \in DOMAIN Logins, Login(k)!ManagerSessionAssumption, Login(k)!IInv,
         NEW s \in Logins[k].Sessions, NEW old, x6[s] \in Logins[k].Servers, Login(k)!Add(s, x6[s], old),
         x6' = x6, x7' \in [Logins[k].Sessions -> Login(k)!Object], x7'[s].server = x6[s],
         \A q \in Logins[k].Sessions \ {s} : x7'[q] = x7[q]
  PROVE  /\ x3' \in [Logins[k].Servers -> Logins[k].Sessions \cup {Login(k)!Bean, Logins[k].None}]
              /\ x4' \in [Logins[k].Servers -> Login(k)!Object]
         /\ x5' \in [Login(k)!Threads -> Login(k)!Refreshes]
         /\ \A x \in Login(k)!Threads : x5'[x].phase = x5[x].phase
         /\ \A x \in Login(k)!Threads : Login(k)!Holds(x)'
         /\ Login(k)!Placed'
<1>1. /\ x3' = [x3 EXCEPT ![x6[s]] = s] /\ x4' = [x4 EXCEPT ![x6[s]] = Login(k)!Blank]
      /\ Login(k)!Replace(x6[s], {Login(k)!Bean} \cup old, TRUE)
  BY DEF Login!Add
<1>2. Login(k)!Blank \in Login(k)!Object
  BY DEF Login!Blank, Login!Object
<1>3. \A w \in Logins[k].Servers : w # x6[s] => x3'[w] = x3[w]
  BY <1>1 DEF Login!IInv, Login!Typed
<1>. DEFINE from == {Login(k)!Bean} \cup old
<1>a. Login(k)!Bean \in from /\ TRUE \in BOOLEAN /\ Login(k)!Replace(x6[s], from, TRUE)
  BY <1>1
<1>. HIDE DEF from
<1>4. /\ x5' \in [Login(k)!Threads -> Login(k)!Refreshes]
      /\ \A x \in Login(k)!Threads : x5'[x].phase = x5[x].phase
      /\ \A x \in Login(k)!Threads : Login(k)!Holds(x)'
  BY <1>a, <1>3, LoginReplaceHolds
<1>5. Login(k)!Placed'
  BY <1>1 DEF Login!IInv, Login!Typed, Login!Placed, Login!ManagerSessionAssumption,
      Login!Bean
<1>. QED
  BY <1>1, <1>2, <1>4, <1>5 DEF Login!IInv, Login!Typed

(* It lets an object go. *)
LEMMA LoginRemoveKeeps ==
  ASSUME NEW k \in DOMAIN Logins, Login(k)!ManagerSessionAssumption, Login(k)!IInv,
         NEW v \in Logins[k].Servers, Login(k)!Remove(v), x6' = x6, x7' = x7
  PROVE  /\ x3' \in [Logins[k].Servers -> Logins[k].Sessions \cup {Login(k)!Bean, Logins[k].None}]
              /\ x4' \in [Logins[k].Servers -> Login(k)!Object]
         /\ x5' \in [Login(k)!Threads -> Login(k)!Refreshes]
         /\ \A x \in Login(k)!Threads : x5'[x].phase = x5[x].phase
         /\ \A x \in Login(k)!Threads : Login(k)!Holds(x)'
         /\ Login(k)!Placed'
<1>1. /\ x3' = [x3 EXCEPT ![v] = Logins[k].None] /\ x4' = [x4 EXCEPT ![v] = Login(k)!Blank]
      /\ Login(k)!Replace(v, {Login(k)!Bean}, FALSE)
  BY DEF Login!Remove
<1>2. Login(k)!Blank \in Login(k)!Object
  BY DEF Login!Blank, Login!Object
<1>3. \A w \in Logins[k].Servers : w # v => x3'[w] = x3[w]
  BY <1>1 DEF Login!IInv, Login!Typed
<1>4. /\ x5' \in [Login(k)!Threads -> Login(k)!Refreshes]
      /\ \A x \in Login(k)!Threads : x5'[x].phase = x5[x].phase
      /\ \A x \in Login(k)!Threads : Login(k)!Holds(x)'
  BY <1>1, <1>3, LoginReplaceHolds
<1>5. Login(k)!Placed'
  BY <1>1 DEF Login!IInv, Login!Typed, Login!Placed, Login!ManagerSessionAssumption,
      Login!Bean
<1>. QED
  BY <1>1, <1>2, <1>4, <1>5 DEF Login!IInv, Login!Typed

(* A refresh that starts. *)
LEMMA LoginReadRowsKeeps ==
  ASSUME NEW k \in DOMAIN Logins, Login(k)!ManagerSessionAssumption, Login(k)!IInv,
         NEW x \in Login(k)!Threads, NEW v \in x2, Login(k)!ReadRows(x, v), Login(k)!Home(x) = v,
         x6' = x6, x3' = x3
  PROVE  /\ x5' \in [Login(k)!Threads -> Login(k)!Refreshes]
         /\ \A y \in Login(k)!Threads : y # x => x5'[y] = x5[y]
         /\ \A y \in Login(k)!Threads : Login(k)!Holds(y)'
<1>. DEFINE r == [phase |-> IF Login(k)!Rows(v) = {} THEN "check" ELSE "find", rows |-> Login(k)!Rows(v),
              target |-> Logins[k].None,
                  fresh |-> FALSE, older |-> Login(k)!Running(v)]
<1>1. Login(k)!Rows(v) \in SUBSET Login(k)!Row /\ \A row \in Login(k)!Rows(v) : row.server = v
  BY DEF Login!IInv, Login!Typed, Login!Rows
<1>2. r \in Login(k)!Refreshes /\ r.rows = Login(k)!Rows(v) /\ r.target = Logins[k].None
  BY <1>1 DEF Login!Refreshes, Login!Phases, Login!Running
<1>3. x5' = [x5 EXCEPT ![x] = r]
  BY DEF Login!ReadRows
<1>. HIDE DEF r
<1>4. /\ x5' \in [Login(k)!Threads -> Login(k)!Refreshes] /\ x5'[x] = r
      /\ \A y \in Login(k)!Threads : y # x => x5'[y] = x5[y]
  BY <1>2, <1>3 DEF Login!IInv, Login!Typed
<1>5. ASSUME NEW y \in Login(k)!Threads
      PROVE  Login(k)!Holds(y)'
  <2>1. Login(k)!Home(y)' = Login(k)!Home(y)
    BY DEF Login!Home
  <2>2. CASE y = x
    BY <1>1, <1>2, <1>4, <2>1, <2>2 DEF Login!Holds, Login!ManagerSessionAssumption,
        Login!Bean
  <2>3. CASE y # x
    BY <1>4, <2>1, <2>3 DEF Login!Holds, Login!IInv, Login!Bean
  <2>. QED
    BY <2>2, <2>3
<1>. QED
  BY <1>4, <1>5

-----------------------------------------------------------------------------
(* What a step leaves typed. *)
LEMMA LoginTypedKept ==
  ASSUME NEW k \in DOMAIN Logins, Login(k)!ManagerSessionAssumption, Login(k)!IInv, x1' \in Login(k)!Row,
         x2' = x2, x3' \in [Logins[k].Servers -> Logins[k].Sessions \cup {Login(k)!Bean, Logins[k].None}],
         x4' \in [Logins[k].Servers -> Login(k)!Object], x7' \in [Logins[k].Sessions -> Login(k)!Object],
           x5' \in [Login(k)!Threads -> Login(k)!Refreshes],
         x8' \in [Logins[k].Sessions -> Login(k)!Steps], x9' \in [Logins[k].Sessions -> Nat],
           x6' \in [Logins[k].Sessions -> x2 \cup {Login(k)!New, Login(k)!Gone}],
         \A q \in Logins[k].Sessions : x8'[q] # "idle" => x6'[q] \in x2,
         \A q \in Logins[k].Sessions : x5'[q].phase # "rest" => x8'[q] = "refresh",
         \A v \in Logins[k].Servers : x5'[v].phase # "rest" => v \in x2
  PROVE  Login(k)!Typed'
BY DEF Login!IInv, Login!Typed, Login!New, Login!Gone, Login!Bean

(* A handler that is not a refresh goes on to a step that is none. *)
LEMMA LoginStepKeeps ==
  ASSUME NEW k \in DOMAIN Logins, Login(k)!ManagerSessionAssumption, Login(k)!IInv,
         NEW s \in Logins[k].Sessions, NEW f, NEW t \in Login(k)!Steps, Login(k)!Step(s, f, t), f # "refresh"
  PROVE  /\ x8' = [x8 EXCEPT ![s] = t] /\ x8' \in [Logins[k].Sessions -> Login(k)!Steps] /\ x8[s] = f
         /\ x5[s].phase = "rest"
         /\ \A q \in Logins[k].Sessions : x5[q].phase # "rest" => x8'[q] = "refresh"
BY DEF Login!IInv, Login!Typed, Login!Step

-----------------------------------------------------------------------------
(* The steps of the handlers of one session. *)
LEMMA LoginSessionStep ==
  ASSUME NEW k \in DOMAIN Logins, Login(k)!ManagerSessionAssumption, Login(k)!IInv,
         NEW s \in Logins[k].Sessions,
         \/ \E v \in Logins[k].Servers : Login(k)!login(s, v)
         \/ Login(k)!Serve(s) \/ Login(k)!Refuse(s) \/ Login(k)!AdoptCheck(s) \/ Login(k)!logout(s)
              \/ Login(k)!changePassword(s)
  PROVE  Login(k)!IInv'
<1>0. /\ {"idle", "asked", "login", "logout", "adopt", "store", "changed", "refresh"} \subseteq Login(k)!Steps
      /\ {Login(k)!New, Login(k)!Gone} \cap Logins[k].Servers = {} /\ x2 \subseteq Logins[k].Servers
      /\ x6 \in [Logins[k].Sessions -> x2 \cup {Login(k)!New, Login(k)!Gone}] /\ x1 \in Login(k)!Row
      /\ \A q \in Logins[k].Sessions : x8[q] # "idle" => x6[q] \in x2
      /\ \A v \in Logins[k].Servers : x5[v].phase # "rest" => v \in x2
      /\ \A q \in Logins[k].Sessions : x5[q].phase # "rest" => x8[q] = "refresh"
  BY DEF Login!IInv, Login!Typed, Login!ManagerSessionAssumption, Login!New, Login!Gone,
      Login!Steps
<1>1. ASSUME NEW v \in Logins[k].Servers, Login(k)!login(s, v)
      PROVE  Login(k)!IInv'
  <2>1. /\ Login(k)!Step(s, "idle", "asked") /\ v \in x2 /\ x6[s] \in {Login(k)!New, v}
             /\ x6' = [x6 EXCEPT ![s] = v]
        /\ UNCHANGED <<x1, x2, x3, x4, x5, x7, x9>>
    BY <1>1 DEF Login!login, Login!serverVars
  <2>2. /\ x8' = [x8 EXCEPT ![s] = "asked"] /\ x8' \in [Logins[k].Sessions -> Login(k)!Steps]
        /\ x5[s].phase = "rest" /\ \A q \in Logins[k].Sessions : x5[q].phase # "rest" => x8'[q] = "refresh"
    BY <1>0, <2>1, LoginStepKeeps
  <2>3. /\ x6' \in [Logins[k].Sessions -> x2 \cup {Login(k)!New, Login(k)!Gone}]
             /\ \A q \in Logins[k].Sessions : x8'[q] # "idle" => x6'[q] \in x2
    BY <1>0, <2>1, <2>2 DEF Login!IInv, Login!Typed
  <2>4. \A q \in Logins[k].Sessions :
          x6'[q] = x6[q] \/ (x6[q] \notin Logins[k].Servers /\ x5[q].phase = "rest")
    BY <1>0, <2>1, <2>2
  <2>5. \A x \in Login(k)!Threads : Login(k)!Holds(x)'
    BY <2>1, <2>4, LoginHoldsUntouched
  <2>6. Login(k)!Typed'
    BY <1>0, <2>1, <2>2, <2>3, LoginTypedKept DEF Login!IInv, Login!Typed
  <2>7. Login(k)!Placed'
    BY <1>0, <2>1 DEF Login!IInv, Login!Typed, Login!Placed,
        Login!ManagerSessionAssumption, Login!Bean
  <2>. QED
    BY <2>5, <2>6, <2>7 DEF Login!IInv
<1>2. ASSUME NEW f, NEW t \in Login(k)!Steps, Login(k)!Step(s, f, t), f \notin {"idle", "refresh"},
             x1' \in Login(k)!Row,
             x9' \in [Logins[k].Sessions -> Nat], UNCHANGED <<Login(k)!serverVars, x6, x7>>
      PROVE  Login(k)!IInv'
  <2>1. UNCHANGED <<x2, x3, x4, x5, x6, x7>>
    BY <1>2 DEF Login!serverVars
  <2>2. /\ x8' = [x8 EXCEPT ![s] = t] /\ x8' \in [Logins[k].Sessions -> Login(k)!Steps] /\ x8[s] = f
        /\ \A q \in Logins[k].Sessions : x5[q].phase # "rest" => x8'[q] = "refresh"
    BY <1>2, LoginStepKeeps
  <2>3. \A x \in Login(k)!Threads : Login(k)!Holds(x)'
    BY <2>1, LoginHoldsUntouched
  <2>4. Login(k)!Typed'
    BY <1>0, <1>2, <2>1, <2>2, LoginTypedKept DEF Login!IInv, Login!Typed
  <2>5. Login(k)!Placed'
    BY <2>1 DEF Login!IInv, Login!Placed, Login!Bean
  <2>. QED
    BY <2>3, <2>4, <2>5 DEF Login!IInv
<1>3. CASE Login(k)!LoginRefused(s)
  <2>1. x9' \in [Logins[k].Sessions -> Nat] /\ x1' \in Login(k)!Row
    BY <1>0, <1>3 DEF Login!LoginRefused, Login!IInv, Login!Typed
  <2>. QED
    BY <1>0, <1>2, <1>3, <2>1 DEF Login!LoginRefused
<1>4. CASE Login(k)!managerAuthenticate(s)
  <2>1. x6[s] \in Logins[k].Servers
    BY <1>0, <1>4 DEF Login!managerAuthenticate, Login!Step
  <2>2. x1' \in Login(k)!Row
    BY <1>0, <1>4, <2>1, LoginRowChanges DEF Login!managerAuthenticate
  <2>3. x9' \in [Logins[k].Sessions -> Nat]
    BY <1>0, <1>4 DEF Login!managerAuthenticate, Login!Row, Login!IInv, Login!Typed
  <2>. QED
    BY <1>0, <1>2, <1>4, <2>2, <2>3 DEF Login!managerAuthenticate
<1>5. CASE Login(k)!AdoptStore(s)
  <2>1. x6[s] \in Logins[k].Servers
    BY <1>0, <1>5 DEF Login!AdoptStore, Login!Step
  <2>2. x1' \in Login(k)!Row
    BY <1>0, <1>5, <2>1, LoginRowChanges DEF Login!AdoptStore
  <2>. QED
    BY <1>0, <1>2, <1>5, <2>2 DEF Login!AdoptStore, Login!IInv, Login!Typed
<1>6. ASSUME NEW t \in Login(k)!Steps, Login(k)!Step(s, "idle", t), x6[s] \in x2, x1' \in Login(k)!Row,
             UNCHANGED <<Login(k)!serverVars, x6, x7, x9>>
      PROVE  Login(k)!IInv'
  <2>1. UNCHANGED <<x2, x3, x4, x5, x6, x7, x9>>
    BY <1>6 DEF Login!serverVars
  <2>2. /\ x8' = [x8 EXCEPT ![s] = t] /\ x8' \in [Logins[k].Sessions -> Login(k)!Steps]
        /\ \A q \in Logins[k].Sessions : x5[q].phase # "rest" => x8'[q] = "refresh"
    BY <1>6, LoginStepKeeps
  <2>3. \A x \in Login(k)!Threads : Login(k)!Holds(x)'
    BY <2>1, LoginHoldsUntouched
  <2>4. Login(k)!Typed'
    BY <1>0, <1>6, <2>1, <2>2, LoginTypedKept DEF Login!IInv, Login!Typed
  <2>5. Login(k)!Placed'
    BY <2>1 DEF Login!IInv, Login!Placed, Login!Bean
  <2>. QED
    BY <2>3, <2>4, <2>5 DEF Login!IInv
<1>7. CASE Login(k)!AdoptCheck(s)
  <2>1. x6[s] \in x2 /\ x1' \in Login(k)!Row
    BY <1>0, <1>7 DEF Login!AdoptCheck, Login!SignedIn
  <2>. QED
    BY <1>0, <1>6, <1>7, <2>1 DEF Login!AdoptCheck
<1>8. CASE Login(k)!changePassword(s)
  <2>1. x6[s] \in x2
    BY <1>0, <1>8 DEF Login!changePassword, Login!Passes, Login!SignedIn
  <2>2. x1' \in Login(k)!Row
    BY <1>0, <1>8, LoginRowChanges DEF Login!changePassword
  <2>. QED
    BY <1>0, <1>6, <1>8, <2>1, <2>2 DEF Login!changePassword
<1>9. ASSUME NEW f \in {"login", "adopt"}, NEW t \in {"idle", "store"}, NEW old, Login(k)!Step(s, f, t),
             Login(k)!Add(s, x6[s], old),
             UNCHANGED <<x1, x2, x6>>, x9' \in [Logins[k].Sessions -> Nat],
               x7' \in [Logins[k].Sessions -> Login(k)!Object],
             x7'[s].server = x6[s], \A q \in Logins[k].Sessions \ {s} : x7'[q] = x7[q]
      PROVE  Login(k)!IInv'
  <2>1. /\ x8' = [x8 EXCEPT ![s] = t] /\ x8' \in [Logins[k].Sessions -> Login(k)!Steps] /\ x8[s] = f
        /\ \A q \in Logins[k].Sessions : x5[q].phase # "rest" => x8'[q] = "refresh"
    BY <1>0, <1>9, LoginStepKeeps
  <2>2. x6[s] \in Logins[k].Servers
    BY <1>0, <1>9, <2>1
  <2>3. /\ x3' \in [Logins[k].Servers -> Logins[k].Sessions \cup {Login(k)!Bean, Logins[k].None}]
             /\ x4' \in [Logins[k].Servers -> Login(k)!Object]
        /\ x5' \in [Login(k)!Threads -> Login(k)!Refreshes]
        /\ \A x \in Login(k)!Threads : x5'[x].phase = x5[x].phase
        /\ \A x \in Login(k)!Threads : Login(k)!Holds(x)'
        /\ Login(k)!Placed'
    BY <1>9, <2>2, LoginAddKeeps
  <2>4. Login(k)!Typed'
    BY <1>0, <1>9, <2>1, <2>3, LoginTypedKept DEF Login!Threads
  <2>. QED
    BY <2>3, <2>4 DEF Login!IInv
<1>10. CASE Login(k)!LoginAnswer(s)
  <2>1. x6[s] \in Logins[k].Servers /\ Login(k)!Step(s, "login", "idle") /\ Login(k)!Add(s, x6[s], {s})
          /\ UNCHANGED <<x1, x2, x6>>
    BY <1>0, <1>10 DEF Login!LoginAnswer, Login!Step
  <2>2. [session |-> s, server |-> x6[s], stamp |-> x9[s]] \in Login(k)!Object
    BY <2>1 DEF Login!Object, Login!IInv, Login!Typed
  <2>3. x7' = [x7 EXCEPT ![s] = [session |-> s, server |-> x6[s], stamp |-> x9[s]]]
        /\ x9' = [x9 EXCEPT ![s] = 0]
    BY <1>10 DEF Login!LoginAnswer
  <2>4. /\ x7' \in [Logins[k].Sessions -> Login(k)!Object] /\ x7'[s].server = x6[s]
             /\ \A q \in Logins[k].Sessions \ {s} : x7'[q] = x7[q]
        /\ x9' \in [Logins[k].Sessions -> Nat]
    BY <2>2, <2>3 DEF Login!IInv, Login!Typed
  <2>. QED
    BY <1>9, <2>1, <2>4
<1>11. CASE Login(k)!AdoptAdd(s)
  <2>1. /\ x6[s] \in Logins[k].Servers /\ Login(k)!Step(s, "adopt", "store") /\ Login(k)!Add(s, x6[s], {})
             /\ UNCHANGED <<x1, x2, x6, x9>>
    BY <1>0, <1>11 DEF Login!AdoptAdd, Login!Step
  <2>2. [x7[s] EXCEPT !.server = x6[s]] \in Login(k)!Object /\ [x7[s] EXCEPT !.server = x6[s]].server = x6[s]
    BY <2>1 DEF Login!Object, Login!IInv, Login!Typed
  <2>3. x7' = [x7 EXCEPT ![s] = [x7[s] EXCEPT !.server = x6[s]]]
    BY <1>11 DEF Login!AdoptAdd, Login!NewServer
  <2>4. /\ x7' \in [Logins[k].Sessions -> Login(k)!Object] /\ x7'[s].server = x6[s]
             /\ \A q \in Logins[k].Sessions \ {s} : x7'[q] = x7[q]
        /\ x9' \in [Logins[k].Sessions -> Nat]
    BY <2>1, <2>2, <2>3 DEF Login!IInv, Login!Typed
  <2>. QED
    BY <1>9, <2>1, <2>4
<1>12. ASSUME Login(k)!Invalidate(s), x2' = x2, x8[s] # "refresh", x1' \in Login(k)!Row, x9' = x9,
              x8' = [x8 EXCEPT ![s] = "idle"]
       PROVE  Login(k)!IInv'
  <2>1. /\ x6' \in [Logins[k].Sessions -> x2 \cup {Login(k)!New, Login(k)!Gone}]
             /\ x6' = [x6 EXCEPT ![s] = Login(k)!Gone]
        /\ x3' \in [Logins[k].Servers -> Logins[k].Sessions \cup {Login(k)!Bean, Logins[k].None}]
        /\ x4' \in [Logins[k].Servers -> Login(k)!Object] /\ x7' \in [Logins[k].Sessions -> Login(k)!Object]
        /\ x5' \in [Login(k)!Threads -> Login(k)!Refreshes]
        /\ \A x \in Login(k)!Threads : x5'[x].phase = x5[x].phase
        /\ \A x \in Login(k)!Threads : Login(k)!Holds(x)'
        /\ Login(k)!Placed'
    BY <1>12, LoginInvalidateKeeps DEF Login!New, Login!Gone, Login!Bean
  <2>2. /\ x8' \in [Logins[k].Sessions -> Login(k)!Steps] /\ \A q \in Logins[k].Sessions :
             x8'[q] # "idle" => x6'[q] \in x2
        /\ \A q \in Logins[k].Sessions : x5[q].phase # "rest" => x8'[q] = "refresh"
    BY <1>0, <1>12, <2>1 DEF Login!IInv, Login!Typed
  <2>3. Login(k)!Typed'
    BY <1>0, <1>12, <2>1, <2>2, LoginTypedKept DEF Login!Threads, Login!IInv, Login!Typed
  <2>. QED
    BY <2>1, <2>3 DEF Login!IInv
<1>13. CASE Login(k)!Refuse(s)
  <2>1. x8' = [x8 EXCEPT ![s] = "idle"]
    BY <1>13 DEF Login!Refuse, Login!IInv, Login!Typed
  <2>. QED
    BY <1>0, <1>12, <1>13, <2>1 DEF Login!Refuse
<1>14. CASE Login(k)!logout(s)
  <2>1. CASE Login(k)!IsCachedSession(s)
    <3>1. /\ Login(k)!Step(s, "idle", "logout") /\ Login(k)!Remove(x6[s]) /\ UNCHANGED <<x1, x2, x6, x7, x9>>
               /\ x6[s] \in x2
      BY <1>0, <1>14, <2>1 DEF Login!logout, Login!SignedIn
    <3>2. /\ x8' = [x8 EXCEPT ![s] = "logout"] /\ x8' \in [Logins[k].Sessions -> Login(k)!Steps]
          /\ \A q \in Logins[k].Sessions : x5[q].phase # "rest" => x8'[q] = "refresh"
      BY <1>0, <3>1, LoginStepKeeps
    <3>3. /\ x3' \in [Logins[k].Servers -> Logins[k].Sessions \cup {Login(k)!Bean, Logins[k].None}]
               /\ x4' \in [Logins[k].Servers -> Login(k)!Object]
          /\ x5' \in [Login(k)!Threads -> Login(k)!Refreshes]
          /\ \A x \in Login(k)!Threads : x5'[x].phase = x5[x].phase
          /\ \A x \in Login(k)!Threads : Login(k)!Holds(x)'
          /\ Login(k)!Placed'
      BY <1>0, <3>1, LoginRemoveKeeps
    <3>4. Login(k)!Typed'
      BY <1>0, <3>1, <3>2, <3>3, LoginTypedKept DEF Login!Threads, Login!IInv,
          Login!Typed
    <3>. QED
      BY <3>3, <3>4 DEF Login!IInv
  <2>2. CASE ~Login(k)!IsCachedSession(s)
    <3>1. x8[s] = "idle" /\ Login(k)!Invalidate(s) /\ UNCHANGED <<x8, x1, x2, x9>>
      BY <1>14, <2>2 DEF Login!logout
    <3>2. x8' = [x8 EXCEPT ![s] = "idle"]
      BY <3>1 DEF Login!IInv, Login!Typed
    <3>. QED
      BY <1>0, <1>12, <3>1, <3>2
  <2>. QED
    BY <2>1, <2>2
<1>15. CASE Login(k)!LogoutStore(s)
  <2>1. x1' = x1 \/ x1' = [x1 EXCEPT !.session = Logins[k].None, !.server = Logins[k].None, !.stamp = @ + 1]
    BY <1>15 DEF Login!LogoutStore
  <2>2. x1' \in Login(k)!Row
    BY <1>0, <2>1, LoginRowChanges
  <2>. QED
    BY <1>12, <1>15, <2>2 DEF Login!LogoutStore, Login!Step
<1>16. CASE Login(k)!ChangeRefresh(s)
  <2>1. Login(k)!Step(s, "changed", "refresh") /\ Login(k)!ReadRows(s, x6[s])
          /\ UNCHANGED <<x1, x2, x3, x4, x6, x7, x9>>
    BY <1>16 DEF Login!ChangeRefresh
  <2>2. /\ x8' = [x8 EXCEPT ![s] = "refresh"] /\ x8' \in [Logins[k].Sessions -> Login(k)!Steps]
             /\ x8[s] = "changed"
        /\ \A q \in Logins[k].Sessions : x5[q].phase # "rest" => x8'[q] = "refresh"
    BY <1>0, <2>1, LoginStepKeeps
  <2>3. x6[s] \in x2 /\ s \in Login(k)!Threads /\ s \notin Logins[k].Servers /\ Login(k)!Home(s) = x6[s]
    BY <1>0, <2>2 DEF Login!Threads, Login!Home, Login!ManagerSessionAssumption
  <2>4. /\ x5' \in [Login(k)!Threads -> Login(k)!Refreshes]
        /\ \A y \in Login(k)!Threads : y # s => x5'[y] = x5[y]
        /\ \A y \in Login(k)!Threads : Login(k)!Holds(y)'
    BY <2>1, <2>3, LoginReadRowsKeeps
  <2>5. /\ \A q \in Logins[k].Sessions : x5'[q].phase # "rest" => x8'[q] = "refresh"
        /\ \A q \in Logins[k].Sessions : x8'[q] # "idle" => x6'[q] \in x2
        /\ \A v \in Logins[k].Servers : x5'[v].phase # "rest" => v \in x2
    BY <1>0, <2>1, <2>2, <2>3, <2>4 DEF Login!Threads, Login!IInv, Login!Typed
  <2>6. Login(k)!Typed'
    BY <1>0, <2>1, <2>2, <2>4, <2>5, LoginTypedKept DEF Login!IInv, Login!Typed
  <2>7. Login(k)!Placed'
    BY <2>1 DEF Login!IInv, Login!Placed, Login!Bean
  <2>. QED
    BY <2>4, <2>6, <2>7 DEF Login!IInv
<1>. QED
  BY <1>1, <1>3, <1>4, <1>5, <1>7, <1>8, <1>10, <1>11, <1>13, <1>14, <1>15, <1>16 DEF
      Login!Serve

(* What a refresh writes names the server it runs on. *)
LEMMA LoginRefreshStep ==
  ASSUME NEW k \in DOMAIN Logins, Login(k)!ManagerSessionAssumption, Login(k)!IInv,
         NEW x \in Login(k)!Threads, Login(k)!RefreshApply(x)
  PROVE  Login(k)!IInv'
<1>. DEFINE v == Login(k)!Home(x)
<1>0. /\ UNCHANGED <<x1, x2, x6, x9>> /\ x5[x].phase # "rest"
      /\ Login(k)!RefreshFind(x) \/ Login(k)!RefreshWrite(x) \/ Login(k)!RefreshCheck(x)
           \/ Login(k)!RefreshRemove(x)
  BY DEF Login!RefreshApply, Login!RefreshFind, Login!RefreshWrite, Login!RefreshCheck,
      Login!RefreshRemove
<1>1. v \in Logins[k].Servers /\ v \in x2 /\ Login(k)!Holds(x) /\ x5[x] \in Login(k)!Refreshes
  BY <1>0, LoginRefreshPlace DEF Login!IInv, Login!Typed
<1>2. \A y \in Login(k)!Threads :
        x5[y] \in Login(k)!Refreshes /\ Login(k)!Holds(y) /\ Login(k)!Home(y)' = Login(k)!Home(y)
  BY <1>0 DEF Login!IInv, Login!Typed, Login!Home
<1>3. /\ \A y \in Login(k)!Threads : \A f \in BOOLEAN : [x5[y] EXCEPT !.fresh = f] \in Login(k)!Refreshes
      /\ \A y \in Login(k)!Threads : \A f \in BOOLEAN :
           LET r == [x5[y] EXCEPT !.fresh = f] IN
           r.phase = x5[y].phase /\ r.rows = x5[y].rows /\ r.target = x5[y].target
  BY <1>2 DEF Login!Refreshes
<1>4. Login(k)!Rest \in Login(k)!Refreshes /\ Login(k)!Rest.phase = "rest"
  BY DEF Login!Rest, Login!Refreshes, Login!Phases
(* The rest follows when the refreshes keep their phases and what they hold. *)
<1>5. ASSUME x8' = x8, x3' \in [Logins[k].Servers -> Logins[k].Sessions \cup {Login(k)!Bean, Logins[k].None}],
             x4' \in [Logins[k].Servers -> Login(k)!Object], x7' \in [Logins[k].Sessions -> Login(k)!Object],
               Login(k)!Placed',
             x5' \in [Login(k)!Threads -> Login(k)!Refreshes],
             \A y \in Login(k)!Threads : x5'[y].phase # "rest" => x5[y].phase # "rest",
             \A y \in Login(k)!Threads : Login(k)!Holds(y)'
      PROVE  Login(k)!IInv'
  <2>1. Login(k)!Typed'
    BY <1>0, <1>5, LoginTypedKept DEF Login!IInv, Login!Typed, Login!Threads
  <2>. QED
    BY <1>5, <2>1 DEF Login!IInv
<1>6. CASE Login(k)!RefreshFind(x)
  <2>0. x7' = x7 /\ x8' = x8 /\ x5[x].phase = "find"
    BY <1>6 DEF Login!RefreshFind
  <2>1. \A t \in Logins[k].Sessions \cup {Login(k)!Bean} :
          LET r == [x5[x] EXCEPT !.phase = "write", !.target = t] IN
          r \in Login(k)!Refreshes /\ r.phase = "write" /\ r.rows = x5[x].rows /\ r.target = t
    BY <1>1 DEF Login!Refreshes, Login!Phases
  <2>2. CASE /\ x3[v] # Logins[k].None /\ UNCHANGED <<x3, x4>>
             /\ x5' = [x5 EXCEPT ![x] = [x5[x] EXCEPT !.phase = "write", !.target = x3[v]]]
    <3>1. x3[v] \in Logins[k].Sessions \cup {Login(k)!Bean} /\ (x3[v] \in Logins[k].Sessions => x6[x3[v]] = v)
      BY <1>1, <2>2 DEF Login!IInv, Login!Typed, Login!Placed
    <3>2. /\ x5' \in [Login(k)!Threads -> Login(k)!Refreshes] /\ x5'[x].rows = x5[x].rows
          /\ x5'[x].target = x3[v] /\ \A y \in Login(k)!Threads : y # x => x5'[y] = x5[y]
      BY <2>1, <2>2, <3>1 DEF Login!IInv, Login!Typed
    <3>3. ASSUME NEW y \in Login(k)!Threads
          PROVE  Login(k)!Holds(y)'
      <4>1. CASE y = x
        BY <1>0, <1>1, <1>2, <2>2, <3>1, <3>2, <4>1 DEF Login!Holds, Login!Bean
      <4>2. CASE y # x
        BY <1>0, <1>2, <2>2, <3>2, <4>2 DEF Login!Holds, Login!Bean
      <4>. QED
        BY <4>1, <4>2
    <3>4. /\ x3' \in [Logins[k].Servers -> Logins[k].Sessions \cup {Login(k)!Bean, Logins[k].None}]
          /\ x4' \in [Logins[k].Servers -> Login(k)!Object]
               /\ x7' \in [Logins[k].Sessions -> Login(k)!Object] /\ Login(k)!Placed'
      BY <1>0, <2>0, <2>2 DEF Login!IInv, Login!Typed, Login!Placed, Login!Bean
    <3>. QED
      BY <1>0, <1>5, <2>0, <3>2, <3>3, <3>4
  <2>3. ASSUME NEW row \in x5[x].rows, x3[v] = Logins[k].None,
               x3' = [x3 EXCEPT ![v] = Login(k)!Bean], x4' = [x4 EXCEPT ![v] = Login(k)!Copy(row)],
               x5' = [y \in Login(k)!Threads |->
                 IF y = x THEN [x5[x] EXCEPT !.phase = "write", !.target = Login(k)!Bean]
                 ELSE IF y \in Login(k)!Running(v) THEN [x5[y] EXCEPT !.fresh = FALSE] ELSE x5[y]]
        PROVE  Login(k)!IInv'
    <3>1. Login(k)!Copy(row) \in Login(k)!Object /\ Login(k)!Copy(row).server = v
      BY <1>0, <1>1, <2>3 DEF Login!Holds, Login!Copy, Login!Object, Login!Row,
          Login!Refreshes
    <3>2. /\ x5' \in [Login(k)!Threads -> Login(k)!Refreshes] /\ x5'[x].rows = x5[x].rows
               /\ x5'[x].target = Login(k)!Bean
          /\ \A y \in Login(k)!Threads : y # x => /\ x5'[y].phase = x5[y].phase /\ x5'[y].rows = x5[y].rows
                                                  /\ x5'[y].target = x5[y].target
      BY <1>2, <1>3, <2>1, <2>3
    <3>3. x3'[v] = Login(k)!Bean /\ \A w \in Logins[k].Servers : w # v => x3'[w] = x3[w]
      BY <1>1, <2>3 DEF Login!IInv, Login!Typed
    <3>4. ASSUME NEW y \in Login(k)!Threads
          PROVE  Login(k)!Holds(y)'
      <4>1. CASE y = x
        BY <1>0, <1>1, <1>2, <3>2, <3>3, <4>1 DEF Login!Holds, Login!Bean,
            Login!ManagerSessionAssumption
      <4>2. CASE y # x
        <5>1. SUFFICES ASSUME x5'[y].phase # "rest"
                       PROVE  /\ \A q \in x5'[y].rows : q.server = Login(k)!Home(y)
                              /\ x5'[y].target \in Logins[k].Sessions => x6'[x5'[y].target] = Login(k)!Home(y)
                              /\ x5'[y].target = Login(k)!Bean => x3'[Login(k)!Home(y)] = Login(k)!Bean
          BY <1>2 DEF Login!Holds, Login!Bean
        <5>2. Login(k)!Home(y) \in Logins[k].Servers
          BY <3>2, <4>2, <5>1, LoginRefreshPlace
        <5>. QED
          BY <1>0, <1>2, <3>2, <3>3, <4>2, <5>1, <5>2 DEF Login!Holds
      <4>. QED
        BY <4>1, <4>2
    <3>5. /\ x3' \in [Logins[k].Servers -> Logins[k].Sessions \cup {Login(k)!Bean, Logins[k].None}]
          /\ x4' \in [Logins[k].Servers -> Login(k)!Object]
               /\ x7' \in [Logins[k].Sessions -> Login(k)!Object] /\ Login(k)!Placed'
      BY <1>0, <1>1, <2>0, <2>3, <3>1 DEF Login!IInv, Login!Typed, Login!Placed,
          Login!Bean, Login!ManagerSessionAssumption
    <3>. QED
      BY <1>0, <1>5, <2>0, <3>2, <3>4, <3>5
  <2>. QED
    BY <1>6, <2>2, <2>3 DEF Login!RefreshFind
<1>7. CASE Login(k)!RefreshWrite(x)
  <2>0. /\ x3' = x3 /\ x8' = x8
        /\ x5' = [y \in Login(k)!Threads |->
             IF y = x
               THEN [Login(k)!Stamped(x, x) EXCEPT !.phase = "check", !.rows = {}, !.target = Logins[k].None]
             ELSE IF y \in Login(k)!Running(v) THEN Login(k)!Stamped(x, y) ELSE x5[y]]
    BY <1>7 DEF Login!RefreshWrite
  <2>1. PICK row \in x5[x].rows : Login(k)!Overwrite(x5[x].target, v, row)
    BY <1>7 DEF Login!RefreshWrite
  <2>2. Login(k)!Copy(row) \in Login(k)!Object /\ Login(k)!Copy(row).server = v
    BY <1>0, <1>1, <2>1 DEF Login!Holds, Login!Copy, Login!Object, Login!Row,
        Login!Refreshes
  <2>3. ASSUME NEW y \in Login(k)!Threads
        PROVE  /\ Login(k)!Stamped(x, y) \in Login(k)!Refreshes /\ Login(k)!Stamped(x, y).phase = x5[y].phase
               /\ Login(k)!Stamped(x, y).rows = x5[y].rows /\ Login(k)!Stamped(x, y).target = x5[y].target
    <3>1. x5[y].fresh \in BOOLEAN /\ (x \notin x5[y].older) \in BOOLEAN
      BY <1>2 DEF Login!Refreshes
    <3>2. PICK f \in BOOLEAN : Login(k)!Stamped(x, y) = [x5[y] EXCEPT !.fresh = f]
      <4>1. CASE x5[x].target = x3[v]
        BY <3>1, <4>1 DEF Login!Stamped
      <4>2. CASE x5[x].target # x3[v]
        BY <3>1, <4>2 DEF Login!Stamped
      <4>. QED
        BY <4>1, <4>2
    <3>3. /\ [x5[y] EXCEPT !.fresh = f] \in Login(k)!Refreshes
          /\ [x5[y] EXCEPT !.fresh = f].phase = x5[y].phase
          /\ [x5[y] EXCEPT !.fresh = f].rows = x5[y].rows
          /\ [x5[y] EXCEPT !.fresh = f].target = x5[y].target
      BY <1>2 DEF Login!Refreshes
    <3>. QED
      BY <3>2, <3>3
  <2>4. LET r == [Login(k)!Stamped(x, x) EXCEPT !.phase = "check", !.rows = {}, !.target = Logins[k].None] IN
        r \in Login(k)!Refreshes /\ r.rows = {} /\ r.target = Logins[k].None
    BY <1>1, <2>3 DEF Login!Refreshes, Login!Phases
  <2>5. /\ x5' \in [Login(k)!Threads -> Login(k)!Refreshes] /\ x5'[x].rows = {}
             /\ x5'[x].target = Logins[k].None
        /\ \A y \in Login(k)!Threads : y # x => /\ x5'[y].phase = x5[y].phase /\ x5'[y].rows = x5[y].rows
                                                /\ x5'[y].target = x5[y].target
    BY <1>2, <2>0, <2>3, <2>4
  <2>6. ASSUME NEW y \in Login(k)!Threads
        PROVE  Login(k)!Holds(y)'
    <3>1. CASE y = x
      BY <2>5, <3>1 DEF Login!Holds, Login!Bean, Login!ManagerSessionAssumption
    <3>2. CASE y # x
      BY <1>0, <1>2, <2>0, <2>5, <3>2 DEF Login!Holds, Login!Bean
    <3>. QED
      BY <3>1, <3>2
  <2>7. /\ x4' \in [Logins[k].Servers -> Login(k)!Object] /\ x7' \in [Logins[k].Sessions -> Login(k)!Object]
             /\ Login(k)!Placed'
    <3>1. CASE x5[x].target = Login(k)!Bean
      <4>1. x7' = x7 /\ (x4' = x4 \/ x4' = [x4 EXCEPT ![v] = Login(k)!Copy(row)])
        BY <2>1, <3>1 DEF Login!Overwrite, Login!Bean, Login!ManagerSessionAssumption
      <4>. QED
        BY <1>0, <1>1, <2>0, <2>2, <4>1 DEF Login!IInv, Login!Typed, Login!Placed,
            Login!Bean
    <3>2. CASE x5[x].target \in Logins[k].Sessions
      <4>1. x4' = x4 /\ (x7' = x7 \/ x7' = [x7 EXCEPT ![x5[x].target] = Login(k)!Copy(row)])
        BY <2>1, <3>2 DEF Login!Overwrite, Login!Bean, Login!ManagerSessionAssumption
      <4>2. x6[x5[x].target] = v
        BY <1>0, <1>1, <3>2 DEF Login!Holds
      <4>. QED
        BY <1>0, <1>1, <2>0, <2>2, <3>2, <4>1, <4>2 DEF Login!IInv, Login!Typed,
            Login!Placed, Login!Bean
    <3>3. CASE x5[x].target # Login(k)!Bean /\ x5[x].target \notin Logins[k].Sessions
      <4>1. x4' = x4 /\ x7' = x7
        BY <2>1, <3>3 DEF Login!Overwrite
      <4>. QED
        BY <1>0, <2>0, <4>1 DEF Login!IInv, Login!Typed, Login!Placed, Login!Bean
    <3>. QED
      BY <3>1, <3>2, <3>3
  <2>8. x3' \in [Logins[k].Servers -> Logins[k].Sessions \cup {Login(k)!Bean, Logins[k].None}]
    BY <2>0 DEF Login!IInv, Login!Typed
  <2>. QED
    BY <1>0, <1>5, <2>0, <2>5, <2>6, <2>7, <2>8
(* A refresh that ends. *)
<1>8. ASSUME NEW r \in [Login(k)!Threads -> Login(k)!Refreshes], Login(k)!Returns(x),
             x5' = Login(k)!Ended(x, r),
             \A y \in Login(k)!Threads : /\ r[y].phase = x5[y].phase /\ r[y].rows = x5[y].rows
                                         /\ r[y].target = x5[y].target
                                            \/ (r[y].target = Login(k)!Lost /\ x5[y].target = Login(k)!Bean
                                                 /\ Login(k)!Home(y) = v),
             \A y \in Login(k)!Threads :
               y # x /\ r[y].phase # "rest" /\ r[y].target = Login(k)!Bean
                 => x3'[Login(k)!Home(y)] = Login(k)!Bean,
             x3' \in [Logins[k].Servers -> Logins[k].Sessions \cup {Login(k)!Bean, Logins[k].None}],
               x4' \in [Logins[k].Servers -> Login(k)!Object], x7' = x7, Login(k)!Placed'
      PROVE  Login(k)!IInv'
  <2>1. ASSUME NEW y \in Login(k)!Threads
        PROVE  LET q == [r[y] EXCEPT !.older = r[y].older \ {x}] IN
               q \in Login(k)!Refreshes /\ q.phase = r[y].phase /\ q.rows = r[y].rows
                 /\ q.target = r[y].target
    <3>1. r[y] \in Login(k)!Refreshes
      OBVIOUS
    <3>. QED
      BY <3>1 DEF Login!Refreshes
  <2>2. /\ x5' \in [Login(k)!Threads -> Login(k)!Refreshes] /\ x5'[x].phase = "rest"
        /\ \A y \in Login(k)!Threads : y # x => /\ x5'[y].phase = x5[y].phase /\ x5'[y].rows = x5[y].rows
                                                /\ x5'[y].target = r[y].target
    BY <1>4, <1>8, <2>1 DEF Login!Ended
  <2>3. /\ x8' \in [Logins[k].Sessions -> Login(k)!Steps]
        /\ \A q \in Logins[k].Sessions : x8'[q] # "idle" => x8'[q] = x8[q]
        /\ \A q \in Logins[k].Sessions : q # x => x8'[q] = x8[q]
    BY <1>8 DEF Login!Returns, Login!IInv, Login!Typed, Login!Steps
  <2>4. /\ \A q \in Logins[k].Sessions : x5'[q].phase # "rest" => x8'[q] = "refresh"
        /\ \A w \in Logins[k].Servers : x5'[w].phase # "rest" => w \in x2
    BY <2>2, <2>3 DEF Login!IInv, Login!Typed, Login!Threads
  <2>5. Login(k)!Typed'
    BY <1>0, <1>8, <2>2, <2>3, <2>4, LoginTypedKept DEF Login!IInv, Login!Typed
  <2>6. ASSUME NEW y \in Login(k)!Threads
        PROVE  Login(k)!Holds(y)'
    <3>1. CASE y = x
      BY <2>2, <3>1 DEF Login!Holds
    <3>2. CASE y # x
      BY <1>0, <1>2, <1>8, <2>2, <3>2 DEF Login!Holds, Login!Bean, Login!Lost,
          Login!ManagerSessionAssumption
    <3>. QED
      BY <3>1, <3>2
  <2>. QED
    BY <1>8, <2>5, <2>6 DEF Login!IInv
<1>9. CASE Login(k)!RefreshCheck(x)
  <2>0. UNCHANGED <<x3, x4, x7>>
    BY <1>9 DEF Login!RefreshCheck
  <2>1. /\ x3' \in [Logins[k].Servers -> Logins[k].Sessions \cup {Login(k)!Bean, Logins[k].None}]
        /\ x4' \in [Logins[k].Servers -> Login(k)!Object] /\ x7' \in [Logins[k].Sessions -> Login(k)!Object]
             /\ Login(k)!Placed'
    BY <1>0, <2>0 DEF Login!IInv, Login!Typed, Login!Placed, Login!Bean
  <2>2. CASE Login(k)!Outdated(x)
    <3>1. x8' = x8 /\ x5' = [x5 EXCEPT ![x] = [x5[x] EXCEPT !.phase = "remove"]]
      BY <1>9, <2>2 DEF Login!RefreshCheck
    <3>2. LET r == [x5[x] EXCEPT !.phase = "remove"] IN
          r \in Login(k)!Refreshes /\ r.rows = x5[x].rows /\ r.target = x5[x].target
      BY <1>1 DEF Login!Refreshes, Login!Phases
    <3>3. /\ x5' \in [Login(k)!Threads -> Login(k)!Refreshes]
          /\ \A y \in Login(k)!Threads : /\ y # x => x5'[y] = x5[y]
                                         /\ x5'[y].rows = x5[y].rows /\ x5'[y].target = x5[y].target
      BY <3>1, <3>2 DEF Login!IInv, Login!Typed
    <3>4. \A y \in Login(k)!Threads : x5'[y].phase # "rest" => x5[y].phase # "rest"
      BY <1>0, <3>3
    <3>5. ASSUME NEW y \in Login(k)!Threads
          PROVE  Login(k)!Holds(y)'
      <4>1. x6' = x6 /\ x3' = x3
        BY <1>0, <2>0
      <4>2. /\ x5'[y].phase # "rest" => x5[y].phase # "rest"
            /\ x5'[y].rows = x5[y].rows /\ x5'[y].target = x5[y].target
        BY <3>3, <3>4
      <4>3. Login(k)!Holds(y) /\ Login(k)!Home(y)' = Login(k)!Home(y)
        BY <1>2
      <4>. QED
        BY <4>1, <4>2, <4>3 DEF Login!Holds, Login!Bean
    <3>. QED
      BY <1>5, <2>1, <3>1, <3>3, <3>4, <3>5
  <2>3. CASE ~Login(k)!Outdated(x)
    <3>1. x5' = Login(k)!Ended(x, x5) /\ Login(k)!Returns(x)
      BY <1>9, <2>3 DEF Login!RefreshCheck
    <3>2. x5 \in [Login(k)!Threads -> Login(k)!Refreshes]
      BY DEF Login!IInv, Login!Typed
    <3>3. \A y \in Login(k)!Threads :
            x5[y].phase # "rest" /\ x5[y].target = Login(k)!Bean => x3'[Login(k)!Home(y)] = Login(k)!Bean
      BY <1>2, <2>0 DEF Login!Holds
    <3>. QED
      BY <1>8, <2>0, <2>1, <3>1, <3>2, <3>3
  <2>. QED
    BY <2>2, <2>3
<1>10. CASE Login(k)!RefreshRemove(x)
  <2>. DEFINE r == [y \in Login(k)!Threads |->
         IF y \in Login(k)!Running(v)
           THEN [Login(k)!Redirected(y, {Login(k)!Bean}, Login(k)!Lost) EXCEPT !.fresh = FALSE] ELSE x5[y]]
  <2>1. /\ x3' = [x3 EXCEPT ![v] = Logins[k].None] /\ x4' = [x4 EXCEPT ![v] = Login(k)!Blank] /\ x7' = x7
        /\ x5' = Login(k)!Ended(x, r) /\ Login(k)!Returns(x)
    BY <1>10 DEF Login!RefreshRemove
  <2>2. Login(k)!Lost \in {Login(k)!Bean, Login(k)!Lost} /\ Login(k)!Lost # Login(k)!Bean
          /\ Login(k)!Blank \in Login(k)!Object
    BY DEF Login!Lost, Login!Bean, Login!Blank, Login!Object
  <2>3. \A y \in Login(k)!Threads :
          /\ Login(k)!Redirected(y, {Login(k)!Bean}, Login(k)!Lost) \in Login(k)!Refreshes
                                    /\ Login(k)!Redirected(y, {Login(k)!Bean}, Login(k)!Lost).phase
                                         = x5[y].phase
                                    /\ Login(k)!Redirected(y, {Login(k)!Bean}, Login(k)!Lost).rows
                                         = x5[y].rows
                                    /\ Login(k)!Redirected(y, {Login(k)!Bean}, Login(k)!Lost).target =
                                         IF x5[y].target \in {Login(k)!Bean} THEN Login(k)!Lost
                                           ELSE x5[y].target
    BY <1>2 DEF Login!Redirected, Login!Refreshes, Login!Lost
  <2>4. \A q \in Login(k)!Refreshes : LET g == [q EXCEPT !.fresh = FALSE] IN
           g \in Login(k)!Refreshes /\ g.phase = q.phase /\ g.rows = q.rows /\ g.target = q.target
    BY DEF Login!Refreshes
  <2>5. /\ r \in [Login(k)!Threads -> Login(k)!Refreshes]
        /\ \A y \in Login(k)!Threads : /\ r[y].phase = x5[y].phase /\ r[y].rows = x5[y].rows
                                       /\ r[y].target = IF y \in Login(k)!Running(v)
                                            /\ x5[y].target = Login(k)!Bean THEN Login(k)!Lost
                                                         ELSE x5[y].target
    BY <1>2, <2>3, <2>4
  <2>. HIDE DEF r
  <2>6. \A w \in Logins[k].Servers : w # v => x3'[w] = x3[w]
    BY <2>1 DEF Login!IInv, Login!Typed
  <2>7. ASSUME NEW y \in Login(k)!Threads, r[y].phase # "rest", r[y].target = Login(k)!Bean
        PROVE  x3'[Login(k)!Home(y)] = Login(k)!Bean
    <3>1. x5[y].phase # "rest" /\ x5[y].target = Login(k)!Bean /\ y \notin Login(k)!Running(v)
      BY <2>2, <2>5, <2>7
    <3>2. Login(k)!Home(y) # v /\ Login(k)!Home(y) \in Logins[k].Servers
            /\ x3[Login(k)!Home(y)] = Login(k)!Bean
      BY <1>2, <3>1, LoginRefreshPlace DEF Login!Running, Login!Holds
    <3>. QED
      BY <2>6, <3>2
  <2>8. /\ x3' \in [Logins[k].Servers -> Logins[k].Sessions \cup {Login(k)!Bean, Logins[k].None}]
             /\ x4' \in [Logins[k].Servers -> Login(k)!Object] /\ Login(k)!Placed'
    BY <1>0, <2>1, <2>2 DEF Login!IInv, Login!Typed, Login!Placed, Login!Bean,
        Login!ManagerSessionAssumption
  <2>9. \A y \in Login(k)!Threads : r[y].target = x5[y].target
                            \/ (r[y].target = Login(k)!Lost /\ x5[y].target = Login(k)!Bean
                                 /\ Login(k)!Home(y) = v)
    BY <2>5 DEF Login!Running
  <2>. QED
    BY <1>8, <2>1, <2>5, <2>7, <2>8, <2>9
<1>. QED
  BY <1>0, <1>6, <1>7, <1>9, <1>10

(* The steps of the servers. *)
LEMMA LoginServerStep ==
  ASSUME NEW k \in DOMAIN Logins, Login(k)!ManagerSessionAssumption, Login(k)!IInv,
         \/ \E v \in Logins[k].Servers : Login(k)!RefreshRead(v) \/ Login(k)!StartServer(v)
         \/ \E x \in Login(k)!Threads : Login(k)!RefreshApply(x)
         \/ \E v, to \in Logins[k].Servers : Login(k)!Crash(v, to)
         \/ Login(k)!ChangeStatus
  PROVE  Login(k)!IInv'
<1>1. ASSUME NEW v \in Logins[k].Servers, Login(k)!RefreshRead(v)
      PROVE  Login(k)!IInv'
  <2>1. v \in x2 /\ Login(k)!ReadRows(v, v) /\ UNCHANGED <<x1, x2, x3, x4, x6, x7, x8, x9>>
    BY <1>1 DEF Login!RefreshRead, Login!sessionVars
  <2>2. v \in Login(k)!Threads /\ Login(k)!Home(v) = v
    BY DEF Login!Threads, Login!Home
  <2>3. /\ x5' \in [Login(k)!Threads -> Login(k)!Refreshes]
        /\ \A y \in Login(k)!Threads : y # v => x5'[y] = x5[y]
        /\ \A y \in Login(k)!Threads : Login(k)!Holds(y)'
    BY <2>1, <2>2, LoginReadRowsKeeps
  <2>4. /\ \A q \in Logins[k].Sessions : x5'[q].phase # "rest" => x8'[q] = "refresh"
        /\ \A w \in Logins[k].Servers : x5'[w].phase # "rest" => w \in x2
    BY <2>1, <2>3 DEF Login!Threads, Login!IInv, Login!Typed,
        Login!ManagerSessionAssumption
  <2>5. Login(k)!Typed'
    BY <2>1, <2>3, <2>4, LoginTypedKept DEF Login!IInv, Login!Typed
  <2>6. Login(k)!Placed'
    BY <2>1 DEF Login!IInv, Login!Placed, Login!Bean
  <2>. QED
    BY <2>3, <2>5, <2>6 DEF Login!IInv
<1>2. ASSUME NEW v \in Logins[k].Servers, Login(k)!StartServer(v)
      PROVE  Login(k)!IInv'
  <2>1. /\ x2' = x2 \cup {v} /\ UNCHANGED <<x3, x4, x5, x6, x7, x8, x9>>
        /\ x1' = x1
             \/ x1' = [x1 EXCEPT !.session = Logins[k].None, !.server = Logins[k].None, !.stamp = @ + 1]
    BY <1>2 DEF Login!StartServer, Login!sessionVars
  <2>2. x1' \in Login(k)!Row
    BY <2>1, LoginRowChanges DEF Login!IInv, Login!Typed
  <2>3. \A x \in Login(k)!Threads : Login(k)!Holds(x)'
    BY <2>1, LoginHoldsUntouched
  <2>. QED
    BY <2>1, <2>2, <2>3 DEF Login!IInv, Login!Typed, Login!Placed, Login!New, Login!Gone,
        Login!Bean
<1>3. ASSUME NEW v \in Logins[k].Servers, NEW to \in Logins[k].Servers, Login(k)!Crash(v, to)
      PROVE  Login(k)!IInv'
  <2>1. /\ v \in x2 /\ to \in x2' /\ x2' = x2 \ {v}
        /\ x3' = [x3 EXCEPT ![v] = Logins[k].None] /\ x4' = [x4 EXCEPT ![v] = Login(k)!Blank]
        /\ x5' = [x \in Login(k)!Threads |-> IF Login(k)!Home(x) = v THEN Login(k)!Rest ELSE x5[x]]
        /\ x6' = [s \in Logins[k].Sessions |-> IF x6[s] = v THEN to ELSE x6[s]]
        /\ x8' = [s \in Logins[k].Sessions |-> IF x6[s] = v THEN "idle" ELSE x8[s]]
        /\ x9' = [s \in Logins[k].Sessions |-> IF x6[s] = v THEN 0 ELSE x9[s]]
        /\ UNCHANGED <<x1, x7>>
    BY <1>3 DEF Login!Crash
  <2>2. x6' \in [Logins[k].Sessions -> x2' \cup {Login(k)!New, Login(k)!Gone}]
          /\ \A s \in Logins[k].Sessions : x8'[s] # "idle" => x6'[s] \in x2'
    BY <2>1 DEF Login!IInv, Login!Typed, Login!New, Login!Gone
  <2>3. x8' \in [Logins[k].Sessions -> Login(k)!Steps] /\ x9' \in [Logins[k].Sessions -> Nat]
    BY <2>1 DEF Login!IInv, Login!Typed, Login!Steps
  <2>4. Login(k)!Rest \in Login(k)!Refreshes /\ Login(k)!Rest.phase = "rest"
          /\ Login(k)!Blank \in Login(k)!Object
    BY DEF Login!Rest, Login!Refreshes, Login!Phases, Login!Blank, Login!Object
  <2>5. x5' \in [Login(k)!Threads -> Login(k)!Refreshes]
    BY <2>1, <2>4 DEF Login!IInv, Login!Typed
  <2>6. /\ \A q \in Logins[k].Sessions : x5'[q].phase # "rest" => x8'[q] = "refresh"
        /\ \A w \in Logins[k].Servers : x5'[w].phase # "rest" => w \in x2'
    BY <2>1, <2>4 DEF Login!IInv, Login!Typed, Login!Threads, Login!Home,
        Login!ManagerSessionAssumption
  <2>7. ASSUME NEW x \in Login(k)!Threads, x5'[x].phase # "rest"
        PROVE  /\ x5[x].phase # "rest"
               /\ Login(k)!Home(x)' = Login(k)!Home(x)
               /\ x5'[x].rows \subseteq x5[x].rows
               /\ x5'[x].target \in Logins[k].Sessions =>
                    x5'[x].target = x5[x].target /\ x6'[x5[x].target] = x6[x5[x].target]
               /\ x5'[x].target = Login(k)!Bean => x3'[Login(k)!Home(x)] = Login(k)!Bean
    <3>1. Login(k)!Home(x) # v /\ x5'[x] = x5[x] /\ x5[x].phase # "rest"
      BY <2>1, <2>4, <2>7
    <3>2. Login(k)!Home(x) \in Logins[k].Servers /\ Login(k)!Holds(x)
      BY <3>1, LoginRefreshPlace DEF Login!IInv
    <3>3. Login(k)!Home(x)' = Login(k)!Home(x)
      BY <2>1, <3>1 DEF Login!Home, Login!Threads
    <3>. QED
      BY <2>1, <3>1, <3>2, <3>3 DEF Login!Holds, Login!IInv, Login!Typed
  <2>8. \A x \in Login(k)!Threads : Login(k)!Holds(x)'
    BY <2>7, LoginHoldsKept
  <2>9. /\ x3' \in [Logins[k].Servers -> Logins[k].Sessions \cup {Login(k)!Bean, Logins[k].None}]
             /\ x4' \in [Logins[k].Servers -> Login(k)!Object] /\ Login(k)!Placed'
    BY <2>1, <2>4 DEF Login!IInv, Login!Typed, Login!Placed, Login!Bean,
        Login!ManagerSessionAssumption
  <2>. QED
    BY <2>1, <2>2, <2>3, <2>5, <2>6, <2>8, <2>9 DEF Login!IInv, Login!Typed, Login!New,
        Login!Gone, Login!Bean
<1>4. CASE Login(k)!ChangeStatus
  <2>1. x1' = [x1 EXCEPT !.active = ~@, !.stamp = @ + 1] /\ UNCHANGED <<x2, x3, x4, x5, x6, x7, x8, x9>>
    BY <1>4 DEF Login!ChangeStatus, Login!serverVars, Login!sessionVars
  <2>2. x1' \in Login(k)!Row
    BY <2>1, LoginRowChanges DEF Login!IInv, Login!Typed
  <2>3. \A x \in Login(k)!Threads : Login(k)!Holds(x)'
    BY <2>1, LoginHoldsUntouched
  <2>. QED
    BY <2>1, <2>2, <2>3 DEF Login!IInv, Login!Typed, Login!Placed, Login!New, Login!Gone,
        Login!Bean
<1>. QED
  BY <1>1, <1>2, <1>3, <1>4, LoginRefreshStep

LEMMA LoginNextIInv ==
  ASSUME NEW k \in DOMAIN Logins, Login(k)!ManagerSessionAssumption, Login(k)!IInv,
         Login(k)!Next \/ UNCHANGED Login(k)!vars
  PROVE  Login(k)!IInv'
<1>1. CASE UNCHANGED Login(k)!vars
  <2>1. UNCHANGED <<x1, x2, x3, x4, x5, x6, x7, x8, x9>>
    BY <1>1 DEF Login!vars, Login!serverVars, Login!sessionVars
  <2>2. \A x \in Login(k)!Threads : Login(k)!Holds(x)'
    BY <2>1, LoginHoldsUntouched
  <2>. QED
    BY <2>1, <2>2 DEF Login!IInv, Login!Typed, Login!Placed, Login!New, Login!Gone,
        Login!Bean
<1>2. CASE Login(k)!Next
  BY <1>2, LoginSessionStep, LoginServerStep DEF Login!Next
<1>. QED
  BY <1>1, <1>2

(* The invariant of the pages of this script. *)
LoginInv == \A k \in On("login", Logins) : Login(k)!IInv

LEMMA LoginBegins ==
  ASSUME SiteInit
  PROVE  LoginInv
<1>. SUFFICES ASSUME NEW k \in On("login", Logins)
         PROVE  Login(k)!IInv
  BY DEF LoginInv
<1>1. k \in DOMAIN Logins /\ script = "login" /\ page = k
  BY DEF On
<1>2. Login(k)!Init
  BY <1>1 DEF SiteInit
<1>3. Login(k)!ManagerSessionAssumption
  BY <1>1, SitePagesAreSound DEF SitePagesAssumption
<1>. QED
  BY <1>1, <1>2, LoginInitIInv, <1>3

LEMMA LoginGoesOn ==
  ASSUME LoginInv, SiteStep
  PROVE  LoginInv'
<1>1. script' = script /\ page' = page
  BY SiteStays
<1>2. ASSUME NEW k \in On("login", Logins)
      PROVE  Login(k)!IInv'
  <2>1. k \in DOMAIN Logins /\ script = "login" /\ page = k
    BY DEF On
  <2>2. Login(k)!Next \/ UNCHANGED Login(k)!vars
    BY <2>1 DEF SiteStep, SiteNext, On, vars, Login!vars, Login!serverVars,
      Login!sessionVars
  <2>3. Login(k)!ManagerSessionAssumption
    BY <2>1, SitePagesAreSound DEF SitePagesAssumption
  <2>4. Login(k)!IInv
    BY DEF LoginInv
  <2>. QED
    BY <2>1, <2>2, LoginNextIInv, <2>3, <2>4
<1>3. On("login", Logins)' = On("login", Logins)
  BY <1>1 DEF On
<1>. QED
  BY <1>2, <1>3 DEF LoginInv

LEMMA LoginShows ==
  ASSUME LoginInv
  PROVE  /\ \A k \in On("login", Logins) : Login(k)!TypeOK
         /\ \A k \in On("login", Logins) : Login(k)!CachedIsHere
<1>. SUFFICES ASSUME NEW k \in On("login", Logins)
         PROVE  Login(k)!TypeOK /\ Login(k)!CachedIsHere
  OBVIOUS
<1>1. k \in DOMAIN Logins /\ Login(k)!IInv
  BY DEF On, LoginInv
<1>2. Login(k)!ManagerSessionAssumption
  BY <1>1, SitePagesAreSound DEF SitePagesAssumption
<1>. QED
  BY <1>1, LoginIInvImplies, <1>2

-----------------------------------------------------------------------------
(* The invariant of all of these pages. *)
SiteInv ==
  /\ ReviewInv
  /\ TableInv
  /\ BetsInv
  /\ WindowInv
  /\ ExportInv
  /\ IconsInv
  /\ GameInv
  /\ ProviderInv
  /\ MenuInv
  /\ TasksInv
  /\ LoginInv

SiteScripts == {"review", "table", "bets", "window", "export", "icons", "game", "provider", "menu", "tasks",
  "login"}

LEMMA SitePagesBegin ==
  ASSUME SiteInit
  PROVE  SiteInv
BY ReviewBegins, TableBegins, BetsBegins, WindowBegins, ExportBegins,
   IconsBegins, GameBegins, ProviderBegins, MenuBegins, TasksBegins,
   LoginBegins DEF SiteInv

LEMMA SitePagesGoOn ==
  ASSUME SiteInv, SiteStep
  PROVE  SiteInv'
BY ReviewGoesOn, TableGoesOn, BetsGoesOn, WindowGoesOn, ExportGoesOn,
   IconsGoesOn, GameGoesOn, ProviderGoesOn, MenuGoesOn, TasksGoesOn,
   LoginGoesOn DEF SiteInv

(* The page of another script is none of these. *)
LEMMA SitePagesElsewhere ==
  ASSUME script \notin SiteScripts
  PROVE  SiteInv
BY DEF On, SiteScripts, SiteInv, ReviewInv, TableInv, BetsInv, WindowInv, ExportInv, IconsInv, GameInv,
   ProviderInv, MenuInv, TasksInv, LoginInv

LEMMA SitePagesStayElsewhere ==
  ASSUME script \notin SiteScripts, script' = script
  PROVE  SiteInv'
BY DEF On, SiteScripts, SiteInv, ReviewInv, TableInv, BetsInv, WindowInv, ExportInv, IconsInv, GameInv,
   ProviderInv, MenuInv, TasksInv, LoginInv

=============================================================================
