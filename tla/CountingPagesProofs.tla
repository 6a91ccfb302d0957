------------------------ MODULE CountingPagesProofs -------------------------
(***************************************************************************)
(* Proofs about the pages that count, for any pages: the wallet of an      *)
(* adjustment, the digits of an amount field and of a money cell, the      *)
(* payments that wait.  Per script its steps, then the inductive invariant *)
(* of the page, IInv of its module.  A lemma about a script reads as in its*)
(* module, with its name before the names of the module and x1, x2, ... for*)
(* its variables.                                                          *)
(***************************************************************************)
EXTENDS MemberPages, TLAPS, FiniteSetTheorems

-----------------------------------------------------------------------------
(* A page stays the page it is. *)
LEMMA CountingStays ==
  ASSUME MemberStep
  PROVE  script' = script /\ page' = page
BY DEF MemberStep, MemberNext, vars, Same18, Same5, Same6, Same7, Same8,
   Same9, Same10, Same11, Same12, Same13, Same14, Same15, Same16, Same17

-----------------------------------------------------------------------------
(* A set that holds 0 and every successor holds every natural number: as   *)
(* x |-> x - 1 maps the numbers up to m it does not hold into themselves,  *)
(* one to one, it would reach all of them, and it does not reach m.        *)
LEMMA SetInduction ==
  ASSUME NEW T \in SUBSET Nat, 0 \in T, \A n \in T : n + 1 \in T
  PROVE  T = Nat
<1>. SUFFICES ASSUME NEW m \in Nat, m \notin T
              PROVE  FALSE
  OBVIOUS
<1>. DEFINE B == (0..m) \ T
            f == [x \in B |-> x - 1]
<1>1. \A x \in B : x - 1 \in B
  <2>. TAKE x \in B
  <2>1. x \in Nat /\ x # 0 /\ x - 1 \in Nat
    OBVIOUS
  <2>2. (x - 1) + 1 = x
    BY <2>1
  <2>. QED
    BY <2>1, <2>2
<1>2. \A x, y \in B : x - 1 = y - 1 => x = y
  OBVIOUS
<1>3. IsFiniteSet(0..m)
  BY FS_Interval
<1>4. IsFiniteSet(B)
  BY <1>3, FS_Subset
<1>5. f \in Injection(B, B)
  BY <1>1, <1>2 DEF Injection, IsInjective
<1>. HIDE DEF f
<1>6. f \in Surjection(B, B)
  BY <1>4, <1>5, FS_Injection
<1>7. m \in B
  OBVIOUS
<1>8. PICK x \in B : f[x] = m
  BY <1>6, <1>7 DEF Surjection
<1>9. f[x] = x - 1
  BY DEF f
<1>. QED
  BY <1>8, <1>9

-----------------------------------------------------------------------------
(***************************************************************************)
(* Adjustment (Adjust): x1 is dialog, x2 is chosen, x3 is general, x4 is   *)
(* minAmount, x5 is flight, x6 is posts, x7 is sent, x8 is wallet, x9 is   *)
(* raced, x10 is without, x11 is overtaken, x12 is misposted.              *)
(***************************************************************************)
LEMMA AdjustSumExists ==
  ASSUME NEW k \in DOMAIN AdjustPages, NEW c \in Seq(Int)
  PROVE  \E f : Adjust(k)!IsSum(f, c, Len(c))
<1>. DEFINE T == {n \in Nat : n <= Len(c) => \E f : Adjust(k)!IsSum(f, c, n)}
<1>1. 0 \in T
  <2>1. Adjust(k)!IsSum([i \in 0..0 |-> 0], c, 0)
    BY DEF Adjust!IsSum
  <2>. QED
    BY <2>1
<1>2. ASSUME NEW n \in T
      PROVE  n + 1 \in T
  <2>. SUFFICES ASSUME n + 1 <= Len(c)
                PROVE  \E f : Adjust(k)!IsSum(f, c, n + 1)
    OBVIOUS
  <2>0. n \in Nat /\ Len(c) \in Nat /\ n <= Len(c)
    OBVIOUS
  <2>1. PICK f : Adjust(k)!IsSum(f, c, n)
    BY <2>0
  <2>2. PICK g : g = [i \in 0..(n + 1) |-> IF i = n + 1 THEN f[n] + c[n + 1] ELSE f[i]]
    BY Zenon
  <2>3. c[n + 1] \in Int
    BY <2>0
  <2>4. g \in [0..(n + 1) -> Int] /\ g[0] = 0
    BY <2>0, <2>1, <2>2, <2>3 DEF Adjust!IsSum
  <2>5. \A i \in 1..(n + 1) : g[i] = g[i - 1] + c[i]
    BY <2>0, <2>1, <2>2 DEF Adjust!IsSum
  <2>. QED
    BY <2>4, <2>5, Zenon DEF Adjust!IsSum
<1>3. T \in SUBSET Nat
  OBVIOUS
<1>4. Len(c) \in Nat
  OBVIOUS
<1>5. Len(c) \in T
  <2>. HIDE DEF T
  <2>. QED
    BY <1>1, <1>2, <1>3, <1>4, SetInduction
<1>. QED
  BY <1>4, <1>5

(* A sequence has one sum. *)
LEMMA AdjustSumsAgree ==
  ASSUME NEW k \in DOMAIN AdjustPages, NEW c, NEW n \in Nat, NEW f, NEW g, Adjust(k)!IsSum(f, c, n),
         Adjust(k)!IsSum(g, c, n)
  PROVE  f[n] = g[n]
<1>. DEFINE T == {m \in Nat : m <= n => f[m] = g[m]}
<1>1. 0 \in T
  BY DEF Adjust!IsSum
<1>2. ASSUME NEW m \in T
      PROVE  m + 1 \in T
  <2>1. CASE m + 1 <= n
    <3>1. m + 1 \in 1..n /\ m <= n /\ (m + 1) - 1 = m
      BY <2>1
    <3>2. f[m + 1] = f[m] + c[m + 1] /\ g[m + 1] = g[m] + c[m + 1]
      BY <3>1 DEF Adjust!IsSum
    <3>. QED
      BY <3>1, <3>2
  <2>. QED
    BY <2>1
<1>3. T \in SUBSET Nat
  OBVIOUS
<1>4. n \in T
  <2>. HIDE DEF T
  <2>. QED
    BY <1>1, <1>2, <1>3, SetInduction
<1>. QED
  BY <1>4

LEMMA AdjustSumIs ==
  ASSUME NEW k \in DOMAIN AdjustPages, NEW c \in Seq(Int)
  PROVE  \E f : Adjust(k)!IsSum(f, c, Len(c)) /\ Adjust(k)!Sum(c) = f[Len(c)]
<1>. DEFINE F(f) == [i \in 0..Len(c) |-> IF i = 0 THEN 0 ELSE f[i - 1] + c[i]]
            s == CHOOSE f : f = F(f)
<1>0. Len(c) \in Nat
  OBVIOUS
<1>1. PICK f : Adjust(k)!IsSum(f, c, Len(c))
  BY AdjustSumExists
<1>2. f = F(f)
  BY <1>0, <1>1 DEF Adjust!IsSum
<1>3. s = F(s)
  <2>. HIDE DEF F
  <2>. QED
    BY <1>2
<1>4. Adjust(k)!Sum(c) = s[Len(c)]
  BY DEF Adjust!Sum
<1>. HIDE DEF s
<1>5. s[0] = 0 /\ \A i \in 1..Len(c) : s[i] = s[i - 1] + c[i]
  BY <1>0, <1>3, SMTT(30)
<1>6. \A i \in 0..Len(c) : s[i] = f[i]
  <2>. DEFINE T == {m \in Nat : m <= Len(c) => s[m] = f[m]}
  <2>1. 0 \in T
    BY <1>1, <1>5 DEF Adjust!IsSum
  <2>2. ASSUME NEW m \in T
        PROVE  m + 1 \in T
    <3>1. CASE m + 1 <= Len(c)
      <4>1. m + 1 \in 1..Len(c) /\ m <= Len(c) /\ (m + 1) - 1 = m
        BY <1>0, <3>1
      <4>2. f[m + 1] = f[m] + c[m + 1] /\ s[m + 1] = s[m] + c[m + 1]
        BY <1>1, <1>5, <4>1 DEF Adjust!IsSum
      <4>. QED
        BY <4>1, <4>2
    <3>. QED
      BY <1>0, <3>1
  <2>3. T \in SUBSET Nat
    OBVIOUS
  <2>4. T = Nat
    <3>. HIDE DEF T
    <3>. QED
      BY <2>1, <2>2, <2>3, SetInduction
  <2>. QED
    BY <1>0, <2>4
<1>7. s[Len(c)] = f[Len(c)]
  BY <1>0, <1>6
<1>. QED
  BY <1>1, <1>4, <1>7

(* A sum of one more number. *)
LEMMA AdjustSumAppended ==
  ASSUME NEW k \in DOMAIN AdjustPages, NEW c \in Seq(Int), NEW d \in Seq(Int), Len(d) = Len(c) + 1,
         \A i \in 1..Len(c) : d[i] = c[i]
  PROVE  Adjust(k)!Sum(d) = Adjust(k)!Sum(c) + d[Len(d)]
<1>0. Len(c) \in Nat /\ Len(d) \in Nat
  OBVIOUS
<1>1. PICK f : Adjust(k)!IsSum(f, c, Len(c)) /\ Adjust(k)!Sum(c) = f[Len(c)]
  BY AdjustSumIs
<1>2. PICK g : Adjust(k)!IsSum(g, d, Len(d)) /\ Adjust(k)!Sum(d) = g[Len(d)]
  BY AdjustSumIs, Zenon
<1>3. PICK h : h = [i \in 0..Len(c) |-> g[i]]
  BY Zenon
<1>4. Adjust(k)!IsSum(h, d, Len(c))
  BY <1>0, <1>2, <1>3 DEF Adjust!IsSum
<1>5. f[Len(c)] = h[Len(c)]
  <2>1. Adjust(k)!IsSum(f, d, Len(c))
    BY <1>1 DEF Adjust!IsSum
  <2>. QED
    BY <1>0, <1>4, <2>1, AdjustSumsAgree
<1>6. g[Len(d)] = g[Len(c)] + d[Len(d)]
  <2>1. Len(d) \in 1..Len(d) /\ Len(d) - 1 = Len(c)
    BY <1>0
  <2>2. g[Len(d)] = g[Len(d) - 1] + d[Len(d)]
    BY <1>2, <2>1, Zenon DEF Adjust!IsSum
  <2>. QED
    BY <2>1, <2>2
<1>. QED
  BY <1>0, <1>1, <1>2, <1>3, <1>5, <1>6

(* A sum of which one number was changed. *)
LEMMA AdjustSumChanged ==
  ASSUME NEW k \in DOMAIN AdjustPages, NEW c \in Seq(Int), NEW d \in Seq(Int), Len(d) = Len(c),
         NEW m \in 1..Len(c),
         \A i \in 1..Len(c) : i # m => d[i] = c[i]
  PROVE  Adjust(k)!Sum(d) = Adjust(k)!Sum(c) + (d[m] - c[m]) /\ Adjust(k)!Sum(c) \in Int
<1>0. Len(c) \in Nat /\ d[m] \in Int /\ c[m] \in Int /\ m \in Nat
  OBVIOUS
<1>1. PICK f : Adjust(k)!IsSum(f, c, Len(c)) /\ Adjust(k)!Sum(c) = f[Len(c)]
  BY AdjustSumIs
<1>2. PICK g : Adjust(k)!IsSum(g, d, Len(c)) /\ Adjust(k)!Sum(d) = g[Len(c)]
  BY AdjustSumIs, Zenon
<1>3. PICK h : h = [i \in 0..Len(c) |-> IF i < m THEN f[i] ELSE f[i] + (d[m] - c[m])]
  BY Zenon
<1>4. Adjust(k)!IsSum(h, d, Len(c))
  <2>1. h \in [0..Len(c) -> Int] /\ h[0] = 0
    BY <1>0, <1>1, <1>3 DEF Adjust!IsSum
  <2>2. ASSUME NEW i \in 1..Len(c)
        PROVE  h[i] = h[i - 1] + d[i]
    <3>1. i \in Nat /\ i - 1 \in 0..Len(c) /\ i \in 0..Len(c) /\ f[i] = f[i - 1] + c[i] /\ f[i - 1] \in Int
      <4>1. i \in Nat /\ i - 1 \in 0..Len(c) /\ i \in 0..Len(c)
        BY <1>0, <2>2
      <4>2. f[i] = f[i - 1] + c[i]
        BY <1>1, <2>2 DEF Adjust!IsSum
      <4>3. f[i - 1] \in Int
        BY <1>1, <4>1, Zenon DEF Adjust!IsSum
      <4>. QED
        BY <4>1, <4>2, <4>3
    <3>2. CASE i < m
      BY <1>0, <1>3, <3>1, <3>2
    <3>3. CASE i = m
      BY <1>0, <1>3, <3>1, <3>3
    <3>4. CASE i > m
      <4>1. d[i] = c[i] /\ c[i] \in Int
        BY <3>1, <3>4
      <4>. QED
        BY <1>0, <1>3, <3>1, <3>4, <4>1, SMTT(30)
    <3>. QED
      BY <1>0, <3>1, <3>2, <3>3, <3>4
  <2>. QED
    BY <2>1, <2>2 DEF Adjust!IsSum
<1>5. g[Len(c)] = h[Len(c)]
  BY <1>0, <1>2, <1>4, AdjustSumsAgree
<1>6. h[Len(c)] = f[Len(c)] + (d[m] - c[m]) /\ f[Len(c)] \in Int
  <2>1. Len(c) \in 0..Len(c) /\ ~(Len(c) < m)
    BY <1>0
  <2>2. f[Len(c)] \in Int
    BY <1>1, <2>1 DEF Adjust!IsSum
  <2>. QED
    BY <1>3, <2>1, <2>2
<1>. QED
  BY <1>1, <1>2, <1>5, <1>6

(* The numbers that a sum of posts is of. *)
LEMMA AdjustPartsAre ==
  ASSUME NEW k \in DOMAIN AdjustPages, NEW p \in Seq(Adjust(k)!Posts), NEW a \in AdjustPages[k].Members
  PROVE  [i \in DOMAIN p |-> Adjust(k)!Part(p[i], a)] \in Seq(Int)
<1>1. \A i \in DOMAIN p : Adjust(k)!Part(p[i], a) \in Int
  <2>. TAKE i \in DOMAIN p
  <2>1. p[i] \in Adjust(k)!Posts
    OBVIOUS
  <2>2. p[i].amount \in Int
    BY <2>1 DEF Adjust!Posts
  <2>. QED
    BY <2>2 DEF Adjust!Part
<1>2. DOMAIN p = 1..Len(p) /\ Len(p) \in Nat
  OBVIOUS
<1>. QED
  BY <1>1, <1>2

-----------------------------------------------------------------------------
LEMMA AdjustInitIInv ==
  ASSUME NEW k \in DOMAIN AdjustPages, Adjust(k)!AdjustmentAssumption, Adjust(k)!Init
  PROVE  Adjust(k)!IInv
<1>1. x8 \in [AdjustPages[k].Members -> Nat] /\ x10 = x8
  BY DEF Adjust!AdjustmentAssumption, Adjust!Init
<1>2. x8 \in [AdjustPages[k].Members -> Int] /\ \A a \in AdjustPages[k].Members : x8[a] >= 0
  BY <1>1
<1>3. x7 \in 0..AdjustPages[k].MaxRequests /\ x4 \in Int
  BY DEF Adjust!AdjustmentAssumption, Adjust!Init
<1>4. /\ x3 = Adjust(k)!Blank /\ x3.shown = FALSE /\ x3.of = Adjust(k)!NoOne /\ x3.balance = 0
      /\ x3 \in [shown : BOOLEAN, of : AdjustPages[k].Members \cup {Adjust(k)!NoOne}, balance : Int,
           amount : Int]
  BY DEF Adjust!Init, Adjust!Blank, Adjust!Empty
<1>5. Adjust(k)!TypeOK
  <2>1. x5 = {} /\ DOMAIN x6 = {} /\ x2 = Adjust(k)!NoOne
    BY DEF Adjust!Init
  <2>2. x1 \in BOOLEAN /\ x9 \in BOOLEAN /\ x11 \subseteq AdjustPages[k].Members /\ x12 \in BOOLEAN
    BY Zenon DEF Adjust!Init
  <2>. QED
    BY <1>2, <1>3, <1>4, <2>1, <2>2 DEF Adjust!TypeOK
<1>6. Adjust(k)!TypedInv
  BY <1>1, <1>2, <1>4 DEF Adjust!Init, Adjust!TypedInv
<1>7. Adjust(k)!PostsShownMember /\ Adjust(k)!ShownInv /\ Adjust(k)!CapKeepsWallet /\ Adjust(k)!CapInv
  BY <1>2 DEF Adjust!Init, Adjust!PostsShownMember, Adjust!ShownInv,
      Adjust!CapKeepsWallet, Adjust!CapInv
<1>8. Adjust(k)!RowsExplainWallet
  <2>1. ASSUME NEW a \in AdjustPages[k].Members
        PROVE  Adjust(k)!Moved(a) = 0
    <3>. DEFINE d == [i \in DOMAIN x6 |-> Adjust(k)!Part(x6[i], a)]
    <3>1. d \in Seq(Int) /\ Len(d) = 0
      BY DEF Adjust!Init
    <3>2. PICK f : Adjust(k)!IsSum(f, d, Len(d)) /\ Adjust(k)!Sum(d) = f[Len(d)]
      BY <3>1, AdjustSumIs, Zenon
    <3>3. f[0] = 0
      BY <3>2 DEF Adjust!IsSum
    <3>. QED
      BY <3>1, <3>2, <3>3 DEF Adjust!Moved
  <2>2. ASSUME NEW a \in AdjustPages[k].Members
        PROVE  x8[a] = x10[a] + 0
    <3>1. x8[a] \in Int /\ x10[a] = x8[a]
      BY <1>1, <1>2
    <3>. QED
      BY <3>1
  <2>. QED
    BY <2>1, <2>2 DEF Adjust!RowsExplainWallet
<1>. QED
  BY <1>5, <1>6, <1>7, <1>8 DEF Adjust!IInv

LEMMA AdjustMovedIsInt ==
  ASSUME NEW k \in DOMAIN AdjustPages, Adjust(k)!IInv, NEW a \in AdjustPages[k].Members
  PROVE  Adjust(k)!Moved(a) \in Int
<1>. DEFINE c == [i \in DOMAIN x6 |-> Adjust(k)!Part(x6[i], a)]
<1>1. c \in Seq(Int)
  BY AdjustPartsAre DEF Adjust!IInv, Adjust!TypedInv
<1>. HIDE DEF c
<1>2. PICK f : Adjust(k)!IsSum(f, c, Len(c)) /\ Adjust(k)!Sum(c) = f[Len(c)]
  BY <1>1, AdjustSumIs
<1>3. Len(c) \in 0..Len(c)
  BY <1>1
<1>4. Adjust(k)!Sum(c) \in Int
  BY <1>2, <1>3 DEF Adjust!IsSum
<1>. QED
  BY <1>4 DEF Adjust!Moved, c

(* What the page does before it posts: the wallets and the posts stay.     *)
LEMMA AdjustPageKeeps ==
  ASSUME NEW k \in DOMAIN AdjustPages, Adjust(k)!AdjustmentAssumption, Adjust(k)!IInv, x1' \in BOOLEAN,
         x9' \in BOOLEAN,
         x2' \in AdjustPages[k].Members \cup {Adjust(k)!NoOne}, x4' \in Int,
           x7' \in 0..AdjustPages[k].MaxRequests,
         x3' \in [shown : BOOLEAN, of : AdjustPages[k].Members \cup {Adjust(k)!NoOne}, balance : Int,
           amount : Int],
         x3'.shown => x3'.of \in AdjustPages[k].Members,
         x5' \subseteq Adjust(k)!Questions, Adjust(k)!ShownInv',
         UNCHANGED <<x6, x8, x12, x10, x11>>
  PROVE  Adjust(k)!IInv'
<1>1. \A r \in x5' : r.of \in AdjustPages[k].Members
  BY DEF Adjust!Questions
<1>2. x3'.shown \in BOOLEAN /\ x3'.of \in AdjustPages[k].Members \cup {Adjust(k)!NoOne} /\ x3'.balance \in Int
  OBVIOUS
<1>3. Adjust(k)!TypeOK'
  BY <1>1, <1>2 DEF Adjust!IInv, Adjust!TypeOK
<1>4. Adjust(k)!TypedInv'
  BY DEF Adjust!IInv, Adjust!TypedInv
<1>5. Adjust(k)!PostsShownMember' /\ Adjust(k)!CapKeepsWallet' /\ Adjust(k)!CapInv'
  BY DEF Adjust!IInv, Adjust!PostsShownMember, Adjust!CapKeepsWallet, Adjust!CapInv
<1>6. Adjust(k)!RowsExplainWallet'
  BY DEF Adjust!IInv, Adjust!RowsExplainWallet, Adjust!Moved
<1>. QED
  BY <1>3, <1>4, <1>5, <1>6 DEF Adjust!IInv

LEMMA AdjustPageIs ==
  ASSUME NEW k \in DOMAIN AdjustPages, Adjust(k)!IInv
  PROVE  /\ x1 \in BOOLEAN /\ x9 \in BOOLEAN /\ x2 \in AdjustPages[k].Members \cup {Adjust(k)!NoOne}
         /\ x4 \in Int /\ x7 \in 0..AdjustPages[k].MaxRequests
         /\ x3 \in [shown : BOOLEAN, of : AdjustPages[k].Members \cup {Adjust(k)!NoOne}, balance : Int,
              amount : Int]
         /\ x3.shown => x3.of \in AdjustPages[k].Members
         /\ x5 \subseteq Adjust(k)!Questions /\ Adjust(k)!ShownInv
         /\ Adjust(k)!Blank
              \in [shown : BOOLEAN, of : AdjustPages[k].Members \cup {Adjust(k)!NoOne}, balance : Int,
                amount : Int]
         /\ ~Adjust(k)!Blank.shown
BY DEF Adjust!IInv, Adjust!TypeOK, Adjust!TypedInv, Adjust!Blank, Adjust!Empty

LEMMA AdjustDialogKeeps ==
  ASSUME NEW k \in DOMAIN AdjustPages, Adjust(k)!AdjustmentAssumption, Adjust(k)!IInv,
         Adjust(k)!OpenDialog \/ Adjust(k)!ResetDialog
  PROVE  Adjust(k)!IInv'
<1>1. /\ x1' \in BOOLEAN /\ x2' = Adjust(k)!NoOne /\ x3' = Adjust(k)!Blank
      /\ UNCHANGED <<x4, x5, x6, x7, x8, x9, x12, x10, x11>>
  BY Zenon DEF Adjust!OpenDialog, Adjust!ResetDialog
<1>2. Adjust(k)!ShownInv'
  BY <1>1, AdjustPageIs DEF Adjust!ShownInv
<1>. QED
  BY <1>1, <1>2, AdjustPageIs, AdjustPageKeeps

LEMMA AdjustChooseKeeps ==
  ASSUME NEW k \in DOMAIN AdjustPages, Adjust(k)!AdjustmentAssumption, Adjust(k)!IInv,
         NEW a \in AdjustPages[k].Members, Adjust(k)!ChooseMember(a)
  PROVE  Adjust(k)!IInv'
<1>1. PICK q : q = [id |-> x7', of |-> a, served |-> FALSE, balance |-> 0]
  BY Zenon
<1>2. x7' \in 0..AdjustPages[k].MaxRequests /\ x7' \in Nat
  BY AdjustPageIs DEF Adjust!ChooseMember, Adjust!AdjustmentAssumption
<1>3. q \in Adjust(k)!Questions /\ q.of = a
  BY <1>1, <1>2 DEF Adjust!Questions
<1>4. /\ x5' = x5 \cup {q} /\ x9' = (x9 \/ x5 # {}) /\ x2' = a
      /\ UNCHANGED <<x1, x3, x4, x6, x8, x12, x10, x11>>
  BY <1>1 DEF Adjust!ChooseMember
<1>5. Adjust(k)!ShownInv'
  BY <1>3, <1>4, Zenon DEF Adjust!ShownInv
<1>. QED
  BY <1>2, <1>3, <1>4, <1>5, AdjustPageIs, AdjustPageKeeps

LEMMA AdjustReadKeeps ==
  ASSUME NEW k \in DOMAIN AdjustPages, Adjust(k)!AdjustmentAssumption, Adjust(k)!IInv, NEW r \in x5,
         Adjust(k)!ReadBalance(r)
  PROVE  Adjust(k)!IInv'
<1>1. PICK b \in {x8[r.of], 0} : x5' = (x5 \ {r}) \cup {[r EXCEPT !.served = TRUE, !.balance = b]}
  BY Zenon DEF Adjust!ReadBalance
<1>2. r \in Adjust(k)!Questions /\ x8 \in [AdjustPages[k].Members -> Int]
  BY AdjustPageIs DEF Adjust!IInv, Adjust!TypeOK
<1>3. b \in Int
  BY <1>2 DEF Adjust!Questions
<1>4. PICK q : q = [r EXCEPT !.served = TRUE, !.balance = b]
  OBVIOUS
<1>5. q \in Adjust(k)!Questions /\ q.of = r.of
  BY <1>2, <1>3, <1>4, Zenon DEF Adjust!Questions
<1>6. x5' = (x5 \ {r}) \cup {q}
  BY <1>1, <1>4
<1>7. UNCHANGED <<x1, x2, x3, x4, x6, x7, x8, x9, x12, x10, x11>>
  BY DEF Adjust!ReadBalance
<1>8. Adjust(k)!ShownInv'
  BY <1>5, <1>6, <1>7, AdjustPageIs DEF Adjust!ShownInv
<1>. QED
  BY <1>5, <1>6, <1>7, <1>8, AdjustPageIs, AdjustPageKeeps

LEMMA AdjustShowKeeps ==
  ASSUME NEW k \in DOMAIN AdjustPages, Adjust(k)!AdjustmentAssumption, Adjust(k)!IInv, NEW r \in x5,
         Adjust(k)!ShowBalance(r)
  PROVE  Adjust(k)!IInv'
<1>1. r \in Adjust(k)!Questions /\ r.of \in AdjustPages[k].Members /\ r.balance \in Int
  BY AdjustPageIs DEF Adjust!Questions
<1>2. /\ x4' = -r.balance
      /\ x3' = [shown |-> TRUE, of |-> r.of, balance |-> r.balance, amount |-> Adjust(k)!Empty]
      /\ x5' = x5 \ {r}
      /\ UNCHANGED <<x1, x2, x6, x7, x8, x9, x12, x10, x11>>
  BY DEF Adjust!ShowBalance
<1>3. /\ x3' \in [shown : BOOLEAN, of : AdjustPages[k].Members \cup {Adjust(k)!NoOne}, balance : Int,
           amount : Int]
      /\ x3'.of = r.of
  BY <1>1, <1>2 DEF Adjust!Empty
<1>4. x4' \in Int
  BY <1>1, <1>2
<1>5. Adjust(k)!ShownInv'
  BY <1>2, <1>3, AdjustPageIs DEF Adjust!ShownInv
<1>. QED
  BY <1>1, <1>2, <1>3, <1>4, <1>5, AdjustPageIs, AdjustPageKeeps

LEMMA AdjustFailKeeps ==
  ASSUME NEW k \in DOMAIN AdjustPages, Adjust(k)!AdjustmentAssumption, Adjust(k)!IInv, NEW r \in x5,
         Adjust(k)!BalanceFails(r)
  PROVE  Adjust(k)!IInv'
<1>1. /\ x5' = x5 \ {r} /\ x9' = TRUE
      /\ UNCHANGED <<x1, x2, x3, x4, x6, x7, x8, x12, x10, x11>>
  BY DEF Adjust!BalanceFails
<1>2. Adjust(k)!ShownInv'
  BY <1>1 DEF Adjust!ShownInv
<1>. QED
  BY <1>1, <1>2, AdjustPageIs, AdjustPageKeeps

LEMMA AdjustTypeKeeps ==
  ASSUME NEW k \in DOMAIN AdjustPages, Adjust(k)!AdjustmentAssumption, Adjust(k)!IInv,
         NEW x \in AdjustPages[k].Typed, Adjust(k)!TypeAmount(x)
  PROVE  Adjust(k)!IInv'
<1>1. Adjust(k)!Clamp(x, x4, AdjustPages[k].MaxAmount) \in Int
  BY AdjustPageIs DEF Adjust!AdjustmentAssumption, Adjust!Clamp
<1>2. PICK g : g = [x3 EXCEPT !.amount = Adjust(k)!Clamp(x, x4, AdjustPages[k].MaxAmount)]
  BY Zenon
<1>3. /\ x3' = g
      /\ UNCHANGED <<x1, x2, x4, x5, x6, x7, x8, x9, x12, x10, x11>>
  BY <1>2 DEF Adjust!TypeAmount
<1>4. /\ g \in [shown : BOOLEAN, of : AdjustPages[k].Members \cup {Adjust(k)!NoOne}, balance : Int,
           amount : Int]
      /\ g.shown = x3.shown /\ g.of = x3.of
  BY <1>1, <1>2, AdjustPageIs
<1>5. Adjust(k)!ShownInv'
  BY <1>3, <1>4, AdjustPageIs DEF Adjust!ShownInv
<1>. QED
  BY <1>3, <1>4, <1>5, AdjustPageIs, AdjustPageKeeps

-----------------------------------------------------------------------------
(* A post that changes moves the wallets by what its part grows, but for   *)
(* that of its member when it is lost.                                     *)
LEMMA AdjustPostMoves ==
  ASSUME NEW k \in DOMAIN AdjustPages, Adjust(k)!IInv, NEW i \in DOMAIN x6, NEW p \in Adjust(k)!Posts,
         x6' = [x6 EXCEPT ![i] = p],
         p.of = x6[i].of, x6[i].stage # "lost", x10' = x10,
         \A a \in AdjustPages[k].Members : (p.stage = "lost" /\ a = p.of)
                            \/ x8'[a] = x8[a] + (Adjust(k)!Part(p, a) - Adjust(k)!Part(x6[i], a))
  PROVE  Adjust(k)!RowsExplainWallet'
<1>0. x6 \in Seq(Adjust(k)!Posts) /\ x8 \in [AdjustPages[k].Members -> Int]
        /\ x10 \in [AdjustPages[k].Members -> Int]
  BY Zenon DEF Adjust!IInv, Adjust!TypedInv, Adjust!TypeOK
<1>1. x6' \in Seq(Adjust(k)!Posts) /\ DOMAIN x6' = DOMAIN x6 /\ Len(x6') = Len(x6) /\ x6'[i] = p
      /\ \A j \in DOMAIN x6 : j # i => x6'[j] = x6[j]
  BY <1>0
<1>. SUFFICES ASSUME NEW a \in AdjustPages[k].Members,
                     \A j \in DOMAIN x6' : x6'[j].of = a => x6'[j].stage # "lost"
              PROVE  x8'[a] = x10[a] + Adjust(k)!Sum([j \in DOMAIN x6' |-> Adjust(k)!Part(x6'[j], a)])
  BY DEF Adjust!RowsExplainWallet, Adjust!Moved
<1>2. /\ x8'[a] = x8[a] + (Adjust(k)!Part(p, a) - Adjust(k)!Part(x6[i], a))
      /\ \A j \in DOMAIN x6 : x6[j].of = a => x6[j].stage # "lost"
  BY <1>1
<1>3. PICK c : c = [j \in DOMAIN x6 |-> Adjust(k)!Part(x6[j], a)]
  BY Zenon
<1>4. PICK d : d = [j \in DOMAIN x6' |-> Adjust(k)!Part(x6'[j], a)]
  BY Zenon
<1>5. c \in Seq(Int) /\ d \in Seq(Int)
  BY <1>0, <1>1, <1>3, <1>4, AdjustPartsAre, Zenon
<1>6. /\ Len(c) = Len(x6) /\ Len(d) = Len(x6) /\ DOMAIN x6 = 1..Len(x6)
      /\ i \in 1..Len(c) /\ c[i] = Adjust(k)!Part(x6[i], a) /\ d[i] = Adjust(k)!Part(p, a)
  BY <1>0, <1>1, <1>3, <1>4
<1>7. \A j \in 1..Len(c) : j # i => d[j] = c[j]
  BY <1>1, <1>3, <1>4, <1>6
<1>8. Adjust(k)!Sum(d) = Adjust(k)!Sum(c) + (d[i] - c[i]) /\ Adjust(k)!Sum(c) \in Int
  BY <1>5, <1>6, <1>7, AdjustSumChanged
<1>9. x8[a] = x10[a] + Adjust(k)!Sum(c)
  BY <1>2, <1>3 DEF Adjust!IInv, Adjust!RowsExplainWallet, Adjust!Moved
<1>10. c[i] \in Int /\ d[i] \in Int /\ x10[a] \in Int
  BY <1>0, <1>5, <1>6
<1>. QED
  BY <1>2, <1>4, <1>6, <1>8, <1>9, <1>10

LEMMA AdjustCreateKeeps ==
  ASSUME NEW k \in DOMAIN AdjustPages, Adjust(k)!AdjustmentAssumption, Adjust(k)!IInv, Adjust(k)!Create
  PROVE  Adjust(k)!IInv'
<1>0. x6 \in Seq(Adjust(k)!Posts) /\ x8 \in [AdjustPages[k].Members -> Int]
        /\ x10 \in [AdjustPages[k].Members -> Int]
  BY DEF Adjust!IInv, Adjust!TypedInv, Adjust!TypeOK
<1>1. PICK p : p = [of |-> x2, amount |-> x3.amount, stage |-> "posted"]
  BY Zenon
<1>2. p \in Adjust(k)!Posts /\ p.stage = "posted" /\ p.of \in AdjustPages[k].Members
        /\ p.stage \in Adjust(k)!Stages /\ p.amount \in Int
  BY <1>1, AdjustPageIs DEF Adjust!Create, Adjust!Posts, Adjust!Stages
<1>3. x6' = Append(x6, p) /\ UNCHANGED <<Adjust(k)!pageVars, x8, x9, x10, x11>>
  BY <1>1 DEF Adjust!Create
<1>4. /\ x6' \in Seq(Adjust(k)!Posts) /\ Len(x6') = Len(x6) + 1 /\ Len(x6) \in Nat
      /\ DOMAIN x6 = 1..Len(x6) /\ DOMAIN x6' = 1..(Len(x6) + 1)
  BY <1>0, <1>2, <1>3
<1>5. x6'[Len(x6) + 1] = p /\ \A i \in 1..Len(x6) : x6'[i] = x6[i]
  BY <1>0, <1>2, <1>3
<1>6. x7' \in 0..AdjustPages[k].MaxRequests
  BY AdjustPageIs DEF Adjust!Create, Adjust!AdjustmentAssumption
<1>7. x12' \in BOOLEAN /\ ~x12'
  BY AdjustPageIs DEF Adjust!Create, Adjust!ShownInv, Adjust!IInv,
      Adjust!PostsShownMember
<1>8. Adjust(k)!TypeOK'
  <2>1. \A i \in DOMAIN x6' :
          x6'[i].of \in AdjustPages[k].Members /\ x6'[i].stage \in Adjust(k)!Stages /\ x6'[i].amount \in Int
    BY <1>2, <1>4, <1>5 DEF Adjust!IInv, Adjust!TypeOK
  <2>. QED
    <3>1. UNCHANGED <<x1, x2, x3, x4, x5, x8, x9, x10, x11>>
      BY <1>3 DEF Adjust!pageVars
    <3>2. Adjust(k)!TypeOK
      BY DEF Adjust!IInv
    <3>. QED
      BY <1>6, <1>7, <2>1, <3>1, <3>2 DEF Adjust!TypeOK
<1>9. Adjust(k)!TypedInv' /\ Adjust(k)!PostsShownMember' /\ Adjust(k)!ShownInv' /\ Adjust(k)!CapKeepsWallet'
  BY <1>3, <1>4, <1>7 DEF Adjust!IInv, Adjust!TypedInv, Adjust!PostsShownMember,
      Adjust!ShownInv, Adjust!CapKeepsWallet, Adjust!pageVars
<1>10. Adjust(k)!CapInv'
  <2>1. \A i \in DOMAIN x6' : x6'[i].stage = "capped" => i \in DOMAIN x6 /\ x6'[i] = x6[i]
    BY <1>2, <1>4, <1>5
  <2>2. Adjust(k)!CapInv
    BY DEF Adjust!IInv
  <2>. QED
    BY <1>3, <2>1, <2>2 DEF Adjust!CapInv
<1>11. Adjust(k)!RowsExplainWallet'
  <2>. SUFFICES ASSUME NEW a \in AdjustPages[k].Members,
                       \A i \in DOMAIN x6' : x6'[i].of = a => x6'[i].stage # "lost"
                PROVE  x8'[a] = x10'[a] + Adjust(k)!Sum([i \in DOMAIN x6' |-> Adjust(k)!Part(x6'[i], a)])
    BY DEF Adjust!RowsExplainWallet, Adjust!Moved
  <2>1. \A i \in DOMAIN x6 : x6[i].of = a => x6[i].stage # "lost"
    BY <1>4, <1>5
  <2>2. PICK c : c = [i \in DOMAIN x6 |-> Adjust(k)!Part(x6[i], a)]
    BY Zenon
  <2>3. PICK d : d = [i \in DOMAIN x6' |-> Adjust(k)!Part(x6'[i], a)]
    BY Zenon
  <2>4. c \in Seq(Int) /\ d \in Seq(Int)
    BY <1>0, <1>4, <2>2, <2>3, AdjustPartsAre, Zenon
  <2>5. Adjust(k)!Part(p, a) = 0
    BY <1>2 DEF Adjust!Part
  <2>6. Len(c) = Len(x6) /\ Len(d) = Len(c) + 1 /\ d[Len(d)] = 0
    BY <1>4, <1>5, <2>2, <2>3, <2>4, <2>5
  <2>7. \A i \in 1..Len(c) : d[i] = c[i]
    BY <1>4, <1>5, <2>2, <2>3, <2>6
  <2>8. Adjust(k)!Sum(d) = Adjust(k)!Sum(c) + 0
    BY <2>4, <2>6, <2>7, AdjustSumAppended, Zenon
  <2>9. x8[a] = x10[a] + Adjust(k)!Sum(c)
    BY <2>1, <2>2 DEF Adjust!IInv, Adjust!RowsExplainWallet, Adjust!Moved
  <2>10. Adjust(k)!Sum(c) \in Int
    BY <2>2, AdjustMovedIsInt DEF Adjust!Moved
  <2>. QED
    <3>1. x8[a] = x10[a] + Adjust(k)!Sum(d) /\ x8'[a] = x8[a] /\ x10'[a] = x10[a]
      BY <1>3, <2>8, <2>9, <2>10
    <3>. QED
      BY <2>3, <3>1
<1>. QED
  BY <1>8, <1>9, <1>10, <1>11 DEF Adjust!IInv

(* A post is served: what has to hold of it. *)
LEMMA AdjustPostKeeps ==
  ASSUME NEW k \in DOMAIN AdjustPages, Adjust(k)!AdjustmentAssumption, Adjust(k)!IInv, NEW i \in DOMAIN x6,
         NEW p \in Adjust(k)!Posts, x6' = [x6 EXCEPT ![i] = p],
         p.of = x6[i].of, x6[i].stage # "lost", x8' \in [AdjustPages[k].Members -> Int],
         \A a \in AdjustPages[k].Members : (p.stage = "lost" /\ a = p.of)
                            \/ x8'[a] = x8[a] + (Adjust(k)!Part(p, a) - Adjust(k)!Part(x6[i], a)),
         x1' \in BOOLEAN, x11' \subseteq AdjustPages[k].Members, Adjust(k)!CapKeepsWallet', Adjust(k)!CapInv',
         UNCHANGED <<x2, x3, x4, x5, x7, x9, x12, x10>>
  PROVE  Adjust(k)!IInv'
<1>0. x6 \in Seq(Adjust(k)!Posts)
  BY DEF Adjust!IInv, Adjust!TypedInv
<1>1. x6' \in Seq(Adjust(k)!Posts) /\ DOMAIN x6' = DOMAIN x6 /\ \A j \in DOMAIN x6' :
        x6'[j] \in Adjust(k)!Posts
  BY <1>0
<1>2. \A j \in DOMAIN x6' :
        x6'[j].of \in AdjustPages[k].Members /\ x6'[j].stage \in Adjust(k)!Stages /\ x6'[j].amount \in Int
  BY <1>1, Zenon DEF Adjust!Posts
<1>3. Adjust(k)!TypeOK'
  BY <1>2 DEF Adjust!IInv, Adjust!TypeOK
<1>4. Adjust(k)!TypedInv' /\ Adjust(k)!PostsShownMember' /\ Adjust(k)!ShownInv'
  BY <1>1 DEF Adjust!IInv, Adjust!TypedInv, Adjust!PostsShownMember, Adjust!ShownInv
<1>5. Adjust(k)!RowsExplainWallet'
  BY AdjustPostMoves, Zenon
<1>. QED
  BY <1>3, <1>4, <1>5 DEF Adjust!IInv

(* A post that passes to a stage in which its amount is not capped, and    *)
(* the wallet stays.                                                       *)
LEMMA AdjustStageKeeps ==
  ASSUME NEW k \in DOMAIN AdjustPages, Adjust(k)!AdjustmentAssumption, Adjust(k)!IInv, NEW i \in DOMAIN x6,
         NEW to \in Adjust(k)!Stages, x6' = [x6 EXCEPT ![i].stage = to],
         to # "capped", x6[i].stage # "lost",
         to # "lost" =>
           (x6[i].stage \in {"adjusted", "committed", "told"} <=> to \in {"adjusted", "committed", "told"}),
         x1' \in BOOLEAN,
         UNCHANGED <<x2, x3, x4, x5, x7, x8, x9, x12, x10, x11>>
  PROVE  Adjust(k)!IInv'
<1>0. x6 \in Seq(Adjust(k)!Posts) /\ x8 \in [AdjustPages[k].Members -> Int]
        /\ x11 \subseteq AdjustPages[k].Members /\ x6[i] \in Adjust(k)!Posts
  BY DEF Adjust!IInv, Adjust!TypedInv, Adjust!TypeOK
<1>1. PICK p : p = [x6[i] EXCEPT !.stage = to]
  OBVIOUS
<1>2. /\ p \in Adjust(k)!Posts /\ p.of = x6[i].of /\ p.stage = to /\ p.amount = x6[i].amount
           /\ p.amount \in Int
      /\ x6[i].stage \in Adjust(k)!Stages
  BY <1>0, <1>1, Zenon DEF Adjust!Posts
<1>3. x6' = [x6 EXCEPT ![i] = p]
  BY <1>0, <1>1
<1>4. \A j \in DOMAIN x6' : x6'[j].stage = "capped" => j \in DOMAIN x6 /\ x6'[j] = x6[j]
  BY <1>0, <1>2, <1>3
<1>5. Adjust(k)!CapInv'
  <2>1. Adjust(k)!CapInv
    BY DEF Adjust!IInv
  <2>. QED
    BY <1>4, <2>1 DEF Adjust!CapInv
<1>6. Adjust(k)!CapKeepsWallet'
  BY DEF Adjust!IInv, Adjust!CapKeepsWallet
<1>7. ASSUME NEW a \in AdjustPages[k].Members
      PROVE  (p.stage = "lost" /\ a = p.of)
               \/ x8'[a] = x8[a] + (Adjust(k)!Part(p, a) - Adjust(k)!Part(x6[i], a))
  <2>1. x8[a] \in Int /\ Adjust(k)!Part(p, a) \in Int
    BY <1>0, <1>2 DEF Adjust!Part
  <2>2. (p.stage = "lost" /\ a = p.of) \/ Adjust(k)!Part(p, a) = Adjust(k)!Part(x6[i], a)
    BY <1>2 DEF Adjust!Part
  <2>. QED
    BY <2>1, <2>2
<1>. QED
  BY <1>0, <1>2, <1>3, <1>5, <1>6, <1>7, AdjustPostKeeps

LEMMA AdjustCapKeeps ==
  ASSUME NEW k \in DOMAIN AdjustPages, Adjust(k)!AdjustmentAssumption, Adjust(k)!IInv, NEW i \in DOMAIN x6,
         Adjust(k)!Cap(i)
  PROVE  Adjust(k)!IInv'
<1>0. /\ x6 \in Seq(Adjust(k)!Posts) /\ x8 \in [AdjustPages[k].Members -> Int]
           /\ x11 \subseteq AdjustPages[k].Members /\ x6[i] \in Adjust(k)!Posts
      /\ AdjustPages[k].MaxAmount \in Nat /\ x6[i].stage = "posted" /\ x1 \in BOOLEAN
  BY DEF Adjust!IInv, Adjust!TypedInv, Adjust!TypeOK, Adjust!AdjustmentAssumption,
      Adjust!Cap
<1>. DEFINE x == x6[i].amount
            w == x8[x6[i].of]
            y == IF x > AdjustPages[k].MaxAmount THEN AdjustPages[k].MaxAmount ELSE IF x < 0 /\ -x > w
              THEN -w ELSE x
<1>1. x \in Int /\ w \in Int /\ y \in Int /\ x6[i].of \in AdjustPages[k].Members
  BY <1>0 DEF Adjust!Posts
<1>2. w >= 0 => w + y >= 0
  BY <1>0, <1>1
<1>3. PICK p : p = [x6[i] EXCEPT !.stage = "capped", !.amount = y]
  OBVIOUS
<1>4. p \in Adjust(k)!Posts /\ p.of = x6[i].of /\ p.stage = "capped" /\ p.amount = y
  <2>. HIDE DEF y
  <2>. QED
    BY <1>0, <1>1, <1>3, Zenon DEF Adjust!Posts, Adjust!Stages
<1>5. x6' = [x6 EXCEPT ![i] = p]
  BY <1>0, <1>3, Zenon DEF Adjust!Cap
<1>6. UNCHANGED <<Adjust(k)!pageVars, x7, x8, x9, x12, x10, x11>>
  BY DEF Adjust!Cap
<1>. HIDE DEF x, w, y
<1>7. Adjust(k)!CapKeepsWallet'
  BY <1>6, Zenon DEF Adjust!IInv, Adjust!CapKeepsWallet
<1>8. Adjust(k)!CapInv'
  <2>. SUFFICES ASSUME NEW j \in DOMAIN x6', x6'[j].stage = "capped", x6'[j].of \notin x11
                PROVE  x8[x6'[j].of] + x6'[j].amount >= 0
    BY <1>6 DEF Adjust!CapInv
  <2>1. Adjust(k)!CapInv /\ Adjust(k)!CapKeepsWallet
    BY DEF Adjust!IInv
  <2>2. DOMAIN x6' = DOMAIN x6 /\ x6'[i] = p /\ \A m \in DOMAIN x6 : m # i => x6'[m] = x6[m]
    BY <1>0, <1>5
  <2>3. CASE j = i
    BY <1>1, <1>2, <1>4, <2>1, <2>2, <2>3 DEF Adjust!CapKeepsWallet, w
  <2>4. CASE j # i
    BY <2>1, <2>2, <2>4 DEF Adjust!CapInv
  <2>. QED
    BY <2>3, <2>4
<1>9. \A a \in AdjustPages[k].Members :
        Adjust(k)!Part(p, a) = 0 /\ Adjust(k)!Part(x6[i], a) = 0 /\ x8[a] \in Int
  BY <1>0, <1>4 DEF Adjust!Part
<1>10. \A a \in AdjustPages[k].Members : x8'[a] = x8[a] + (Adjust(k)!Part(p, a) - Adjust(k)!Part(x6[i], a))
  BY <1>6, <1>9
<1>11. x11' \subseteq AdjustPages[k].Members /\ x1' \in BOOLEAN /\ x8' \in [AdjustPages[k].Members -> Int]
         /\ x6[i].stage # "lost"
       /\ UNCHANGED <<x2, x3, x4, x5, x7, x9, x12, x10>>
  BY <1>0, <1>6 DEF Adjust!pageVars
<1>. QED
  BY <1>4, <1>5, <1>7, <1>8, <1>10, <1>11, AdjustPostKeeps

(* The wallet is moved, whether the call answers or throws. *)
LEMMA AdjustAdjustKeeps ==
  ASSUME NEW k \in DOMAIN AdjustPages, Adjust(k)!AdjustmentAssumption, Adjust(k)!IInv, NEW i \in DOMAIN x6,
         NEW to \in {"adjusted", "lost"}, Adjust(k)!Move(i, "capped", to),
         x8' = [x8 EXCEPT ![x6[i].of] = @ + x6[i].amount], Adjust(k)!Overtaking(x6[i].of, i),
         UNCHANGED <<Adjust(k)!pageVars, x7, x9, x12, x10>>
  PROVE  Adjust(k)!IInv'
<1>0. /\ x6 \in Seq(Adjust(k)!Posts) /\ x8 \in [AdjustPages[k].Members -> Int]
           /\ x11 \subseteq AdjustPages[k].Members /\ x6[i] \in Adjust(k)!Posts
      /\ x6[i].stage = "capped" /\ x1 \in BOOLEAN
  BY DEF Adjust!IInv, Adjust!TypedInv, Adjust!TypeOK, Adjust!Move
<1>1. x6[i].of \in AdjustPages[k].Members /\ x6[i].amount \in Int
  BY <1>0 DEF Adjust!Posts
<1>2. PICK p : p = [x6[i] EXCEPT !.stage = to]
  BY Zenon
<1>3. p \in Adjust(k)!Posts /\ p.of = x6[i].of /\ p.stage = to /\ p.amount = x6[i].amount
  BY <1>0, <1>2, Zenon DEF Adjust!Posts, Adjust!Stages
<1>4. x6' = [x6 EXCEPT ![i] = p]
  BY <1>0, <1>2 DEF Adjust!Move
<1>5. /\ x11 \subseteq x11' /\ x11' \subseteq AdjustPages[k].Members
      /\ x6[i].of \notin x11' =>
           Adjust(k)!Capped(x6[i].of) \ {i} = {} \/ x8'[x6[i].of] >= x8[x6[i].of]
  BY <1>0, <1>1 DEF Adjust!Overtaking
<1>6. x8' \in [AdjustPages[k].Members -> Int]
  BY <1>0, <1>1
<1>7. /\ Adjust(k)!CapInv /\ Adjust(k)!CapKeepsWallet
      /\ x6[i].of \notin x11 => x8[x6[i].of] + x6[i].amount >= 0
  BY <1>0 DEF Adjust!IInv, Adjust!CapInv
<1>8. Adjust(k)!CapKeepsWallet'
  BY <1>0, <1>1, <1>5, <1>7 DEF Adjust!CapKeepsWallet
<1>9. Adjust(k)!CapInv'
  <2>. SUFFICES ASSUME NEW j \in DOMAIN x6', x6'[j].stage = "capped", x6'[j].of \notin x11'
                PROVE  x8'[x6'[j].of] + x6'[j].amount >= 0
    BY DEF Adjust!CapInv
  <2>1. DOMAIN x6' = DOMAIN x6 /\ x6'[i] = p /\ \A m \in DOMAIN x6 : m # i => x6'[m] = x6[m]
    BY <1>0, <1>4
  <2>2. j # i /\ j \in DOMAIN x6 /\ x6'[j] = x6[j] /\ x6[j].of \notin x11
    BY <1>3, <1>5, <2>1
  <2>3. x6[j].of = x6[i].of => x8'[x6[i].of] >= x8[x6[i].of]
    BY <1>5, <2>2 DEF Adjust!Capped
  <2>4. x6[j].of \in AdjustPages[k].Members /\ x6[j].amount \in Int
    <3>1. x6[j] \in Adjust(k)!Posts
      BY <1>0, <2>2
    <3>. QED
      BY <3>1 DEF Adjust!Posts
  <2>5. x8'[x6[j].of] >= x8[x6[j].of] /\ x8[x6[j].of] \in Int /\ x8'[x6[j].of] \in Int
    BY <1>0, <1>6, <2>3, <2>4
  <2>6. x8[x6[j].of] + x6[j].amount >= 0
    BY <1>7, <2>2 DEF Adjust!CapInv
  <2>. QED
    BY <2>2, <2>4, <2>5, <2>6
<1>10. ASSUME NEW a \in AdjustPages[k].Members
       PROVE  (p.stage = "lost" /\ a = p.of)
                \/ x8'[a] = x8[a] + (Adjust(k)!Part(p, a) - Adjust(k)!Part(x6[i], a))
  <2>1. Adjust(k)!Part(x6[i], a) = 0 /\ x8[a] \in Int
    BY <1>0 DEF Adjust!Part
  <2>2. CASE a = x6[i].of
    BY <1>0, <1>1, <1>3, <2>1, <2>2 DEF Adjust!Part
  <2>3. CASE a # x6[i].of
    BY <1>0, <1>1, <1>3, <2>1, <2>3 DEF Adjust!Part
  <2>. QED
    BY <2>2, <2>3
<1>11. /\ x1' \in BOOLEAN /\ x6[i].stage # "lost"
       /\ UNCHANGED <<x2, x3, x4, x5, x7, x9, x12, x10>>
  BY <1>0 DEF Adjust!pageVars
<1>. QED
  BY <1>3, <1>4, <1>5, <1>6, <1>8, <1>9, <1>10, <1>11, AdjustPostKeeps

(* A bet, a win or a withdrawal. *)
LEMMA AdjustPlayKeeps ==
  ASSUME NEW k \in DOMAIN AdjustPages, Adjust(k)!AdjustmentAssumption, Adjust(k)!IInv,
         NEW a \in AdjustPages[k].Members, Adjust(k)!Play(a)
  PROVE  Adjust(k)!IInv'
<1>0. /\ x6 \in Seq(Adjust(k)!Posts) /\ x8 \in [AdjustPages[k].Members -> Int]
           /\ x10 \in [AdjustPages[k].Members -> Int]
      /\ x11 \subseteq AdjustPages[k].Members /\ Adjust(k)!CapInv /\ Adjust(k)!CapKeepsWallet
           /\ Adjust(k)!RowsExplainWallet
  BY DEF Adjust!IInv, Adjust!TypedInv, Adjust!TypeOK
<1>1. UNCHANGED <<x1, x2, x3, x4, x5, x6, x7, x9, x12>>
  BY DEF Adjust!Play, Adjust!pageVars
<1>2. PICK d \in {-1, 1} : /\ x8' = [x8 EXCEPT ![a] = x8[a] + d]
                           /\ x10' = [x10 EXCEPT ![a] = x10[a] + d]
                           /\ d = -1 => x8[a] > 0 /\ Adjust(k)!Overtaking(a, 0)
                           /\ d = 1 => x11' = x11
  <2>1. x8[a] - 1 = x8[a] + (-1) /\ x10[a] - 1 = x10[a] + (-1)
    BY <1>0
  <2>2. CASE /\ x8[a] > 0 /\ Adjust(k)!Overtaking(a, 0)
             /\ x8' = [x8 EXCEPT ![a] = x8[a] - 1] /\ x10' = [x10 EXCEPT ![a] = x10[a] - 1]
    <3>1. /\ x8' = [x8 EXCEPT ![a] = x8[a] + (-1)]
          /\ x10' = [x10 EXCEPT ![a] = x10[a] + (-1)]
      BY <2>1, <2>2
    <3>2. -1 \in {-1, 1} /\ -1 # 1
      OBVIOUS
    <3>. QED
      BY <2>2, <3>1, <3>2
  <2>3. CASE /\ x11' = x11
             /\ x8' = [x8 EXCEPT ![a] = x8[a] + 1] /\ x10' = [x10 EXCEPT ![a] = x10[a] + 1]
    BY <2>3
  <2>. QED
    BY <2>2, <2>3 DEF Adjust!Play
<1>3. /\ x8' \in [AdjustPages[k].Members -> Int] /\ x10' \in [AdjustPages[k].Members -> Int]
      /\ x8'[a] = x8[a] + d /\ x10'[a] = x10[a] + d
      /\ \A b \in AdjustPages[k].Members : b # a => x8'[b] = x8[b] /\ x10'[b] = x10[b]
  BY <1>0, <1>2
<1>4. /\ x11 \subseteq x11' /\ x11' \subseteq AdjustPages[k].Members
      /\ d = -1 /\ a \notin x11' => Adjust(k)!Capped(a) \ {0} = {}
  BY <1>0, <1>2, <1>3 DEF Adjust!Overtaking
<1>5. Adjust(k)!TypeOK' /\ Adjust(k)!TypedInv' /\ Adjust(k)!PostsShownMember' /\ Adjust(k)!ShownInv'
  BY <1>1, <1>3, <1>4 DEF Adjust!IInv, Adjust!TypeOK, Adjust!TypedInv,
      Adjust!PostsShownMember, Adjust!ShownInv
<1>6. Adjust(k)!CapKeepsWallet'
  <2>. SUFFICES ASSUME NEW b \in AdjustPages[k].Members, b \notin x11'
                PROVE  x8'[b] >= 0
    BY DEF Adjust!CapKeepsWallet
  <2>1. x8[b] >= 0 /\ x8[b] \in Int
    BY <1>0, <1>4 DEF Adjust!CapKeepsWallet
  <2>. QED
    BY <1>2, <1>3, <2>1
<1>7. Adjust(k)!CapInv'
  <2>. SUFFICES ASSUME NEW j \in DOMAIN x6, x6[j].stage = "capped", x6[j].of \notin x11'
                PROVE  x8'[x6[j].of] + x6[j].amount >= 0
    BY <1>1 DEF Adjust!CapInv
  <2>1. x6[j] \in Adjust(k)!Posts /\ j # 0
    BY <1>0
  <2>2. /\ x6[j].of \in AdjustPages[k].Members /\ x6[j].amount \in Int
        /\ x8[x6[j].of] + x6[j].amount >= 0
    BY <1>0, <1>4, <2>1 DEF Adjust!CapInv, Adjust!Posts
  <2>3. CASE x6[j].of = a
    <3>1. d = 1
      BY <1>2, <1>4, <2>1, <2>3 DEF Adjust!Capped
    <3>. QED
      BY <1>0, <1>3, <2>2, <2>3, <3>1
  <2>4. CASE x6[j].of # a
    BY <1>3, <2>2, <2>4
  <2>. QED
    BY <2>3, <2>4
<1>8. Adjust(k)!RowsExplainWallet'
  <2>. SUFFICES ASSUME NEW b \in AdjustPages[k].Members,
                       \A j \in DOMAIN x6 : x6[j].of = b => x6[j].stage # "lost"
                PROVE  x8'[b] = x10'[b] + Adjust(k)!Moved(b)
    BY <1>1 DEF Adjust!RowsExplainWallet, Adjust!Moved
  <2>1. x8[b] = x10[b] + Adjust(k)!Moved(b) /\ Adjust(k)!Moved(b) \in Int
    BY <1>0, AdjustMovedIsInt DEF Adjust!RowsExplainWallet
  <2>. QED
    BY <1>0, <1>2, <1>3, <2>1
<1>. QED
  BY <1>5, <1>6, <1>7, <1>8 DEF Adjust!IInv

LEMMA AdjustNextIInv ==
  ASSUME NEW k \in DOMAIN AdjustPages, Adjust(k)!AdjustmentAssumption, Adjust(k)!IInv,
         Adjust(k)!Next \/ UNCHANGED Adjust(k)!vars
  PROVE  Adjust(k)!IInv'
<1>0. x1 \in BOOLEAN
  BY AdjustPageIs
<1>1. CASE Adjust(k)!OpenDialog \/ Adjust(k)!ResetDialog
  BY <1>1, AdjustDialogKeeps
<1>2. CASE Adjust(k)!Create
  BY <1>2, AdjustCreateKeeps
<1>3. CASE \E a \in AdjustPages[k].Members : Adjust(k)!ChooseMember(a)
  BY <1>3, AdjustChooseKeeps
<1>4. CASE \E x \in AdjustPages[k].Typed : Adjust(k)!TypeAmount(x)
  BY <1>4, AdjustTypeKeeps
<1>5. CASE \E r \in x5 : Adjust(k)!ShowBalance(r) \/ Adjust(k)!BalanceFails(r) \/ Adjust(k)!ReadBalance(r)
  BY <1>5, AdjustShowKeeps, AdjustFailKeeps, AdjustReadKeeps
<1>6. ASSUME NEW i \in DOMAIN x6, Adjust(k)!Cap(i) \/ Adjust(k)!Adjust(i)
      PROVE  Adjust(k)!IInv'
  <2>1. CASE Adjust(k)!Cap(i)
    BY <2>1, AdjustCapKeeps
  <2>2. CASE Adjust(k)!Adjust(i)
    <3>1. /\ Adjust(k)!Move(i, "capped", "adjusted") /\ x8' = [x8 EXCEPT ![x6[i].of] = @ + x6[i].amount]
          /\ Adjust(k)!Overtaking(x6[i].of, i) /\ UNCHANGED <<Adjust(k)!pageVars, x7, x9, x12, x10>>
      BY <2>2 DEF Adjust!Adjust
    <3>. QED
      BY <3>1, AdjustAdjustKeeps
  <2>. QED
    BY <1>6, <2>1, <2>2
<1>7. ASSUME NEW i \in DOMAIN x6,
             Adjust(k)!AdjustFails(i) \/ Adjust(k)!Commit(i) \/ Adjust(k)!CommitFails(i)
               \/ Adjust(k)!Succeed(i)
      PROVE  Adjust(k)!IInv'
  <2>1. CASE Adjust(k)!AdjustFails(i)
    <3>1. CASE Adjust(k)!Move(i, "capped", "failed") /\ UNCHANGED <<x8, x11>>
      <4>1. x6[i].stage = "capped" /\ x6' = [x6 EXCEPT ![i].stage = "failed"] /\ "failed" \in Adjust(k)!Stages
        BY <3>1 DEF Adjust!Move, Adjust!Stages
      <4>2. x1' \in BOOLEAN /\ UNCHANGED <<x2, x3, x4, x5, x7, x8, x9, x12, x10, x11>>
        BY <1>0, <2>1, <3>1 DEF Adjust!AdjustFails, Adjust!pageVars
      <4>. QED
        BY <4>1, <4>2, AdjustStageKeeps
    <3>2. CASE /\ Adjust(k)!Move(i, "capped", "lost") /\ x8' = [x8 EXCEPT ![x6[i].of] = @ + x6[i].amount]
               /\ Adjust(k)!Overtaking(x6[i].of, i)
      <4>1. UNCHANGED <<Adjust(k)!pageVars, x7, x9, x12, x10>>
        BY <2>1 DEF Adjust!AdjustFails
      <4>. QED
        BY <3>2, <4>1, AdjustAdjustKeeps
    <3>. QED
      BY <2>1, <3>1, <3>2 DEF Adjust!AdjustFails
  <2>2. CASE Adjust(k)!Commit(i)
    <3>1. x6[i].stage = "adjusted" /\ x6' = [x6 EXCEPT ![i].stage = "committed"]
            /\ "committed" \in Adjust(k)!Stages
      BY <2>2 DEF Adjust!Commit, Adjust!Move, Adjust!Stages
    <3>2. x1' \in BOOLEAN /\ UNCHANGED <<x2, x3, x4, x5, x7, x8, x9, x12, x10, x11>>
      BY <1>0, <2>2 DEF Adjust!Commit, Adjust!pageVars
    <3>. QED
      BY <3>1, <3>2, AdjustStageKeeps, Zenon
  <2>3. CASE Adjust(k)!CommitFails(i)
    <3>1. x6[i].stage = "adjusted" /\ x6' = [x6 EXCEPT ![i].stage = "lost"] /\ "lost" \in Adjust(k)!Stages
      BY <2>3 DEF Adjust!CommitFails, Adjust!Move, Adjust!Stages
    <3>2. x1' \in BOOLEAN /\ UNCHANGED <<x2, x3, x4, x5, x7, x8, x9, x12, x10, x11>>
      BY <1>0, <2>3 DEF Adjust!CommitFails, Adjust!pageVars
    <3>. QED
      BY <3>1, <3>2, AdjustStageKeeps
  <2>4. CASE Adjust(k)!Succeed(i)
    <3>1. x6[i].stage = "committed" /\ x6' = [x6 EXCEPT ![i].stage = "told"] /\ "told" \in Adjust(k)!Stages
      BY <2>4 DEF Adjust!Succeed, Adjust!Move, Adjust!Stages
    <3>2. x1' \in BOOLEAN /\ UNCHANGED <<x2, x3, x4, x5, x7, x8, x9, x12, x10, x11>>
      BY <2>4 DEF Adjust!Succeed
    <3>. QED
      BY <3>1, <3>2, AdjustStageKeeps
  <2>. QED
    BY <1>7, <2>1, <2>2, <2>3, <2>4
<1>8. CASE UNCHANGED Adjust(k)!vars
  <2>1. UNCHANGED <<Adjust(k)!pageVars, x6, x7, x8, x9, x10, x11, x12>>
    BY <1>8 DEF Adjust!vars
  <2>2. Adjust(k)!ShownInv'
    BY <2>1, AdjustPageIs DEF Adjust!ShownInv, Adjust!pageVars
  <2>. QED
    BY <2>1, <2>2, AdjustPageIs, AdjustPageKeeps DEF Adjust!pageVars
<1>. QED
  BY <1>1, <1>2, <1>3, <1>4, <1>5, <1>6, <1>7, <1>8, AdjustPlayKeeps DEF Adjust!Next,
      Adjust!Page, Adjust!Server

LEMMA AdjustIInvImplies ==
  ASSUME NEW k \in DOMAIN AdjustPages, Adjust(k)!IInv
  PROVE  Adjust(k)!TypeOK /\ Adjust(k)!PostsShownMember /\ Adjust(k)!CapKeepsWallet
           /\ Adjust(k)!RowsExplainWallet
BY DEF Adjust!IInv

(* The invariant of the pages of this script. *)
AdjustInv == \A k \in On("adjust", AdjustPages) : Adjust(k)!IInv

LEMMA AdjustBegins ==
  ASSUME MemberInit
  PROVE  AdjustInv
<1>. SUFFICES ASSUME NEW k \in On("adjust", AdjustPages)
         PROVE  Adjust(k)!IInv
  BY DEF AdjustInv
<1>1. k \in DOMAIN AdjustPages /\ script = "adjust" /\ page = k
  BY DEF On
<1>2. Adjust(k)!Init
  BY <1>1 DEF MemberInit
<1>3. Adjust(k)!AdjustmentAssumption
  BY <1>1, MemberPagesAreSound DEF MemberPagesAssumption
<1>. QED
  BY <1>1, <1>2, AdjustInitIInv, <1>3

LEMMA AdjustGoesOn ==
  ASSUME AdjustInv, MemberStep
  PROVE  AdjustInv'
<1>1. script' = script /\ page' = page
  BY CountingStays
<1>2. ASSUME NEW k \in On("adjust", AdjustPages)
      PROVE  Adjust(k)!IInv'
  <2>1. k \in DOMAIN AdjustPages /\ script = "adjust" /\ page = k
    BY DEF On
  <2>2. Adjust(k)!Next \/ UNCHANGED Adjust(k)!vars
    BY <2>1 DEF MemberStep, MemberNext, On, vars, Adjust!vars, Adjust!pageVars
  <2>3. Adjust(k)!AdjustmentAssumption
    BY <2>1, MemberPagesAreSound DEF MemberPagesAssumption
  <2>4. Adjust(k)!IInv
    BY DEF AdjustInv
  <2>. QED
    BY <2>1, <2>2, AdjustNextIInv, <2>3, <2>4
<1>3. On("adjust", AdjustPages)' = On("adjust", AdjustPages)
  BY <1>1 DEF On
<1>. QED
  BY <1>2, <1>3 DEF AdjustInv

LEMMA AdjustShows ==
  ASSUME AdjustInv
  PROVE  /\ \A k \in On("adjust", AdjustPages) : Adjust(k)!TypeOK
         /\ \A k \in On("adjust", AdjustPages) : Adjust(k)!PostsShownMember
         /\ \A k \in On("adjust", AdjustPages) : Adjust(k)!CapKeepsWallet
         /\ \A k \in On("adjust", AdjustPages) : Adjust(k)!RowsExplainWallet
<1>. SUFFICES ASSUME NEW k \in On("adjust", AdjustPages)
         PROVE  Adjust(k)!TypeOK /\ Adjust(k)!PostsShownMember /\ Adjust(k)!CapKeepsWallet
                  /\ Adjust(k)!RowsExplainWallet
  OBVIOUS
<1>1. k \in DOMAIN AdjustPages /\ Adjust(k)!IInv
  BY DEF On, AdjustInv
<1>. QED
  BY <1>1, AdjustIInvImplies

-----------------------------------------------------------------------------
(***************************************************************************)
(* AmountInput (Amount): x1 is value, x2 is caret, x3 is all, x4 is pasted.*)
(***************************************************************************)
(* A function over the numbers up to n may be given by its first value and *)
(* a step.                                                                 *)
LEMMA AmountRecursion ==
  ASSUME NEW k \in DOMAIN AmountFields, NEW V, NEW a \in V, NEW n \in Nat, NEW h \in [(1..n) \X V -> V]
  PROVE  \E f : Amount(k)!Grown(f, V, a, n, h)
<1>. USE DEF Amount!Grown
<1>. DEFINE Good(f, m) == f \in [0..m -> V] /\ f[0] = a /\ \A i \in 1..m : f[i] = h[<<i, f[i - 1]>>]
            T == {m \in Nat : m <= n => \E f : Good(f, m)}
<1>1. 0 \in T
  <2>1. Good([i \in 0..0 |-> a], 0)
    OBVIOUS
  <2>. QED
    BY <2>1
<1>2. ASSUME NEW m \in T
      PROVE  m + 1 \in T
  <2>. SUFFICES ASSUME m + 1 <= n
                PROVE  \E f : Good(f, m + 1)
    OBVIOUS
  <2>0. m \in Nat /\ m <= n /\ m + 1 \in 1..n
    OBVIOUS
  <2>1. PICK f : Good(f, m)
    BY <2>0
  <2>2. f[m] \in V
    BY <2>0, <2>1
  <2>3. PICK v \in V : v = h[<<m + 1, f[m]>>]
    BY <2>0, <2>2
  <2>4. PICK g : g = [i \in 0..(m + 1) |-> IF i = m + 1 THEN v ELSE f[i]]
    OBVIOUS
  <2>5. g \in [0..(m + 1) -> V] /\ g[0] = a /\ g[m + 1] = v /\ \A i \in 0..m : g[i] = f[i]
    BY <2>0, <2>1, <2>4
  <2>6. ASSUME NEW i \in 1..(m + 1)
        PROVE  g[i] = h[<<i, g[i - 1]>>]
    <3>1. CASE i = m + 1
      <4>1. i - 1 = m /\ g[m] = f[m]
        BY <2>0, <2>5, <3>1
      <4>. QED
        BY <2>3, <2>5, <3>1, <4>1
    <3>2. CASE i \in 1..m
      <4>1. g[i] = f[i] /\ g[i - 1] = f[i - 1]
        BY <2>0, <2>5, <3>2
      <4>. QED
        BY <2>1, <3>2, <4>1
    <3>. QED
      BY <2>0, <3>1, <3>2
  <2>. QED
    BY <2>5, <2>6
<1>3. T \in SUBSET Nat
  OBVIOUS
<1>4. n \in T
  <2>. HIDE DEF T
  <2>. QED
    BY <1>1, <1>2, <1>3, SetInduction
<1>. QED
  BY <1>4

LEMMA AmountSameText ==
  ASSUME NEW k \in DOMAIN AmountFields, NEW s \in Seq(Amount(k)!Chars), NEW t \in Seq(Amount(k)!Chars),
         Len(s) = Len(t), \A i \in 1..Len(s) : s[i] = t[i]
  PROVE  s = t
<1>1. s = [i \in 1..Len(s) |-> s[i]] /\ t = [i \in 1..Len(t) |-> t[i]]
  OBVIOUS
<1>. QED
  BY <1>1

LEMMA AmountOneMore ==
  ASSUME NEW k \in DOMAIN AmountFields, NEW s \in Seq(Amount(k)!Chars), NEW c \in Amount(k)!Chars
  PROVE  /\ Append(s, c) \in Seq(Amount(k)!Chars) /\ Len(Append(s, c)) = Len(s) + 1
              /\ Append(s, c)[Len(s) + 1] = c
         /\ \A i \in 1..Len(s) : Append(s, c)[i] = s[i]
OBVIOUS

(* Every text is made of the empty one by adding characters behind it.     *)
LEMMA AmountTextInduction ==
  ASSUME NEW k \in DOMAIN AmountFields, NEW T \in SUBSET Seq(Amount(k)!Chars), <<>> \in T,
         \A s \in T, c \in Amount(k)!Chars : Append(s, c) \in T
  PROVE  T = Seq(Amount(k)!Chars)
<1>. DEFINE N == {n \in Nat : \A s \in Seq(Amount(k)!Chars) : Len(s) = n => s \in T}
<1>1. 0 \in N
  <2>1. \A s \in Seq(Amount(k)!Chars) : Len(s) = 0 => s = <<>>
    OBVIOUS
  <2>. QED
    BY <2>1
<1>2. ASSUME NEW n \in N
      PROVE  n + 1 \in N
  <2>. SUFFICES ASSUME NEW s \in Seq(Amount(k)!Chars), Len(s) = n + 1
                PROVE  s \in T
    OBVIOUS
  <2>1. PICK r, c : r = SubSeq(s, 1, n) /\ c = s[n + 1]
    OBVIOUS
  <2>2. n \in Nat /\ r \in Seq(Amount(k)!Chars) /\ Len(r) = n /\ c \in Amount(k)!Chars
    BY <2>1
  <2>3. PICK a : a = Append(r, c)
    OBVIOUS
  <2>4. a \in Seq(Amount(k)!Chars) /\ Len(a) = n + 1 /\ a[n + 1] = c /\ \A i \in 1..n : a[i] = s[i]
    <3>1. a \in Seq(Amount(k)!Chars) /\ Len(a) = n + 1 /\ a[n + 1] = c
      BY <2>2, <2>3, AmountOneMore
    <3>2. \A i \in 1..n : a[i] = r[i]
      BY <2>2, <2>3, AmountOneMore
    <3>3. \A i \in 1..n : r[i] = s[i]
      BY <2>1, <2>2
    <3>. QED
      BY <3>1, <3>2, <3>3
  <2>5. \A i \in 1..Len(s) : s[i] = a[i]
    <3>1. \A i \in 1..Len(s) : i \in 1..n \/ i = n + 1
      BY <2>2
    <3>. QED
      BY <2>1, <2>4, <3>1
  <2>6. s = a
    BY <2>4, <2>5, AmountSameText
  <2>. QED
    BY <2>2, <2>3, <2>6
<1>3. N \in SUBSET Nat
  OBVIOUS
<1>4. N = Nat
  <2>. HIDE DEF N
  <2>. QED
    BY <1>1, <1>2, <1>3, SetInduction
<1>5. ASSUME NEW s \in Seq(Amount(k)!Chars)
      PROVE  s \in T
  <2>1. Len(s) \in N
    <3>. HIDE DEF N
    <3>. QED
      BY <1>4
  <2>. QED
    BY <2>1
<1>. QED
  BY <1>5

(* A set of numbers from 1 on that is not empty has a least one.           *)
LEMMA AmountLeastExists ==
  ASSUME NEW k \in DOMAIN AmountFields, NEW S \in SUBSET Nat, S # {}
  PROVE  \E i \in S : \A j \in S : i <= j
<1>. SUFFICES ASSUME ~\E i \in S : \A j \in S : i <= j
              PROVE  FALSE
  OBVIOUS
<1>. DEFINE T == {n \in Nat : \A i \in S : n < i}
<1>1. 0 \in T
  BY SMT
<1>2. ASSUME NEW n \in T
      PROVE  n + 1 \in T
  <2>1. n \in Nat /\ n + 1 \notin S
    OBVIOUS
  <2>. QED
    BY <2>1
<1>3. T = Nat
  <2>1. T \in SUBSET Nat
    OBVIOUS
  <2>. HIDE DEF T
  <2>. QED
    BY <1>1, <1>2, <2>1, SetInduction
<1>4. PICK i \in S : TRUE
  OBVIOUS
<1>5. i \in T
  <2>. HIDE DEF T
  <2>. QED
    BY <1>3, <1>4
<1>. QED
  BY <1>5

-----------------------------------------------------------------------------
LEMMA AmountOnlyIs ==
  ASSUME NEW k \in DOMAIN AmountFields, NEW S, NEW s \in Seq(Amount(k)!Chars)
  PROVE  \E f : /\ f[0] = <<>>
                /\ \A i \in 1..Len(s) : f[i] = IF s[i] \in S THEN Append(f[i - 1], s[i]) ELSE f[i - 1]
                /\ Amount(k)!Only(S, s) = f[Len(s)]
<1>. DEFINE F(f) == [i \in 0..Len(s) |->
                       IF i = 0 THEN <<>> ELSE IF s[i] \in S THEN Append(f[i - 1], s[i]) ELSE f[i - 1]]
            V == Seq(Amount(k)!Chars)
            h == [p \in (1..Len(s)) \X V |-> IF s[p[1]] \in S THEN Append(p[2], s[p[1]]) ELSE p[2]]
            c == CHOOSE f : f = F(f)
<1>0. Len(s) \in Nat /\ \A i \in 1..Len(s) : s[i] \in Amount(k)!Chars
  OBVIOUS
<1>1. h \in [(1..Len(s)) \X V -> V] /\ <<>> \in V
  BY <1>0
<1>2. \A i \in 1..Len(s), v \in V : h[<<i, v>>] = IF s[i] \in S THEN Append(v, s[i]) ELSE v
  OBVIOUS
<1>. HIDE DEF h, V
<1>3. PICK f \in [0..Len(s) -> V] : f[0] = <<>> /\ \A i \in 1..Len(s) : f[i] = h[<<i, f[i - 1]>>]
  <2>1. PICK n \in Nat : n = Len(s)
    BY <1>0
  <2>2. \E f \in [0..n -> V] : f[0] = <<>> /\ \A i \in 1..n : f[i] = h[<<i, f[i - 1]>>]
    <3>1. PICK a \in V : a = <<>>
      BY <1>1
    <3>2. h \in [(1..n) \X V -> V]
      BY <1>1, <2>1
    <3>3. \E f : Amount(k)!Grown(f, V, a, n, h)
      BY <3>2, AmountRecursion, Zenon
    <3>. QED
      BY <3>1, <3>3 DEF Amount!Grown
  <2>. QED
    BY <2>1, <2>2, Zenon
<1>4. f = F(f)
  <2>1. \A i \in 1..Len(s) : f[i - 1] \in V
    BY <1>0
  <2>2. \A i \in 1..Len(s) : f[i] = IF s[i] \in S THEN Append(f[i - 1], s[i]) ELSE f[i - 1]
    BY <1>2, <1>3, <2>1
  <2>3. \A i \in 0..Len(s) : i = 0 \/ i \in 1..Len(s)
    OBVIOUS
  <2>. QED
    BY <1>3, <2>2, <2>3
<1>5. c = F(c)
  <2>. HIDE DEF F
  <2>. QED
    BY <1>4
<1>6. Amount(k)!Only(S, s) = c[Len(s)]
  BY DEF Amount!Only
<1>. HIDE DEF c
<1>7. c[0] = <<>> /\ \A i \in 1..Len(s) : c[i] = IF s[i] \in S THEN Append(c[i - 1], s[i]) ELSE c[i - 1]
  <2>1. PICK n \in Nat : n = Len(s)
    BY <1>0
  <2>2. c = [i \in 0..n |-> IF i = 0 THEN <<>> ELSE IF s[i] \in S THEN Append(c[i - 1], s[i]) ELSE c[i - 1]]
    BY <1>5, <2>1
  <2>3. 0 \in 0..n /\ \A i \in 1..n : i \in 0..n /\ i # 0
    BY <2>1
  <2>4. c[0] = <<>> /\ \A i \in 1..n : c[i] = IF s[i] \in S THEN Append(c[i - 1], s[i]) ELSE c[i - 1]
    BY <2>2, <2>3, Zenon
  <2>. QED
    BY <2>1, <2>4, Zenon
<1>. QED
  BY <1>6, <1>7

LEMMA AmountOnlyOfNone ==
  ASSUME NEW k \in DOMAIN AmountFields, NEW S
  PROVE  Amount(k)!Only(S, <<>>) = <<>>
<1>1. <<>> \in Seq(Amount(k)!Chars) /\ Len(<<>>) = 0
  OBVIOUS
<1>2. PICK s \in Seq(Amount(k)!Chars) : s = <<>> /\ Len(s) = 0
  BY <1>1
<1>3. Amount(k)!Only(S, s) = <<>>
  <2>1. PICK f : f[0] = <<>> /\ Amount(k)!Only(S, s) = f[Len(s)]
    <3>1. PICK f : /\ f[0] = <<>>
                   /\ \A i \in 1..Len(s) : f[i] = IF s[i] \in S THEN Append(f[i - 1], s[i]) ELSE f[i - 1]
                   /\ Amount(k)!Only(S, s) = f[Len(s)]
      BY AmountOnlyIs
    <3>. QED
      BY <3>1, Zenon
  <2>. QED
    BY <1>2, <2>1
<1>. QED
  BY <1>2, <1>3

LEMMA AmountOnlyOfMore ==
  ASSUME NEW k \in DOMAIN AmountFields, NEW S, NEW s \in Seq(Amount(k)!Chars), NEW x \in Amount(k)!Chars
  PROVE  Amount(k)!Only(S, Append(s, x)) = IF x \in S THEN Append(Amount(k)!Only(S, s), x)
           ELSE Amount(k)!Only(S, s)
<1>. DEFINE d == Append(s, x)
            n == Len(s)
<1>0. n \in Nat /\ d \in Seq(Amount(k)!Chars) /\ Len(d) = n + 1 /\ d[n + 1] = x /\ \A i \in 1..n : d[i] = s[i]
  OBVIOUS
<1>. HIDE DEF d
<1>1. PICK f : /\ f[0] = <<>>
               /\ \A i \in 1..n : f[i] = IF s[i] \in S THEN Append(f[i - 1], s[i]) ELSE f[i - 1]
               /\ Amount(k)!Only(S, s) = f[n]
  BY AmountOnlyIs
<1>2. PICK g : /\ g[0] = <<>>
               /\ \A i \in 1..(n + 1) : g[i] = IF d[i] \in S THEN Append(g[i - 1], d[i]) ELSE g[i - 1]
               /\ Amount(k)!Only(S, d) = g[n + 1]
  BY <1>0, AmountOnlyIs
<1>. HIDE DEF n
<1>. DEFINE T == {m \in Nat : m <= n => f[m] = g[m]}
<1>3. 0 \in T
  BY <1>1, <1>2
<1>4. ASSUME NEW m \in T
      PROVE  m + 1 \in T
  <2>. SUFFICES ASSUME m + 1 <= n
                PROVE  f[m + 1] = g[m + 1]
    OBVIOUS
  <2>1. m + 1 \in 1..n /\ m + 1 \in 1..(n + 1) /\ (m + 1) - 1 = m /\ f[m] = g[m]
    BY <1>0
  <2>2. d[m + 1] = s[m + 1]
    BY <1>0, <2>1
  <2>3. f[m + 1] = IF s[m + 1] \in S THEN Append(f[m], s[m + 1]) ELSE f[m]
    BY <1>1, <2>1
  <2>4. g[m + 1] = IF d[m + 1] \in S THEN Append(g[m], d[m + 1]) ELSE g[m]
    BY <1>2, <2>1
  <2>. QED
    BY <2>1, <2>2, <2>3, <2>4
<1>5. n \in T
  <2>1. T \in SUBSET Nat
    OBVIOUS
  <2>. HIDE DEF T
  <2>. QED
    BY <1>0, <1>3, <1>4, <2>1, SetInduction
<1>6. g[n + 1] = IF d[n + 1] \in S THEN Append(g[n], d[n + 1]) ELSE g[n]
  <2>1. n + 1 \in 1..(n + 1) /\ (n + 1) - 1 = n
    BY <1>0
  <2>. QED
    BY <1>2, <2>1
<1>7. f[n] = g[n]
  BY <1>0, <1>5
<1>. QED
  BY <1>0, <1>1, <1>2, <1>6, <1>7 DEF d

LEMMA AmountOnlyInside ==
  ASSUME NEW k \in DOMAIN AmountFields, NEW S, NEW s \in Seq(Amount(k)!Chars)
  PROVE  /\ Amount(k)!Only(S, s) \in Seq(Amount(k)!Chars)
         /\ \A i \in 1..Len(Amount(k)!Only(S, s)) : Amount(k)!Only(S, s)[i] \in S /\ \E j \in 1..Len(s) :
              s[j] = Amount(k)!Only(S, s)[i]
<1>. DEFINE P(o, r) == /\ o \in Seq(Amount(k)!Chars)
                       /\ \A i \in 1..Len(o) : o[i] \in S /\ \E j \in 1..Len(r) : r[j] = o[i]
            T == {r \in Seq(Amount(k)!Chars) : P(Amount(k)!Only(S, r), r)}
<1>1. <<>> \in T
  <2>0. <<>> \in Seq(Amount(k)!Chars) /\ Len(<<>>) = 0
    OBVIOUS
  <2>1. PICK e \in Seq(Amount(k)!Chars) : e = <<>> /\ Len(e) = 0
    BY <2>0
  <2>2. P(e, e)
    BY <2>1
  <2>3. Amount(k)!Only(S, e) = e
    BY <2>1, AmountOnlyOfNone, Zenon
  <2>4. e \in T
    BY <2>2, <2>3
  <2>. QED
    BY <2>1, <2>4
<1>2. ASSUME NEW r \in T, NEW c \in Amount(k)!Chars
      PROVE  Append(r, c) \in T
  <2>1. PICK a, o, p : a = Append(r, c) /\ o = Amount(k)!Only(S, r) /\ p = Amount(k)!Only(S, a)
    OBVIOUS
  <2>2. r \in Seq(Amount(k)!Chars) /\ P(o, r)
    BY <2>1
  <2>3. /\ a \in Seq(Amount(k)!Chars) /\ Len(a) = Len(r) + 1 /\ a[Len(r) + 1] = c /\ Len(r) \in Nat
        /\ \A j \in 1..Len(r) : j \in 1..Len(a) /\ a[j] = r[j]
    BY <2>1, <2>2, AmountOneMore
  <2>4. p = IF c \in S THEN Append(o, c) ELSE o
    BY <2>1, <2>2, AmountOnlyOfMore
  <2>5. ASSUME NEW i \in 1..Len(o)
        PROVE  o[i] \in S /\ \E j \in 1..Len(a) : a[j] = o[i]
    BY <2>2, <2>3
  <2>6. CASE c \in S
    <3>1. /\ p \in Seq(Amount(k)!Chars) /\ Len(p) = Len(o) + 1 /\ p[Len(o) + 1] = c /\ Len(o) \in Nat
          /\ \A i \in 1..Len(o) : p[i] = o[i]
      BY <2>2, <2>4, <2>6, AmountOneMore
    <3>2. Len(r) + 1 \in 1..Len(a)
      BY <2>3
    <3>3. ASSUME NEW i \in 1..Len(p)
          PROVE  p[i] \in S /\ \E j \in 1..Len(a) : a[j] = p[i]
      <4>1. CASE i = Len(o) + 1
        BY <2>3, <2>6, <3>1, <3>2, <4>1
      <4>2. CASE i \in 1..Len(o)
        BY <2>5, <3>1, <4>2
      <4>. QED
        BY <3>1, <4>1, <4>2
    <3>4. P(p, a)
      BY <3>1, <3>3
    <3>. QED
      BY <2>1, <2>3, <3>4
  <2>7. CASE c \notin S
    <3>1. P(o, a) /\ p = o
      BY <2>2, <2>4, <2>5, <2>7
    <3>2. P(p, a)
      BY <3>1
    <3>. QED
      BY <2>1, <2>3, <3>2
  <2>. QED
    BY <2>6, <2>7
<1>3. s \in T
  <2>1. T \in SUBSET Seq(Amount(k)!Chars)
    OBVIOUS
  <2>. HIDE DEF T
  <2>. QED
    BY <1>1, <1>2, <2>1, AmountTextInduction
<1>. QED
  BY <1>3

LEMMA AmountOnlyAll ==
  ASSUME NEW k \in DOMAIN AmountFields, NEW S, NEW s \in Seq(Amount(k)!Chars), \A i \in 1..Len(s) : s[i] \in S
  PROVE  Amount(k)!Only(S, s) = s
<1>. DEFINE P(r) == (\A i \in 1..Len(r) : r[i] \in S) => Amount(k)!Only(S, r) = r
            T == {r \in Seq(Amount(k)!Chars) : P(r)}
<1>1. <<>> \in T
  <2>1. <<>> \in Seq(Amount(k)!Chars)
    OBVIOUS
  <2>. QED
    BY <2>1, AmountOnlyOfNone, Zenon
<1>2. ASSUME NEW r \in T, NEW c \in Amount(k)!Chars
      PROVE  Append(r, c) \in T
  <2>1. PICK a : a = Append(r, c)
    OBVIOUS
  <2>2. r \in Seq(Amount(k)!Chars) /\ P(r)
    OBVIOUS
  <2>3. /\ a \in Seq(Amount(k)!Chars) /\ Len(a) = Len(r) + 1 /\ a[Len(r) + 1] = c /\ Len(r) \in Nat
        /\ \A j \in 1..Len(r) : j \in 1..Len(a) /\ a[j] = r[j]
    BY <2>1, <2>2, AmountOneMore
  <2>4. ASSUME \A i \in 1..Len(a) : a[i] \in S
        PROVE  Amount(k)!Only(S, a) = a
    <3>1. c \in S /\ \A i \in 1..Len(r) : r[i] \in S
      BY <2>3, <2>4
    <3>2. Amount(k)!Only(S, r) = r
      BY <2>2, <3>1
    <3>3. Amount(k)!Only(S, Append(r, c)) = Append(r, c)
      BY <2>2, <3>1, <3>2, AmountOnlyOfMore
    <3>. QED
      BY <2>1, <3>3
  <2>5. a \in T
    BY <2>3, <2>4
  <2>. QED
    BY <2>1, <2>5
<1>3. s \in T
  <2>1. T \in SUBSET Seq(Amount(k)!Chars)
    OBVIOUS
  <2>. HIDE DEF T
  <2>. QED
    BY <1>1, <1>2, <2>1, AmountTextInduction
<1>. QED
  BY <1>3

LEMMA AmountOnlyNone ==
  ASSUME NEW k \in DOMAIN AmountFields, NEW S, NEW s \in Seq(Amount(k)!Chars),
         \A i \in 1..Len(s) : s[i] \notin S
  PROVE  Amount(k)!Only(S, s) = <<>>
<1>1. PICK o : o = Amount(k)!Only(S, s)
  OBVIOUS
<1>2. o \in Seq(Amount(k)!Chars) /\ Len(o) \in Nat /\ \A i \in 1..Len(o) : o[i] \in S /\ \E j \in 1..Len(s) :
        s[j] = o[i]
  BY <1>1, AmountOnlyInside
<1>3. \A i \in 1..Len(o) : FALSE
  BY <1>2
<1>4. Len(o) = 0
  BY <1>2, <1>3
<1>5. o = <<>>
  BY <1>2, <1>4
<1>. QED
  BY <1>1, <1>5

LEMMA AmountJoinedIs ==
  ASSUME NEW k \in DOMAIN AmountFields, NEW a \in Seq(Amount(k)!Chars), NEW b \in Seq(Amount(k)!Chars), NEW c,
         c = a \o b
  PROVE  Amount(k)!Joined(c, a, b)
<1>1. /\ c \in Seq(Amount(k)!Chars) /\ Len(c) = Len(a) + Len(b) /\ Len(a) \in Nat /\ Len(b) \in Nat
      /\ \A i \in 1..Len(c) : c[i] = IF i <= Len(a) THEN a[i] ELSE b[i - Len(a)]
  BY SMTT(30)
<1>2. \A i \in 1..Len(a) : c[i] = a[i]
  BY <1>1
<1>3. ASSUME NEW i \in 1..Len(b)
      PROVE  c[Len(a) + i] = b[i]
  <2>1. PICK j : j = Len(a) + i
    OBVIOUS
  <2>2. j \in 1..Len(c) /\ ~(j <= Len(a)) /\ j - Len(a) = i
    BY <1>1, <2>1
  <2>3. c[j] = b[i]
    BY <1>1, <2>2
  <2>. QED
    BY <2>1, <2>3
<1>. QED
  BY <1>1, <1>2, <1>3 DEF Amount!Joined

LEMMA AmountJoinedMore ==
  ASSUME NEW k \in DOMAIN AmountFields, NEW a \in Seq(Amount(k)!Chars), NEW b \in Seq(Amount(k)!Chars),
         NEW c \in Amount(k)!Chars
  PROVE  a \o b \in Seq(Amount(k)!Chars) /\ a \o Append(b, c) = Append(a \o b, c)
<1>1. PICK d, e, g, h : d = a \o b /\ e = Append(b, c) /\ g = a \o e /\ h = Append(d, c)
  OBVIOUS
<1>2. Amount(k)!Joined(d, a, b)
  BY <1>1, AmountJoinedIs, Zenon
<1>3. /\ e \in Seq(Amount(k)!Chars) /\ Len(e) = Len(b) + 1 /\ e[Len(b) + 1] = c /\ \A i \in 1..Len(b) :
           e[i] = b[i]
  BY <1>1, AmountOneMore
<1>4. Amount(k)!Joined(g, a, e)
  BY <1>1, <1>3, AmountJoinedIs, Zenon
<1>5. /\ d \in Seq(Amount(k)!Chars) /\ Len(d) = Len(a) + Len(b) /\ Len(a) \in Nat /\ Len(b) \in Nat
      /\ \A i \in 1..Len(a) : d[i] = a[i]
      /\ \A i \in 1..Len(b) : d[Len(a) + i] = b[i]
  BY <1>2 DEF Amount!Joined
<1>6. /\ g \in Seq(Amount(k)!Chars) /\ Len(g) = Len(a) + (Len(b) + 1)
      /\ \A i \in 1..Len(a) : g[i] = a[i]
      /\ \A i \in 1..Len(b) + 1 : g[Len(a) + i] = e[i]
  BY <1>3, <1>4 DEF Amount!Joined
<1>7. /\ h \in Seq(Amount(k)!Chars) /\ Len(h) = Len(d) + 1 /\ h[Len(d) + 1] = c /\ \A i \in 1..Len(d) :
           h[i] = d[i]
  BY <1>1, <1>5, AmountOneMore
<1>8. ASSUME NEW i \in 1..Len(g)
      PROVE  g[i] = h[i]
  <2>1. CASE i \in 1..Len(a)
    <3>1. i \in 1..Len(d)
      BY <1>5, <2>1
    <3>. QED
      BY <1>5, <1>6, <1>7, <2>1, <3>1
  <2>2. CASE i > Len(a)
    <3>1. PICK j \in 1..Len(b) + 1 : i = Len(a) + j
      <4>1. i - Len(a) \in 1..Len(b) + 1 /\ i = Len(a) + (i - Len(a))
        BY <1>5, <1>6, <2>2
      <4>. QED
        BY <4>1
    <3>2. CASE j = Len(b) + 1
      <4>1. i = Len(d) + 1
        BY <1>5, <3>1, <3>2
      <4>. QED
        BY <1>3, <1>6, <1>7, <3>1, <3>2, <4>1
    <3>3. CASE j \in 1..Len(b)
      <4>1. i \in 1..Len(d)
        BY <1>5, <3>1, <3>3
      <4>. QED
        BY <1>3, <1>5, <1>6, <1>7, <3>1, <3>3, <4>1
    <3>. QED
      BY <1>5, <3>2, <3>3
  <2>. QED
    BY <1>5, <2>1, <2>2
<1>9. g = h
  <2>1. Len(g) = Len(h)
    BY <1>5, <1>6, <1>7
  <2>. QED
    BY <1>6, <1>7, <1>8, <2>1, AmountSameText
<1>. QED
  BY <1>1, <1>5, <1>9

LEMMA AmountOnlyOfJoined ==
  ASSUME NEW k \in DOMAIN AmountFields, NEW S, NEW a \in Seq(Amount(k)!Chars), NEW b \in Seq(Amount(k)!Chars)
  PROVE  Amount(k)!Only(S, a \o b) = Amount(k)!Only(S, a) \o Amount(k)!Only(S, b)
<1>. DEFINE P(r) == Amount(k)!Only(S, a \o r) = Amount(k)!Only(S, a) \o Amount(k)!Only(S, r)
            T == {r \in Seq(Amount(k)!Chars) : P(r)}
<1>0. Amount(k)!Only(S, a) \in Seq(Amount(k)!Chars)
  BY AmountOnlyInside
<1>1. <<>> \in T
  <2>1. a \o <<>> = a /\ Amount(k)!Only(S, a) \o <<>> = Amount(k)!Only(S, a)
    BY <1>0
  <2>2. <<>> \in Seq(Amount(k)!Chars)
    OBVIOUS
  <2>. QED
    BY <2>1, <2>2, AmountOnlyOfNone, Zenon
<1>2. ASSUME NEW r \in T, NEW c \in Amount(k)!Chars
      PROVE  Append(r, c) \in T
  <2>1. r \in Seq(Amount(k)!Chars) /\ P(r) /\ Append(r, c) \in Seq(Amount(k)!Chars)
    OBVIOUS
  <2>2. a \o r \in Seq(Amount(k)!Chars) /\ a \o Append(r, c) = Append(a \o r, c)
    BY <2>1, AmountJoinedMore
  <2>3. Amount(k)!Only(S, a \o Append(r, c)) = IF c \in S THEN Append(Amount(k)!Only(S, a \o r), c)
          ELSE Amount(k)!Only(S, a \o r)
    <3>1. PICK d \in Seq(Amount(k)!Chars) : d = a \o r
      BY <2>2
    <3>2. Amount(k)!Only(S, Append(d, c)) = IF c \in S THEN Append(Amount(k)!Only(S, d), c)
            ELSE Amount(k)!Only(S, d)
      BY AmountOnlyOfMore
    <3>. QED
      BY <2>2, <3>1, <3>2, Zenon
  <2>4. Amount(k)!Only(S, Append(r, c)) = IF c \in S THEN Append(Amount(k)!Only(S, r), c)
          ELSE Amount(k)!Only(S, r)
    BY <2>1, AmountOnlyOfMore
  <2>5. Amount(k)!Only(S, r) \in Seq(Amount(k)!Chars)
    BY <2>1, AmountOnlyInside
  <2>6. Amount(k)!Only(S, a) \o Append(Amount(k)!Only(S, r), c)
          = Append(Amount(k)!Only(S, a) \o Amount(k)!Only(S, r), c)
    BY <1>0, <2>5, AmountJoinedMore
  <2>7. P(Append(r, c))
    BY <2>1, <2>3, <2>4, <2>6
  <2>. QED
    BY <2>1, <2>7
<1>3. b \in T
  <2>1. T \in SUBSET Seq(Amount(k)!Chars)
    OBVIOUS
  <2>. HIDE DEF T
  <2>. QED
    BY <1>1, <1>2, <2>1, AmountTextInduction
<1>. QED
  BY <1>3

-----------------------------------------------------------------------------
LEMMA AmountNumberIs ==
  ASSUME NEW k \in DOMAIN AmountFields, NEW d \in Seq(Amount(k)!Chars)
  PROVE  \E f : /\ f[0] = 0 /\ f \in [0..Len(d) -> Nat]
                /\ \A i \in 1..Len(d) : f[i] = 10 * f[i - 1] + Amount(k)!DigitValue(d[i])
                /\ Amount(k)!NumberOf(d) = f[Len(d)]
<1>. DEFINE F(f) == [i \in 0..Len(d) |-> IF i = 0 THEN 0 ELSE 10 * f[i - 1] + Amount(k)!DigitValue(d[i])]
            h == [p \in (1..Len(d)) \X Nat |-> 10 * p[2] + Amount(k)!DigitValue(d[p[1]])]
            c == CHOOSE f : f = F(f)
<1>0. Len(d) \in Nat /\ \A i \in 1..Len(d) : Amount(k)!DigitValue(d[i]) \in Nat
  BY DEF Amount!DigitValue
<1>1. h \in [(1..Len(d)) \X Nat -> Nat]
  BY <1>0
<1>2. \A i \in 1..Len(d), v \in Nat : h[<<i, v>>] = 10 * v + Amount(k)!DigitValue(d[i])
  OBVIOUS
<1>. HIDE DEF h
<1>3. PICK f : Amount(k)!Grown(f, Nat, 0, Len(d), h)
  <2>1. PICK n \in Nat, a \in Nat : n = Len(d) /\ a = 0
    BY <1>0
  <2>2. h \in [(1..n) \X Nat -> Nat]
    BY <1>1, <2>1
  <2>3. \E f : Amount(k)!Grown(f, Nat, a, n, h)
    BY <2>2, AmountRecursion, Zenon
  <2>. QED
    BY <2>1, <2>3
<1>4. f = F(f)
  <2>0. f \in [0..Len(d) -> Nat]
    BY <1>3 DEF Amount!Grown
  <2>1. \A i \in 1..Len(d) : f[i - 1] \in Nat
    BY <1>0, <2>0, SMTT(30)
  <2>2. \A i \in 1..Len(d) : f[i] = 10 * f[i - 1] + Amount(k)!DigitValue(d[i])
    BY <1>2, <1>3, <2>1 DEF Amount!Grown
  <2>3. \A i \in 0..Len(d) : i = 0 \/ i \in 1..Len(d)
    OBVIOUS
  <2>. QED
    BY <1>3, <2>2, <2>3 DEF Amount!Grown
<1>5. c = F(c)
  <2>. HIDE DEF F
  <2>. QED
    BY <1>4
<1>6. Amount(k)!NumberOf(d) = c[Len(d)]
  BY DEF Amount!NumberOf
<1>. HIDE DEF c
<1>7. c[0] = 0 /\ \A i \in 1..Len(d) : c[i] = 10 * c[i - 1] + Amount(k)!DigitValue(d[i])
  <2>1. PICK n \in Nat : n = Len(d)
    BY <1>0
  <2>2. c = [i \in 0..n |-> IF i = 0 THEN 0 ELSE 10 * c[i - 1] + Amount(k)!DigitValue(d[i])]
    BY <1>5, <2>1
  <2>3. 0 \in 0..n /\ \A i \in 1..n : i \in 0..n /\ i # 0
    BY <2>1
  <2>4. c[0] = 0 /\ \A i \in 1..n : c[i] = 10 * c[i - 1] + Amount(k)!DigitValue(d[i])
    BY <2>2, <2>3, Zenon
  <2>. QED
    BY <2>1, <2>4, Zenon
<1>8. c \in [0..Len(d) -> Nat]
  <2>. DEFINE T == {m \in Nat : m <= Len(d) => c[m] \in Nat}
  <2>1. 0 \in T
    BY <1>7
  <2>2. ASSUME NEW m \in T
        PROVE  m + 1 \in T
    <3>. SUFFICES ASSUME m + 1 <= Len(d)
                  PROVE  c[m + 1] \in Nat
      OBVIOUS
    <3>1. m + 1 \in 1..Len(d) /\ (m + 1) - 1 = m /\ c[m] \in Nat
      BY <1>0
    <3>2. c[m + 1] = 10 * c[m] + Amount(k)!DigitValue(d[m + 1]) /\ Amount(k)!DigitValue(d[m + 1]) \in Nat
      BY <1>0, <1>7, <3>1
    <3>. QED
      BY <3>1, <3>2
  <2>3. T = Nat
    <3>1. T \in SUBSET Nat
      OBVIOUS
    <3>. HIDE DEF T
    <3>. QED
      BY <2>1, <2>2, <3>1, SetInduction
  <2>4. ASSUME NEW m \in 0..Len(d)
        PROVE  c[m] \in Nat
    <3>1. m \in T
      <4>. HIDE DEF T
      <4>. QED
        BY <1>0, <2>3
    <3>. QED
      BY <3>1
  <2>. QED
    BY <1>5, <2>4
<1>. QED
  BY <1>6, <1>7, <1>8

LEMMA AmountNumberIsNat ==
  ASSUME NEW k \in DOMAIN AmountFields, NEW d \in Seq(Amount(k)!Chars)
  PROVE  Amount(k)!NumberOf(d) \in Nat
<1>1. PICK f : /\ f[0] = 0 /\ f \in [0..Len(d) -> Nat]
               /\ \A i \in 1..Len(d) : f[i] = 10 * f[i - 1] + Amount(k)!DigitValue(d[i])
               /\ Amount(k)!NumberOf(d) = f[Len(d)]
  BY AmountNumberIs
<1>. QED
  BY <1>1

(* Zeros in front do not count. *)
LEMMA AmountLeadingZeros ==
  ASSUME NEW k \in DOMAIN AmountFields, NEW d \in Seq(Amount(k)!Chars), NEW z \in 0..Len(d),
         \A i \in 1..z : d[i] = "0"
  PROVE  Amount(k)!NumberOf(SubSeq(d, z + 1, Len(d))) = Amount(k)!NumberOf(d)
<1>1. PICK e : e = SubSeq(d, z + 1, Len(d))
  OBVIOUS
<1>2. e \in Seq(Amount(k)!Chars) /\ Len(e) = Len(d) - z /\ Len(d) \in Nat /\ Len(e) \in Nat /\ z \in Nat
        /\ \A i \in 1..Len(e) : e[i] = d[z + i]
  BY <1>1
<1>3. PICK f : /\ f[0] = 0 /\ f \in [0..Len(d) -> Nat]
               /\ \A i \in 1..Len(d) : f[i] = 10 * f[i - 1] + Amount(k)!DigitValue(d[i])
               /\ Amount(k)!NumberOf(d) = f[Len(d)]
  BY AmountNumberIs
<1>4. PICK g : /\ g[0] = 0 /\ g \in [0..Len(e) -> Nat]
               /\ \A i \in 1..Len(e) : g[i] = 10 * g[i - 1] + Amount(k)!DigitValue(e[i])
               /\ Amount(k)!NumberOf(e) = g[Len(e)]
  BY <1>2, AmountNumberIs
<1>5. f[z] = 0
  <2>. DEFINE T == {m \in Nat : m <= z => f[m] = 0}
  <2>1. 0 \in T
    BY <1>3
  <2>2. ASSUME NEW m \in T
        PROVE  m + 1 \in T
    <3>. SUFFICES ASSUME m + 1 <= z
                  PROVE  f[m + 1] = 0
      OBVIOUS
    <3>1. m + 1 \in 1..Len(d) /\ m + 1 \in 1..z /\ (m + 1) - 1 = m /\ f[m] = 0
      BY <1>2
    <3>2. Amount(k)!DigitValue(d[m + 1]) = 0
      BY <3>1 DEF Amount!DigitValue
    <3>3. f[m + 1] = 10 * f[m] + Amount(k)!DigitValue(d[m + 1])
      BY <1>3, <3>1
    <3>. QED
      BY <3>1, <3>2, <3>3
  <2>3. T \in SUBSET Nat
    OBVIOUS
  <2>4. z \in T
    <3>. HIDE DEF T
    <3>. QED
      BY <1>2, <2>1, <2>2, <2>3, SetInduction
  <2>. QED
    BY <2>4
<1>6. f[z + Len(e)] = g[Len(e)]
  <2>. DEFINE T == {m \in Nat : m <= Len(e) => f[z + m] = g[m]}
  <2>1. 0 \in T
    BY <1>4, <1>5
  <2>2. ASSUME NEW m \in T
        PROVE  m + 1 \in T
    <3>. SUFFICES ASSUME m + 1 <= Len(e)
                  PROVE  f[z + (m + 1)] = g[m + 1]
      OBVIOUS
    <3>1. m \in Nat /\ m <= Len(e) /\ f[z + m] = g[m] /\ m + 1 \in 1..Len(e) /\ (m + 1) - 1 = m
      BY <1>2
    <3>2. PICK p : p = z + (m + 1)
      OBVIOUS
    <3>3. p \in 1..Len(d) /\ p - 1 = z + m
      BY <1>2, <3>1, <3>2
    <3>4. f[p] = 10 * f[z + m] + Amount(k)!DigitValue(d[p])
      BY <1>3, <3>3
    <3>5. g[m + 1] = 10 * g[m] + Amount(k)!DigitValue(e[m + 1])
      BY <1>4, <3>1
    <3>6. e[m + 1] = d[p]
      BY <1>2, <3>1, <3>2
    <3>. QED
      BY <3>1, <3>2, <3>4, <3>5, <3>6, Zenon
  <2>3. T \in SUBSET Nat
    OBVIOUS
  <2>4. Len(e) \in T
    <3>. HIDE DEF T
    <3>. QED
      BY <1>2, <2>1, <2>2, <2>3, SetInduction
  <2>. QED
    BY <1>2, <2>4
<1>7. z + Len(e) = Len(d)
  BY <1>2
<1>8. Amount(k)!NumberOf(e) = Amount(k)!NumberOf(d)
  BY <1>3, <1>4, <1>6, <1>7
<1>. QED
  BY <1>1, <1>8

LEMMA AmountNoNumberIsZero ==
  ASSUME NEW k \in DOMAIN AmountFields, NEW d \in Seq(Amount(k)!Chars), \A i \in 1..Len(d) : d[i] = "0"
  PROVE  Amount(k)!NumberOf(d) = 0
<1>1. PICK z, e : z = Len(d) /\ e = SubSeq(d, z + 1, Len(d))
  OBVIOUS
<1>2. z \in 0..Len(d) /\ e \in Seq(Amount(k)!Chars) /\ Len(e) = 0
  BY <1>1
<1>3. Amount(k)!NumberOf(e) = Amount(k)!NumberOf(d)
  BY <1>1, <1>2, AmountLeadingZeros
<1>4. PICK f : f[0] = 0 /\ Amount(k)!NumberOf(e) = f[Len(e)]
  <2>1. PICK f : /\ f[0] = 0 /\ f \in [0..Len(e) -> Nat]
                 /\ \A i \in 1..Len(e) : f[i] = 10 * f[i - 1] + Amount(k)!DigitValue(e[i])
                 /\ Amount(k)!NumberOf(e) = f[Len(e)]
    BY <1>2, AmountNumberIs
  <2>. QED
    BY <2>1, Zenon
<1>. QED
  BY <1>2, <1>3, <1>4

-----------------------------------------------------------------------------
LEMMA AmountCommaIsNoDigit ==
  ASSUME NEW k \in DOMAIN AmountFields
  PROVE  Amount(k)!Comma \notin Amount(k)!Digit /\ Amount(k)!Comma # "." /\ Amount(k)!Comma # "-"
BY Zenon DEF Amount!Comma, Amount!Digit

LEMMA AmountFirstDotIs ==
  ASSUME NEW k \in DOMAIN AmountFields, NEW s \in Seq(Amount(k)!Chars)
  PROVE  /\ Amount(k)!FirstDot(s) \in 1..Len(s) + 1
              /\ (Amount(k)!FirstDot(s) <= Len(s) => s[Amount(k)!FirstDot(s)] = ".")
         /\ \A j \in 1..Amount(k)!FirstDot(s) - 1 : s[j] # "."
<1>. DEFINE S == {i \in 1..Len(s) + 1 : i <= Len(s) => s[i] = "."}
<1>1. Len(s) \in Nat /\ Len(s) + 1 \in S /\ S \in SUBSET Nat
  OBVIOUS
<1>2. PICK i \in S : \A j \in S : i <= j
  BY <1>1, AmountLeastExists
<1>3. \A j \in 1..i - 1 : s[j] # "."
  BY <1>1, <1>2
<1>. QED
  BY <1>2, <1>3 DEF Amount!FirstDot

LEMMA AmountFirstDotAt ==
  ASSUME NEW k \in DOMAIN AmountFields, NEW s \in Seq(Amount(k)!Chars), NEW p \in 1..Len(s) + 1,
         p <= Len(s) => s[p] = ".", \A j \in 1..p - 1 : s[j] # "."
  PROVE  Amount(k)!FirstDot(s) = p
<1>1. PICK q : q = Amount(k)!FirstDot(s)
  OBVIOUS
<1>2. q \in 1..Len(s) + 1 /\ (q <= Len(s) => s[q] = ".") /\ \A j \in 1..q - 1 : s[j] # "."
  BY <1>1, AmountFirstDotIs
<1>3. Len(s) \in Nat
  OBVIOUS
<1>4. ~(q < p)
  BY <1>2, <1>3
<1>5. ~(p < q)
  BY <1>2, <1>3
<1>. QED
  BY <1>1, <1>2, <1>3, <1>4, <1>5

LEMMA AmountStripFrontIs ==
  ASSUME NEW k \in DOMAIN AmountFields, NEW d \in Seq(Amount(k)!Chars)
  PROVE  \E z \in 0..Len(d) : Amount(k)!StripFront(d) = SubSeq(d, z + 1, Len(d)) /\ \A i \in 1..z : d[i] = "0"
<1>. DEFINE S == {i \in 1..Len(d) + 1 : i <= Len(d) => d[i] # "0"}
            A == {i \in 1..Len(d) : \A j \in 1..i : d[j] = "0"}
<1>1. Len(d) \in Nat /\ Len(d) + 1 \in S /\ S \in SUBSET Nat
  OBVIOUS
<1>2. PICK p \in S : \A j \in S : p <= j
  BY <1>1, AmountLeastExists
<1>3. \A j \in 1..p - 1 : d[j] = "0"
  BY <1>1, <1>2
<1>4. PICK z \in 0..Len(d) : z = p - 1
  BY <1>1
<1>5. A = 1..z
  <2>1. \A i \in 1..z : i \in A
    BY <1>1, <1>3, <1>4
  <2>2. ASSUME NEW i \in A
        PROVE  i \in 1..z
    <3>1. i \in 1..Len(d) /\ \A j \in 1..i : d[j] = "0"
      OBVIOUS
    <3>2. ~(p <= i)
      <4>. SUFFICES ASSUME p <= i
                    PROVE  FALSE
        OBVIOUS
      <4>1. p \in 1..i /\ p <= Len(d)
        BY <1>1, <3>1
      <4>2. d[p] # "0"
        BY <4>1
      <4>. QED
        BY <3>1, <4>1, <4>2
    <3>. QED
      BY <1>1, <1>4, <3>1, <3>2
  <2>. QED
    BY <2>1, <2>2
<1>6. Amount(k)!Cardinality(A) = z
  <2>1. Amount(k)!Cardinality(1..z) = z
    <3>1. PICK a \in Int, b \in Int : a = 1 /\ b = z
      BY <1>1
    <3>2. Cardinality(a..b) = IF a > b THEN 0 ELSE b - a + 1
      BY FS_Interval
    <3>3. Amount(k)!Cardinality(a..b) = Cardinality(a..b)
      BY DEF Amount!Cardinality, Cardinality
    <3>. QED
      BY <3>1, <3>2, <3>3
  <2>. QED
    BY <1>5, <2>1
<1>. HIDE DEF A
<1>7. Amount(k)!StripFront(d) = SubSeq(d, z + 1, Len(d))
  BY <1>6 DEF Amount!StripFront, A
<1>. QED
  BY <1>3, <1>4, <1>7

LEMMA AmountStripEndIs ==
  ASSUME NEW k \in DOMAIN AmountFields, NEW d \in Seq(Amount(k)!Chars)
  PROVE  \E z \in 0..Len(d) :
           Amount(k)!StripEnd(d) = SubSeq(d, 1, Len(d) - z) /\ \A i \in (Len(d) - z + 1)..Len(d) : d[i] = "0"
<1>. DEFINE S == {i \in 0..Len(d) : i < Len(d) => d[Len(d) - i] # "0"}
            A == {i \in 1..Len(d) : \A j \in i..Len(d) : d[j] = "0"}
<1>1. Len(d) \in Nat /\ Len(d) \in S /\ S \in SUBSET Nat
  OBVIOUS
<1>2. PICK z \in S : \A j \in S : z <= j
  BY <1>1, AmountLeastExists
<1>3. \A i \in (Len(d) - z + 1)..Len(d) : d[i] = "0"
  <2>. SUFFICES ASSUME NEW i \in (Len(d) - z + 1)..Len(d), d[i] # "0"
                PROVE  FALSE
    OBVIOUS
  <2>1. PICK key : key = Len(d) - i
    OBVIOUS
  <2>2. key \in 0..Len(d) /\ Len(d) - key = i /\ key < z
    BY <1>1, <1>2, <2>1
  <2>3. key \in S
    BY <2>2
  <2>. QED
    BY <1>1, <1>2, <2>2, <2>3
<1>4. A = (Len(d) - z + 1)..Len(d)
  <2>1. \A i \in (Len(d) - z + 1)..Len(d) : i \in A
    BY <1>1, <1>2, <1>3
  <2>2. ASSUME NEW i \in A
        PROVE  i \in (Len(d) - z + 1)..Len(d)
    <3>1. i \in 1..Len(d) /\ \A j \in i..Len(d) : d[j] = "0"
      OBVIOUS
    <3>2. ~(i <= Len(d) - z)
      <4>. SUFFICES ASSUME i <= Len(d) - z
                    PROVE  FALSE
        OBVIOUS
      <4>1. z < Len(d) /\ Len(d) - z \in i..Len(d)
        BY <1>1, <3>1
      <4>2. d[Len(d) - z] # "0"
        BY <1>2, <4>1
      <4>. QED
        BY <3>1, <4>1, <4>2
    <3>. QED
      BY <1>1, <3>1, <3>2
  <2>. QED
    BY <2>1, <2>2
<1>5. Amount(k)!Cardinality(A) = z
  <2>0. Len(d) - z + 1 \in Int /\ Len(d) \in Int
    BY <1>1, <1>2
  <2>1. PICK a \in Int, b \in Int : a = Len(d) - z + 1 /\ b = Len(d)
    BY <2>0, Zenon
  <2>2. Cardinality(a..b) = IF a > b THEN 0 ELSE b - a + 1
    BY FS_Interval
  <2>3. Amount(k)!Cardinality(a..b) = Cardinality(a..b)
    BY DEF Amount!Cardinality, Cardinality
  <2>. HIDE DEF A
  <2>4. Amount(k)!Cardinality(A) = IF a > b THEN 0 ELSE b - a + 1
    BY <1>4, <2>1, <2>2, <2>3
  <2>. QED
    BY <1>1, <2>1, <2>4
<1>. HIDE DEF A
<1>6. Amount(k)!StripEnd(d) = SubSeq(d, 1, Len(d) - z)
  BY <1>5 DEF Amount!StripEnd, A
<1>7. z \in 0..Len(d)
  BY <1>2
<1>. QED
  BY <1>3, <1>6, <1>7

-----------------------------------------------------------------------------
(* With m digits to come there are m and a comma for each three of them.   *)
LEMMA AmountCharactersToCome ==
  ASSUME NEW k \in DOMAIN AmountFields, NEW m \in Nat, m > 0
  PROVE  /\ m % 3 = 0 => (m + m \div 3) % 4 = 0 /\ (m + m \div 3 - 1) % 4 # 0
                         /\ (m - 1) + (m - 1) \div 3 = m + m \div 3 - 2
         /\ m % 3 # 0 => (m + m \div 3) % 4 # 0 /\ (m - 1) + (m - 1) \div 3 = m + m \div 3 - 1
         /\ (m + (m - 1) \div 3) % 4 # 0 /\ m + (m - 1) \div 3 \in Nat /\ m + (m - 1) \div 3 >= 1
         /\ m + m \div 3 \in Nat
<1>1. PICK q \in Nat, r \in 0..2 : q = m \div 3 /\ r = m % 3 /\ m = 3 * q + r
  OBVIOUS
<1>2. r = 0 => (m - 1) \div 3 = q - 1
  BY <1>1
<1>3. r # 0 => (m - 1) \div 3 = q
  BY <1>1
<1>4. CASE r = 0
  <2>1. m + q = 4 * q /\ (4 * q) % 4 = 0 /\ (4 * q - 1) % 4 # 0 /\ (4 * q - 1) \in Nat
    BY <1>1, <1>4
  <2>. QED
    BY <1>1, <1>2, <1>4, <2>1
<1>5. CASE r = 1
  <2>1. m + q = 4 * q + 1 /\ (4 * q + 1) % 4 # 0
    BY <1>1, <1>5
  <2>. QED
    BY <1>1, <1>3, <1>5, <2>1
<1>6. CASE r = 2
  <2>1. m + q = 4 * q + 2 /\ (4 * q + 2) % 4 # 0
    BY <1>1, <1>6
  <2>. QED
    BY <1>1, <1>3, <1>6, <2>1
<1>. QED
  BY <1>1, <1>4, <1>5, <1>6

LEMMA AmountDigitAdded ==
  ASSUME NEW k \in DOMAIN AmountFields, NEW o \in Seq(Amount(k)!Chars), NEW l \in Int,
         Amount(k)!WellSpaced(o, l), NEW c \in Amount(k)!Digit, (l - Len(o)) % 4 # 0
  PROVE  LET a == Append(o, c)
         IN  a \in Seq(Amount(k)!Chars) /\ Len(a) = Len(o) + 1 /\ Amount(k)!WellSpaced(a, l)
           /\ Amount(k)!Only(Amount(k)!Digit, a) = Append(Amount(k)!Only(Amount(k)!Digit, o), c)
<1>1. PICK a : a = Append(o, c)
  OBVIOUS
<1>2. c \in Amount(k)!Chars /\ c # Amount(k)!Comma /\ Len(o) \in Nat
  BY AmountCommaIsNoDigit DEF Amount!Chars
<1>3. /\ a \in Seq(Amount(k)!Chars) /\ Len(a) = Len(o) + 1 /\ a[Len(o) + 1] = c
      /\ \A i \in 1..Len(o) : a[i] = o[i]
  BY <1>1, <1>2, AmountOneMore
<1>4. ASSUME NEW j \in 1..Len(a)
      PROVE  a[j] \in Amount(k)!Digit \cup {Amount(k)!Comma}
               /\ (a[j] = Amount(k)!Comma <=> (l + 1 - j) % 4 = 0)
  <2>1. CASE j = Len(o) + 1
    <3>1. l + 1 - j = l - Len(o)
      BY <1>2, <2>1
    <3>. QED
      BY <1>2, <1>3, <2>1, <3>1
  <2>2. CASE j \in 1..Len(o)
    BY <1>3, <2>2 DEF Amount!WellSpaced
  <2>. QED
    BY <1>2, <1>3, <2>1, <2>2
<1>5. Amount(k)!Only(Amount(k)!Digit, a) = Append(Amount(k)!Only(Amount(k)!Digit, o), c)
  BY <1>1, <1>2, AmountOnlyOfMore
<1>. QED
  BY <1>1, <1>3, <1>4, <1>5 DEF Amount!WellSpaced

LEMMA AmountCommaAdded ==
  ASSUME NEW k \in DOMAIN AmountFields, NEW o \in Seq(Amount(k)!Chars), NEW l \in Int,
         Amount(k)!WellSpaced(o, l), (l - Len(o)) % 4 = 0
  PROVE  LET a == Append(o, Amount(k)!Comma)
         IN  a \in Seq(Amount(k)!Chars) /\ Len(a) = Len(o) + 1 /\ Amount(k)!WellSpaced(a, l)
           /\ Amount(k)!Only(Amount(k)!Digit, a) = Amount(k)!Only(Amount(k)!Digit, o)
<1>0. PICK c : c = Amount(k)!Comma
  OBVIOUS
<1>1. PICK a : a = Append(o, c)
  OBVIOUS
<1>2. c \in Amount(k)!Chars /\ c \notin Amount(k)!Digit /\ Len(o) \in Nat
  BY <1>0, AmountCommaIsNoDigit DEF Amount!Chars
<1>3. /\ a \in Seq(Amount(k)!Chars) /\ Len(a) = Len(o) + 1 /\ a[Len(o) + 1] = c
      /\ \A i \in 1..Len(o) : a[i] = o[i]
  BY <1>1, <1>2, AmountOneMore
<1>4. ASSUME NEW j \in 1..Len(a)
      PROVE  a[j] \in Amount(k)!Digit \cup {Amount(k)!Comma}
               /\ (a[j] = Amount(k)!Comma <=> (l + 1 - j) % 4 = 0)
  <2>1. CASE j = Len(o) + 1
    <3>1. l + 1 - j = l - Len(o)
      BY <1>2, <2>1
    <3>. QED
      BY <1>0, <1>2, <1>3, <2>1, <3>1
  <2>2. CASE j \in 1..Len(o)
    BY <1>3, <2>2 DEF Amount!WellSpaced
  <2>. QED
    BY <1>2, <1>3, <2>1, <2>2
<1>5. Amount(k)!Only(Amount(k)!Digit, a) = Amount(k)!Only(Amount(k)!Digit, o)
  BY <1>1, <1>2, AmountOnlyOfMore
<1>. QED
  BY <1>0, <1>1, <1>3, <1>4, <1>5 DEF Amount!WellSpaced

LEMMA AmountJoinedOne ==
  ASSUME NEW k \in DOMAIN AmountFields, NEW o \in Seq(Amount(k)!Chars), NEW c \in Amount(k)!Chars
  PROVE  o \o <<>> \o <<c>> = Append(o, c)
           /\ o \o <<Amount(k)!Comma>> \o <<c>> = Append(Append(o, Amount(k)!Comma), c)
<1>1. <<>> \in Seq(Amount(k)!Chars) /\ o \o <<>> = o
  OBVIOUS
<1>2. ASSUME NEW r \in Seq(Amount(k)!Chars), NEW x \in Amount(k)!Chars
      PROVE  r \o <<x>> = Append(r, x)
  <2>1. r \o Append(<<>>, x) = Append(r \o <<>>, x)
    BY <1>1, AmountJoinedMore
  <2>2. Append(<<>>, x) = <<x>> /\ r \o <<>> = r
    OBVIOUS
  <2>. QED
    BY <2>1, <2>2
<1>3. o \o <<c>> = Append(o, c)
  BY <1>2
<1>4. PICK x \in Amount(k)!Chars : x = Amount(k)!Comma
  BY DEF Amount!Chars
<1>5. o \o <<x>> = Append(o, x) /\ Append(o, x) \in Seq(Amount(k)!Chars)
  BY <1>2, AmountOneMore
<1>6. Append(o, x) \o <<c>> = Append(Append(o, x), c)
  BY <1>2, <1>5
<1>. QED
  BY <1>1, <1>3, <1>4, <1>5, <1>6

LEMMA AmountGroupedSteps ==
  ASSUME NEW k \in DOMAIN AmountFields, NEW s \in Seq(Amount(k)!Chars)
  PROVE  \E f : /\ f[0] = <<>> /\ Amount(k)!Grouped(s) = f[Len(s)]
                /\ \A i \in 1..Len(s) :
                     f[i] = f[i - 1] \o (IF i > 1 /\ (Len(s) - i + 1) % 3 = 0 THEN <<Amount(k)!Comma>>
                       ELSE <<>>) \o <<s[i]>>
<1>. DEFINE G(v, i) == v \o (IF i > 1 /\ (Len(s) - i + 1) % 3 = 0 THEN <<Amount(k)!Comma>>
              ELSE <<>>) \o <<s[i]>>
            F(f) == [i \in 0..Len(s) |-> IF i = 0 THEN <<>> ELSE G(f[i - 1], i)]
            V == Seq(Amount(k)!Chars)
            h == [p \in (1..Len(s)) \X V |-> G(p[2], p[1])]
            c == CHOOSE f : f = F(f)
<1>0. Len(s) \in Nat /\ \A i \in 1..Len(s) : s[i] \in Amount(k)!Chars
  OBVIOUS
<1>1. ASSUME NEW i \in 1..Len(s), NEW v \in V
      PROVE  G(v, i) \in V
  <2>1. s[i] \in Amount(k)!Chars /\ Amount(k)!Comma \in Amount(k)!Chars
    BY <1>0 DEF Amount!Chars
  <2>2. v \o <<>> \o <<s[i]>> \in V
    BY <2>1, AmountJoinedOne
  <2>3. v \o <<Amount(k)!Comma>> \o <<s[i]>> \in V
    BY <2>1, AmountJoinedOne
  <2>. QED
    BY <2>2, <2>3
<1>2. \A i \in 1..Len(s), v \in V : h[<<i, v>>] = G(v, i)
  OBVIOUS
<1>3. h \in [(1..Len(s)) \X V -> V]
  <2>. HIDE DEF V, G
  <2>. QED
    BY <1>1
<1>3a. <<>> \in V
  OBVIOUS
<1>. HIDE DEF h, V, G
<1>4. PICK f : Amount(k)!Grown(f, V, <<>>, Len(s), h)
  <2>1. PICK n \in Nat, a \in V : n = Len(s) /\ a = <<>>
    BY <1>0, <1>3a
  <2>2. h \in [(1..n) \X V -> V]
    BY <1>3, <2>1
  <2>3. \E f : Amount(k)!Grown(f, V, a, n, h)
    BY <2>2, AmountRecursion, Zenon
  <2>. QED
    BY <2>1, <2>3
<1>5. f = F(f)
  <2>0. f \in [0..Len(s) -> V] /\ f[0] = <<>> /\ \A i \in 1..Len(s) : f[i] = h[<<i, f[i - 1]>>]
    BY <1>4 DEF Amount!Grown
  <2>1. \A i \in 1..Len(s) : f[i - 1] \in V
    BY <1>0, <2>0
  <2>2. \A i \in 1..Len(s) : f[i] = G(f[i - 1], i)
    BY <1>2, <2>0, <2>1
  <2>3. \A i \in 0..Len(s) : i = 0 \/ i \in 1..Len(s)
    OBVIOUS
  <2>. QED
    BY <2>0, <2>2, <2>3
<1>6. c = F(c)
  <2>. HIDE DEF F
  <2>. QED
    BY <1>5
<1>7. Amount(k)!Grouped(s) = c[Len(s)]
  BY DEF Amount!Grouped, G
<1>. HIDE DEF c
<1>8. c[0] = <<>> /\ \A i \in 1..Len(s) : c[i] = G(c[i - 1], i)
  <2>1. PICK n \in Nat : n = Len(s)
    BY <1>0
  <2>2. c = [i \in 0..n |-> IF i = 0 THEN <<>> ELSE G(c[i - 1], i)]
    BY <1>6, <2>1
  <2>3. 0 \in 0..n /\ \A i \in 1..n : i \in 0..n /\ i # 0
    BY <2>1
  <2>4. c[0] = <<>> /\ \A i \in 1..n : c[i] = G(c[i - 1], i)
    BY <2>2, <2>3, Zenon
  <2>. QED
    BY <2>1, <2>4, Zenon
<1>. QED
  BY <1>7, <1>8 DEF G

LEMMA AmountPrefixes ==
  ASSUME NEW k \in DOMAIN AmountFields, NEW s \in Seq(Amount(k)!Chars), NEW i \in 1..Len(s)
  PROVE  SubSeq(s, 1, i) = Append(SubSeq(s, 1, i - 1), s[i])
<1>1. PICK p, q, a : p = SubSeq(s, 1, i - 1) /\ q = SubSeq(s, 1, i) /\ a = Append(p, s[i])
  OBVIOUS
<1>2. p \in Seq(Amount(k)!Chars) /\ Len(p) = i - 1 /\ i \in Nat /\ s[i] \in Amount(k)!Chars
        /\ \A j \in 1..(i - 1) : p[j] = s[j]
  BY <1>1
<1>3. q \in Seq(Amount(k)!Chars) /\ Len(q) = i /\ \A j \in 1..i : q[j] = s[j]
  BY <1>1
<1>4. a \in Seq(Amount(k)!Chars) /\ Len(a) = Len(p) + 1 /\ a[Len(p) + 1] = s[i] /\ \A j \in 1..Len(p) :
        a[j] = p[j]
  BY <1>1, <1>2, AmountOneMore
<1>5. ASSUME NEW j \in 1..Len(q)
      PROVE  q[j] = a[j]
  <2>1. CASE j = i
    <3>1. j = Len(p) + 1
      BY <1>2, <2>1
    <3>. QED
      BY <1>3, <1>4, <2>1, <3>1
  <2>2. CASE j \in 1..(i - 1)
    BY <1>2, <1>3, <1>4, <2>2
  <2>. QED
    BY <1>2, <1>3, <2>1, <2>2
<1>6. q = a
  BY <1>2, <1>3, <1>4, <1>5, AmountSameText
<1>. QED
  BY <1>1, <1>6

LEMMA AmountGroupStep ==
  ASSUME NEW k \in DOMAIN AmountFields, NEW s \in Seq(Amount(k)!Chars),
         \A j \in 1..Len(s) : s[j] \in Amount(k)!Digit, NEW i \in 1..Len(s), NEW o, NEW l \in Nat,
         l = Len(s) + (Len(s) - 1) \div 3, Amount(k)!Grouping(o, s, i - 1, l)
  PROVE  Amount(k)!Grouping(o \o (IF i > 1 /\ (Len(s) - i + 1) % 3 = 0 THEN <<Amount(k)!Comma>>
           ELSE <<>>) \o <<s[i]>>, s, i, l)
<1>. DEFINE m == Len(s) - i + 1
            r == m + m \div 3
<1>1. m \in Nat /\ m > 0 /\ Len(s) \in Nat /\ i \in Nat
  OBVIOUS
<1>2. /\ m % 3 = 0 => r % 4 = 0 /\ (r - 1) % 4 # 0 /\ (m - 1) + (m - 1) \div 3 = r - 2
      /\ m % 3 # 0 => r % 4 # 0 /\ (m - 1) + (m - 1) \div 3 = r - 1
      /\ r \in Nat
  <2>. HIDE DEF m
  <2>. QED
    BY <1>1, AmountCharactersToCome
<1>3. (m - 1) + (m - 1) \div 3 = (Len(s) - i) + (Len(s) - i) \div 3
  <2>1. m - 1 = Len(s) - i
    BY <1>1
  <2>. QED
    BY <2>1, Zenon
<1>3a. l \in Int /\ i # 0
  BY <1>1
<1>4. o \in Seq(Amount(k)!Chars) /\ Amount(k)!WellSpaced(o, l)
        /\ Amount(k)!Only(Amount(k)!Digit, o) = SubSeq(s, 1, i - 1) /\ Len(o) \in Nat
  BY DEF Amount!Grouping
<1>5. s[i] \in Amount(k)!Digit /\ s[i] \in Amount(k)!Chars
  OBVIOUS
<1>6. SubSeq(s, 1, i) = Append(SubSeq(s, 1, i - 1), s[i])
  BY AmountPrefixes
<1>7. CASE i = 1
  <2>1. Len(o) = 0 /\ m = Len(s)
    BY <1>7 DEF Amount!Grouping
  <2>2. l % 4 # 0
    BY <1>1, <2>1, AmountCharactersToCome
  <2>3. (l - Len(o)) % 4 # 0
    BY <2>1, <2>2
  <2>4. PICK a : a = Append(o, s[i])
    OBVIOUS
  <2>5. a \in Seq(Amount(k)!Chars) /\ Len(a) = Len(o) + 1 /\ Amount(k)!WellSpaced(a, l)
          /\ Amount(k)!Only(Amount(k)!Digit, a) = Append(Amount(k)!Only(Amount(k)!Digit, o), s[i])
    BY <1>4, <1>5, <2>3, <2>4, AmountDigitAdded, SMTT(30)
  <2>6. Len(a) = l - ((Len(s) - i) + (Len(s) - i) \div 3)
    BY <1>1, <1>7, <2>1, <2>5
  <2>7. Amount(k)!Grouping(a, s, i, l)
    BY <1>4, <1>6, <1>7, <2>5, <2>6 DEF Amount!Grouping
  <2>8. a = o \o <<>> \o <<s[i]>> /\ ~(i > 1)
    BY <1>4, <1>5, <1>7, <2>4, AmountJoinedOne
  <2>. QED
    BY <2>7, <2>8
<1>8. CASE i # 1 /\ m % 3 # 0
  <2>1. Len(o) = l - r
    <3>1. i - 1 # 0 /\ Len(s) - (i - 1) = m
      BY <1>1, <1>8
    <3>. QED
      BY <3>1 DEF Amount!Grouping
  <2>. HIDE DEF m, r
  <2>2. (l - Len(o)) % 4 # 0
    <3>1. l - Len(o) = r
      BY <1>2, <2>1
    <3>. QED
      BY <1>2, <1>8, <3>1
  <2>3. PICK a : a = Append(o, s[i])
    OBVIOUS
  <2>4. a \in Seq(Amount(k)!Chars) /\ Len(a) = Len(o) + 1 /\ Amount(k)!WellSpaced(a, l)
          /\ Amount(k)!Only(Amount(k)!Digit, a) = Append(Amount(k)!Only(Amount(k)!Digit, o), s[i])
    BY <1>4, <1>5, <2>2, <2>3, AmountDigitAdded, SMTT(30)
  <2>5. Len(a) = l - ((Len(s) - i) + (Len(s) - i) \div 3)
    <3>1. Len(a) = l - (r - 1)
      BY <1>2, <2>1, <2>4
    <3>. QED
      BY <1>2, <1>3, <1>8, <3>1, Zenon
  <2>6. Amount(k)!Grouping(a, s, i, l)
    BY <1>3a, <1>4, <1>6, <2>4, <2>5, Zenon DEF Amount!Grouping
  <2>7. a = o \o <<>> \o <<s[i]>>
    BY <1>4, <1>5, <2>3, AmountJoinedOne
  <2>8. ~((Len(s) - i + 1) % 3 = 0)
    BY <1>8 DEF m
  <2>. QED
    BY <2>6, <2>7, <2>8
<1>9. CASE i # 1 /\ m % 3 = 0
  <2>1. Len(o) = l - r
    <3>1. i - 1 # 0 /\ Len(s) - (i - 1) = m
      BY <1>1, <1>9
    <3>. QED
      BY <3>1 DEF Amount!Grouping
  <2>0. (Len(s) - i + 1) % 3 = 0 /\ i > 1
    BY <1>1, <1>9
  <2>. HIDE DEF m, r
  <2>2. (l - Len(o)) % 4 = 0
    <3>1. l - Len(o) = r
      BY <1>2, <2>1
    <3>. QED
      BY <1>2, <1>9, <3>1
  <2>3. PICK b : b = Append(o, Amount(k)!Comma)
    OBVIOUS
  <2>4. b \in Seq(Amount(k)!Chars) /\ Len(b) = Len(o) + 1 /\ Amount(k)!WellSpaced(b, l)
          /\ Amount(k)!Only(Amount(k)!Digit, b) = Amount(k)!Only(Amount(k)!Digit, o)
    BY <1>4, <2>2, <2>3, AmountCommaAdded
  <2>5. (l - Len(b)) % 4 # 0
    <3>1. l - Len(b) = r - 1
      BY <1>2, <2>1, <2>4
    <3>. QED
      BY <1>2, <1>9, <3>1
  <2>6. PICK a : a = Append(b, s[i])
    OBVIOUS
  <2>7. a \in Seq(Amount(k)!Chars) /\ Len(a) = Len(b) + 1 /\ Amount(k)!WellSpaced(a, l)
          /\ Amount(k)!Only(Amount(k)!Digit, a) = Append(Amount(k)!Only(Amount(k)!Digit, b), s[i])
    BY <1>3a, <1>5, <2>4, <2>5, <2>6, AmountDigitAdded, Zenon
  <2>8. Len(a) = l - ((Len(s) - i) + (Len(s) - i) \div 3)
    <3>1. Len(a) = l - (r - 2)
      BY <1>2, <2>1, <2>4, <2>7
    <3>. QED
      BY <1>2, <1>3, <1>9, <3>1, Zenon
  <2>9. Amount(k)!Grouping(a, s, i, l)
    BY <1>3a, <1>4, <1>6, <2>4, <2>7, <2>8, Zenon DEF Amount!Grouping
  <2>10. a = o \o <<Amount(k)!Comma>> \o <<s[i]>>
    BY <1>4, <1>5, <2>3, <2>6, AmountJoinedOne
  <2>. QED
    BY <2>0, <2>9, <2>10
<1>. QED
  BY <1>7, <1>8, <1>9

(* Grouped keeps the digits and puts commas where they belong. *)
LEMMA AmountGroupedIs ==
  ASSUME NEW k \in DOMAIN AmountFields, NEW s \in Seq(Amount(k)!Chars),
         \A j \in 1..Len(s) : s[j] \in Amount(k)!Digit, s # <<>>
  PROVE  \E l \in Nat :
           /\ Amount(k)!Grouped(s) \in Seq(Amount(k)!Chars) /\ Len(Amount(k)!Grouped(s)) = l
                /\ Amount(k)!WellSpaced(Amount(k)!Grouped(s), l)
                        /\ Amount(k)!Only(Amount(k)!Digit, Amount(k)!Grouped(s)) = s /\ l % 4 # 0 /\ l >= 1
<1>0. Len(s) \in Nat /\ Len(s) > 0
  OBVIOUS
<1>1. PICK l \in Nat : l = Len(s) + (Len(s) - 1) \div 3
  BY <1>0
<1>2. l % 4 # 0 /\ l >= 1
  BY <1>0, <1>1, AmountCharactersToCome
<1>3. PICK f : /\ f[0] = <<>> /\ Amount(k)!Grouped(s) = f[Len(s)]
               /\ \A i \in 1..Len(s) :
                    f[i] = f[i - 1] \o (IF i > 1 /\ (Len(s) - i + 1) % 3 = 0 THEN <<Amount(k)!Comma>>
                      ELSE <<>>) \o <<s[i]>>
  BY AmountGroupedSteps
<1>. DEFINE T == {n \in Nat : n <= Len(s) => Amount(k)!Grouping(f[n], s, n, l)}
<1>4. 0 \in T
  <2>1. PICK e, n : e = f[0] /\ n = 0
    OBVIOUS
  <2>2. e = <<>>
    BY <1>3, <2>1, Zenon
  <2>3. e \in Seq(Amount(k)!Chars) /\ Len(e) = 0
    BY <2>2
  <2>4. SubSeq(s, 1, n) = <<>>
    BY <2>1
  <2>5. Amount(k)!Only(Amount(k)!Digit, e) = <<>>
    BY <2>2, AmountOnlyOfNone, Zenon
  <2>6. Amount(k)!WellSpaced(e, l)
    BY <2>3 DEF Amount!WellSpaced
  <2>7. Amount(k)!Grouping(e, s, n, l)
    BY <2>1, <2>3, <2>4, <2>5, <2>6 DEF Amount!Grouping
  <2>8. Amount(k)!Grouping(f[0], s, 0, l)
    BY <2>1, <2>7, Zenon
  <2>. QED
    BY <2>8
<1>5. ASSUME NEW n \in T
      PROVE  n + 1 \in T
  <2>. SUFFICES ASSUME n + 1 <= Len(s)
                PROVE  Amount(k)!Grouping(f[n + 1], s, n + 1, l)
    OBVIOUS
  <2>1. PICK i : i = n + 1
    OBVIOUS
  <2>2. i \in 1..Len(s) /\ i - 1 = n
    BY <1>0, <2>1
  <2>3. Amount(k)!Grouping(f[i - 1], s, i - 1, l)
    BY <1>0, <2>2
  <2>4. f[i] = f[i - 1] \o (IF i > 1 /\ (Len(s) - i + 1) % 3 = 0 THEN <<Amount(k)!Comma>>
          ELSE <<>>) \o <<s[i]>>
    BY <1>3, <2>2, Zenon
  <2>5. Amount(k)!Grouping(f[i - 1] \o (IF i > 1 /\ (Len(s) - i + 1) % 3 = 0 THEN <<Amount(k)!Comma>>
          ELSE <<>>) \o <<s[i]>>, s, i, l)
    BY <1>1, <2>2, <2>3, AmountGroupStep, Zenon
  <2>6. Amount(k)!Grouping(f[i], s, i, l)
    BY <2>4, <2>5, Zenon
  <2>. QED
    BY <2>1, <2>6, Zenon
<1>6. Len(s) \in T
  <2>1. T \in SUBSET Nat
    OBVIOUS
  <2>. HIDE DEF T
  <2>. QED
    BY <1>0, <1>4, <1>5, <2>1, SetInduction
<1>7. PICK g, n : g = Amount(k)!Grouped(s) /\ n = Len(s)
  OBVIOUS
<1>8. Amount(k)!Grouping(g, s, n, l)
  <2>1. Amount(k)!Grouping(f[Len(s)], s, Len(s), l)
    BY <1>0, <1>6
  <2>. QED
    BY <1>3, <1>7, <2>1, Zenon
<1>9. g \in Seq(Amount(k)!Chars) /\ Len(g) = l /\ Amount(k)!WellSpaced(g, l)
        /\ Amount(k)!Only(Amount(k)!Digit, g) = s
  <2>1. SubSeq(s, 1, n) = s
    BY <1>7
  <2>2. (n - n) + (n - n) \div 3 = 0 /\ n # 0 /\ Len(s) - n = n - n
    BY <1>0, <1>7
  <2>3. g \in Seq(Amount(k)!Chars) /\ Amount(k)!WellSpaced(g, l) /\ Amount(k)!Only(Amount(k)!Digit, g) = s
    BY <1>8, <2>1 DEF Amount!Grouping
  <2>4. Len(g) = l - ((n - n) + (n - n) \div 3)
    BY <1>8, <2>2 DEF Amount!Grouping
  <2>. QED
    BY <2>2, <2>3, <2>4
<1>. QED
  BY <1>2, <1>7, <1>9

-----------------------------------------------------------------------------
LEMMA AmountWhereItStands ==
  ASSUME NEW k \in DOMAIN AmountFields, NEW key \in 0..1, NEW l \in Nat, NEW n \in Nat, NEW p \in Nat,
         p = key + l + 1, NEW i \in 1..(p + n)
  PROVE  (i = 1 /\ key = 1) \/ (\E j \in 1..l : i = key + j) \/ i = p \/ \E j \in 1..n : i = p + j
<1>1. CASE i <= key
  BY <1>1
<1>2. CASE i > key /\ i < p
  <2>1. i - key \in 1..l /\ i = key + (i - key)
    BY <1>2
  <2>. QED
    BY <2>1
<1>3. CASE i > p
  <2>1. i - p \in 1..n /\ i = p + (i - p)
    BY <1>3
  <2>. QED
    BY <2>1
<1>. QED
  BY <1>1, <1>2, <1>3

(* A sign or none, grouped digits, a point and decimals make a text that   *)
(* is read as such.                                                        *)
LEMMA AmountReadAsWritten ==
  ASSUME NEW k \in DOMAIN AmountFields, NEW key \in 0..1, NEW g \in Seq(Amount(k)!Chars),
         NEW d \in Seq(Amount(k)!Chars), NEW t, Amount(k)!Written(t, key, g, d)
  PROVE  Amount(k)!ReadAs(t, key, g, d)
<1>lengths. PICK l \in Nat, n \in 1..2 : l = Len(g) /\ n = Len(d)
  BY DEF Amount!Written, Amount!Parts
<1>point. PICK p \in Nat : p = key + l + 1
  OBVIOUS
<1>0. /\ n \in 1..2 /\ t \in Seq(Amount(k)!Chars) /\ Len(t) = p + n /\ (key = 1 => t[1] = "-") /\ t[p] = "."
      /\ \A i \in 1..l : t[key + i] = g[i]
      /\ \A i \in 1..n : t[p + i] = d[i] /\ d[i] \in Amount(k)!Digit
      /\ key \in 0..1 /\ l \in Nat /\ l >= 1 /\ l % 4 # 0 /\ p \in Nat /\ p = key + l + 1
           /\ d \in Seq(Amount(k)!Chars)
  BY <1>lengths, <1>point DEF Amount!Written, Amount!Parts
<1>spaced. n = Len(d) /\ Amount(k)!WellSpaced(g, l) /\ Len(g) = l /\ p = key + Len(g) + 1
  BY <1>lengths, <1>point DEF Amount!Written, Amount!Parts
<1>1. p \in 1..Len(t) /\ n \in Nat
  BY <1>0
<1>2. \A i \in 1..l :
        g[i] \in Amount(k)!Digit \cup {Amount(k)!Comma} /\ (g[i] = Amount(k)!Comma <=> (l + 1 - i) % 4 = 0)
  BY <1>spaced DEF Amount!WellSpaced
<1>3. \A c \in Amount(k)!Digit \cup {Amount(k)!Comma} : c # "." /\ c # "-"
  BY AmountCommaIsNoDigit DEF Amount!Digit
<1>4. \A i \in 1..Len(t) : (i = 1 /\ key = 1) \/ (\E j \in 1..l : i = key + j) \/ i = p \/ \E j \in 1..n :
        i = p + j
  BY <1>0, <1>1, AmountWhereItStands
<1>5. ASSUME NEW i \in 1..Len(t), i # p
      PROVE  t[i] # "." /\ (key = 0 => t[i] # "-")
  <2>1. CASE i = 1 /\ key = 1
    <3>1. "-" # "."
      OBVIOUS
    <3>. QED
      BY <1>0, <2>1, <3>1
  <2>2. CASE \E j \in 1..l : i = key + j
    BY <1>0, <1>2, <1>3, <2>2
  <2>3. CASE \E j \in 1..n : i = p + j
    BY <1>0, <1>3, <2>3
  <2>. QED
    BY <1>4, <1>5, <2>1, <2>2, <2>3, Zenon
<1>6. Amount(k)!FirstDot(t) = p
  <2>1. \A j \in 1..p - 1 : j \in 1..Len(t) /\ j # p
    BY <1>0, <1>1
  <2>2. \A j \in 1..p - 1 : t[j] # "."
    BY <1>5, <2>1
  <2>3. p \in 1..Len(t) + 1
    BY <1>0, <1>1
  <2>. QED
    BY <1>0, <2>2, <2>3, AmountFirstDotAt
<1>7. Amount(k)!HasDot(t) /\ \A i \in Amount(k)!Places(".", t) : i = p
  BY <1>0, <1>1, <1>5 DEF Amount!HasDot, Amount!Places
<1>8. Amount(k)!Fraction(t) = d
  <2>1. PICK w : w = SubSeq(t, p + 1, Len(t))
    OBVIOUS
  <2>2. w \in Seq(Amount(k)!Chars) /\ Len(w) = n /\ \A i \in 1..n : w[i] = t[p + i]
    BY <1>0, <1>1, <2>1
  <2>3. w = d
    <3>1. Len(w) = Len(d) /\ \A i \in 1..Len(w) : w[i] = d[i]
      BY <1>spaced, <1>0, <2>2
    <3>. QED
      BY <2>2, <3>1, AmountSameText
  <2>4. Amount(k)!Only(Amount(k)!Digit, d) = d
    <3>1. \A i \in 1..Len(d) : d[i] \in Amount(k)!Digit
      BY <1>spaced, <1>0
    <3>. QED
      BY <3>1, AmountOnlyAll
  <2>5. Amount(k)!Fraction(t) = Amount(k)!Only(Amount(k)!Digit, w)
    BY <1>6, <2>1, Zenon DEF Amount!Fraction
  <2>. QED
    BY <2>3, <2>4, <2>5, Zenon
<1>9. Amount(k)!Negative(t) <=> key = 1
  <2>1. t # <<>> /\ 1 \in 1..Len(t) /\ (key = 1 \/ key = 0) /\ ~(key = 0 /\ key = 1)
    BY <1>0, <1>1
  <2>2. CASE key = 1
    BY <1>0, <2>1, <2>2, Zenon DEF Amount!Negative
  <2>3. CASE key = 0
    <3>1. \A i \in 1..Len(t) : t[i] # "-"
      <4>1. t[p] # "-"
        BY <1>0
      <4>. QED
        BY <1>5, <2>3, <4>1
    <3>2. Amount(k)!Places("-", t) = {}
      BY <3>1 DEF Amount!Places
    <3>3. Amount(k)!Cardinality({}) = 0
      BY FS_EmptySet DEF Amount!Cardinality, Cardinality
    <3>4. PICK c \in Nat : c = 0
      OBVIOUS
    <3>5. c % 2 # 1
      BY <3>4
    <3>6. Amount(k)!Cardinality(Amount(k)!Places("-", t)) % 2 # 1
      BY <3>2, <3>3, <3>4, <3>5, Zenon
    <3>7. t[1] # "-"
      BY <2>1, <3>1
    <3>8. ~Amount(k)!Negative(t)
      BY <3>6, <3>7, Zenon DEF Amount!Negative
    <3>. QED
      BY <2>1, <2>3, <3>8
  <2>. QED
    BY <2>1, <2>2, <2>3
<1>10. Amount(k)!WellGrouped(t)
  <2>. SUFFICES ASSUME NEW i \in 1..p - 1
                PROVE  t[i] = Amount(k)!Comma <=> i > 1 /\ t[i - 1] \in Amount(k)!Digit /\ (p - i) % 4 = 0
    BY <1>6 DEF Amount!WellGrouped
  <2>1. CASE i = 1 /\ key = 1
    <3>1. t[i] = "-" /\ ~(i > 1)
      BY <1>0, <2>1
    <3>. QED
      BY <3>1, AmountCommaIsNoDigit
  <2>2. CASE \E j \in 1..l : i = key + j
    <3>1. PICK j \in 1..l : i = key + j
      BY <2>2
    <3>2. p - i = l + 1 - j /\ j \in Nat /\ j >= 1
      BY <1>0, <3>1
    <3>3. t[i] = g[j] /\ (g[j] = Amount(k)!Comma <=> (l + 1 - j) % 4 = 0)
      BY <1>0, <1>2, <3>1
    <3>4. ASSUME (l + 1 - j) % 4 = 0
          PROVE  i > 1 /\ t[i - 1] \in Amount(k)!Digit
      <4>1. j # 1
        <5>1. l + 1 - 1 = l
          OBVIOUS
        <5>. QED
          BY <1>0, <3>4, <5>1
      <4>2. PICK h : h = j - 1
        OBVIOUS
      <4>3. h \in 1..l /\ l + 1 - h = (l + 1 - j) + 1 /\ key + h = i - 1 /\ i > 1
        BY <3>1, <3>2, <4>1, <4>2
      <4>4. (l + 1 - h) % 4 # 0
        <5>1. PICK x \in Nat : x = l + 1 - j
          BY <3>2
        <5>2. x % 4 = 0 => (x + 1) % 4 # 0
          OBVIOUS
        <5>. QED
          BY <3>4, <4>3, <5>1, <5>2
      <4>5. g[h] \in Amount(k)!Digit /\ t[key + h] = g[h]
        BY <1>0, <1>2, <4>3, <4>4
      <4>. QED
        BY <4>3, <4>5
    <3>. QED
      BY <3>2, <3>3, <3>4
  <2>3. (i = 1 /\ key = 1) \/ \E j \in 1..l : i = key + j
    <3>1. i \in 1..Len(t) /\ i # p /\ ~(\E j \in 1..n : i = p + j)
      BY <1>0, <1>1
    <3>. QED
      BY <1>4, <3>1
  <2>. QED
    BY <2>1, <2>2, <2>3
<1>. QED
  <2>1. Len(t) - p = n
    BY <1>0
  <2>2. t \in Seq(Amount(k)!Chars) /\ Len(t) - Amount(k)!FirstDot(t) \in 1..2
    BY <1>0, <1>6, <2>1
  <2>. QED
    BY <1>spaced, <1>6, <1>7, <1>8, <1>9, <1>10, <2>2 DEF Amount!ReadAs

LEMMA AmountComposed ==
  ASSUME NEW k \in DOMAIN AmountFields, NEW key \in 0..1, NEW a \in Seq(Amount(k)!Chars),
         Amount(k)!Sign(a, key),
         NEW g \in Seq(Amount(k)!Chars), NEW d \in Seq(Amount(k)!Chars), Amount(k)!Parts(key, g, d),
         NEW t, t = a \o g \o <<".">> \o d
  PROVE  Amount(k)!Written(t, key, g, d) /\ Amount(k)!WholeIn(g, t)
<1>0. PICK l \in Nat \ {0}, n \in 1..2 : l = Len(g) /\ n = Len(d) /\ Len(a) = key
  BY DEF Amount!Parts, Amount!Sign
<1>1. PICK u, b, v : u = a \o g /\ b = <<".">> /\ v = u \o b
  OBVIOUS
<1>2. PICK p \in Nat : p = key + l + 1
  OBVIOUS
<1>3. b \in Seq(Amount(k)!Chars) /\ Len(b) = 1 /\ b[1] = "."
  <2>1. <<".">> \in Seq(Amount(k)!Chars) /\ Len(<<".">>) = 1 /\ <<".">>[1] = "."
    BY DEF Amount!Chars
  <2>. QED
    BY <1>1, <2>1
<1>4. t = v \o d
  BY <1>1, Zenon
<1>5. /\ u \in Seq(Amount(k)!Chars) /\ Len(u) = key + l
      /\ \A i \in 1..key : u[i] = a[i]
      /\ \A i \in 1..l : u[key + i] = g[i]
  <2>1. Amount(k)!Joined(u, a, g)
    BY <1>1, AmountJoinedIs, Zenon
  <2>. QED
    BY <1>0, <2>1 DEF Amount!Joined
<1>6. /\ v \in Seq(Amount(k)!Chars) /\ Len(v) = Len(u) + Len(b)
      /\ \A i \in 1..Len(u) : v[i] = u[i]
      /\ \A i \in 1..Len(b) : v[Len(u) + i] = b[i]
  <2>1. Amount(k)!Joined(v, u, b)
    BY <1>1, <1>3, <1>5, AmountJoinedIs, Zenon
  <2>. QED
    BY <2>1, Zenon DEF Amount!Joined
<1>7. /\ t \in Seq(Amount(k)!Chars) /\ Len(t) = Len(v) + Len(d)
      /\ \A i \in 1..Len(v) : t[i] = v[i]
      /\ \A i \in 1..Len(d) : t[Len(v) + i] = d[i]
  <2>1. Amount(k)!Joined(t, v, d)
    BY <1>4, <1>6, AmountJoinedIs, Zenon
  <2>. QED
    BY <2>1, Zenon DEF Amount!Joined
<1>8. Len(v) = p /\ Len(u) = p - 1 /\ v[p] = "." /\ \A i \in 1..(p - 1) : v[i] = u[i]
  <2>1. Len(v) = p /\ Len(u) = p - 1 /\ Len(u) + 1 = p /\ 1 \in 1..Len(b)
    BY <1>2, <1>3, <1>5, <1>6
  <2>. QED
    BY <1>3, <1>6, <2>1
<1>9. /\ Len(t) = p + n /\ t[p] = "."
      /\ \A i \in 1..n : t[p + i] = d[i]
      /\ \A i \in 1..(p - 1) : t[i] = u[i]
  <2>1. p \in 1..p /\ \A i \in 1..(p - 1) : i \in 1..p
    BY <1>2
  <2>. QED
    BY <1>0, <1>7, <1>8, <2>1
<1>10. /\ key = 1 => t[1] = "-"
       /\ \A i \in 1..l : t[key + i] = g[i]
  <2>1. \A i \in 1..l : key + i \in 1..(p - 1)
    BY <1>2
  <2>2. key = 1 => 1 \in 1..key /\ 1 \in 1..(p - 1)
    BY <1>2
  <2>3. key = 1 => a[1] = "-"
    BY DEF Amount!Sign
  <2>. QED
    BY <1>5, <1>9, <2>1, <2>2, <2>3
<1>11. Amount(k)!Written(t, key, g, d)
  <2>1. p = key + Len(g) + 1 /\ Len(g) = l /\ Len(d) = n
    BY <1>0, <1>2
  <2>2. t \in Seq(Amount(k)!Chars) /\ Len(t) = p + n /\ t[p] = "." /\ (key = 1 => t[1] = "-")
    BY <1>7, <1>9, <1>10, Zenon
  <2>3. (\A i \in 1..l : t[key + i] = g[i]) /\ \A i \in 1..n : t[p + i] = d[i]
    BY <1>9, <1>10, Zenon
  <2>4. Amount(k)!Parts(key, g, d)
    OBVIOUS
  <2>. QED
    BY ONLY <2>1, <2>2, <2>3, <2>4, Zenon DEF Amount!Written
<1>12. Amount(k)!Whole(t) = Amount(k)!Only(Amount(k)!Digit, g)
  <2>1. PICK w : w = SubSeq(t, 1, p - 1)
    OBVIOUS
  <2>2. w \in Seq(Amount(k)!Chars) /\ Len(w) = p - 1 /\ \A i \in 1..(p - 1) : w[i] = t[i]
    <3>1. t \in Seq(Amount(k)!Chars) /\ p - 1 \in Nat /\ p - 1 <= Len(t)
      BY <1>0, <1>2, <1>7, <1>9
    <3>. QED
      BY ONLY <2>1, <3>1
  <2>3. w = u
    <3>1. Len(w) = Len(u) /\ \A i \in 1..Len(w) : w[i] = u[i]
      BY <1>8, <1>9, <2>2, Zenon
    <3>. QED
      BY <1>5, <2>2, <3>1, AmountSameText, Zenon
  <2>4. Amount(k)!Only(Amount(k)!Digit, u)
          = Amount(k)!Only(Amount(k)!Digit, a) \o Amount(k)!Only(Amount(k)!Digit, g)
    BY <1>1, AmountOnlyOfJoined
  <2>5. Amount(k)!Only(Amount(k)!Digit, a) = <<>>
    <3>1. "-" \notin Amount(k)!Digit
      BY DEF Amount!Digit
    <3>2. \A i \in 1..Len(a) : i = 1 /\ key = 1
      BY <1>0
    <3>3. \A i \in 1..Len(a) : a[i] \notin Amount(k)!Digit
      BY <3>1, <3>2 DEF Amount!Sign
    <3>. QED
      BY <3>3, AmountOnlyNone
  <2>6. <<>> \o Amount(k)!Only(Amount(k)!Digit, g) = Amount(k)!Only(Amount(k)!Digit, g)
    <3>1. PICK o \in Seq(Amount(k)!Chars) : o = Amount(k)!Only(Amount(k)!Digit, g)
      BY AmountOnlyInside
    <3>2. <<>> \o o = o
      OBVIOUS
    <3>. QED
      BY <3>1, <3>2
  <2>7. Amount(k)!FirstDot(t) = p
    <3>1. Amount(k)!ReadAs(t, key, g, d)
      BY <1>11, AmountReadAsWritten, Zenon
    <3>2. Amount(k)!FirstDot(t) = key + Len(g) + 1
      BY <3>1, Zenon DEF Amount!ReadAs
    <3>. QED
      BY <1>0, <1>2, <3>2
  <2>8. Amount(k)!Whole(t) = Amount(k)!Only(Amount(k)!Digit, w)
    BY <2>1, <2>7, Zenon DEF Amount!Whole
  <2>. QED
    BY <2>3, <2>4, <2>5, <2>6, <2>8, Zenon
<1>. QED
  BY <1>11, <1>12, Zenon DEF Amount!WholeIn

LEMMA AmountSliceIs ==
  ASSUME NEW k \in DOMAIN AmountFields, NEW s \in Seq(Amount(k)!Chars), NEW m \in 1..Len(s) + 2,
         NEW n \in 0..Len(s)
  PROVE  /\ SubSeq(s, m, n) \in Seq(Amount(k)!Chars)
         /\ \A i \in 1..Len(SubSeq(s, m, n)) : m + i - 1 \in 1..n /\ SubSeq(s, m, n)[i] = s[m + i - 1]
         /\ Len(SubSeq(s, m, n)) = IF m <= n THEN n + 1 - m ELSE 0
<1>1. PICK t : t = SubSeq(s, m, n)
  OBVIOUS
<1>2. t \in Seq(Amount(k)!Chars)
  BY <1>1
<1>3. Len(t) = IF m <= n THEN n + 1 - m ELSE 0
  BY <1>1
<1>4. ASSUME NEW i \in 1..Len(t)
      PROVE  m + i - 1 \in 1..n /\ t[i] = s[m + i - 1]
  BY <1>1, <1>3
<1>. QED
  BY <1>1, <1>2, <1>3, <1>4

(* The digits before the point and those behind it.                        *)
LEMMA AmountWholeIs ==
  ASSUME NEW k \in DOMAIN AmountFields, NEW s \in Seq(Amount(k)!Chars)
  PROVE  /\ Amount(k)!Whole(s) \in Seq(Amount(k)!Chars)
         /\ \A i \in 1..Len(Amount(k)!Whole(s)) :
              Amount(k)!Whole(s)[i] \in Amount(k)!Digit /\ \E j \in 1..Len(s) : s[j] = Amount(k)!Whole(s)[i]
<1>1. PICK p, t : p = Amount(k)!FirstDot(s) /\ t = SubSeq(s, 1, p - 1)
  OBVIOUS
<1>2. p \in 1..Len(s) + 1 /\ Len(s) \in Nat
  BY <1>1, AmountFirstDotIs
<1>3. 1 \in 1..Len(s) + 2 /\ p - 1 \in 0..Len(s)
  BY <1>2
<1>4. t \in Seq(Amount(k)!Chars) /\ \A i \in 1..Len(t) : \E j \in 1..Len(s) : s[j] = t[i]
  BY <1>1, <1>2
<1>5. PICK w : w = Amount(k)!Only(Amount(k)!Digit, t)
  OBVIOUS
<1>6. Amount(k)!Whole(s) = w
  BY <1>1, <1>5 DEF Amount!Whole
<1>7. w \in Seq(Amount(k)!Chars) /\ \A i \in 1..Len(w) : w[i] \in Amount(k)!Digit /\ \E j \in 1..Len(t) :
        t[j] = w[i]
  BY <1>4, <1>5, AmountOnlyInside
<1>8. \A i \in 1..Len(w) : w[i] \in Amount(k)!Digit /\ \E j \in 1..Len(s) : s[j] = w[i]
  BY <1>4, <1>7
<1>. QED
  BY <1>6, <1>7, <1>8

LEMMA AmountFractionIs ==
  ASSUME NEW k \in DOMAIN AmountFields, NEW s \in Seq(Amount(k)!Chars)
  PROVE  /\ Amount(k)!Fraction(s) \in Seq(Amount(k)!Chars)
         /\ \A i \in 1..Len(Amount(k)!Fraction(s)) :
              Amount(k)!Fraction(s)[i] \in Amount(k)!Digit /\ \E j \in 1..Len(s) :
                s[j] = Amount(k)!Fraction(s)[i]
<1>1. PICK m, n, t : m = Amount(k)!FirstDot(s) + 1 /\ n = Len(s) /\ t = SubSeq(s, m, n)
  OBVIOUS
<1>2. m \in 1..Len(s) + 2 /\ n \in 0..Len(s) /\ n \in Nat
  BY <1>1, AmountFirstDotIs
<1>3. /\ t \in Seq(Amount(k)!Chars)
      /\ \A i \in 1..Len(t) : m + i - 1 \in 1..n /\ t[i] = s[m + i - 1]
  BY <1>1, <1>2, AmountSliceIs
<1>4. \A i \in 1..Len(t) : \E j \in 1..Len(s) : s[j] = t[i]
  BY <1>1, <1>3
<1>5. PICK w : w = Amount(k)!Only(Amount(k)!Digit, t)
  OBVIOUS
<1>6. Amount(k)!Fraction(s) = w
  BY <1>1, <1>5 DEF Amount!Fraction
<1>7. w \in Seq(Amount(k)!Chars) /\ \A i \in 1..Len(w) : w[i] \in Amount(k)!Digit /\ \E j \in 1..Len(t) :
        t[j] = w[i]
  BY <1>3, <1>5, AmountOnlyInside
<1>8. \A i \in 1..Len(w) : w[i] \in Amount(k)!Digit /\ \E j \in 1..Len(s) : s[j] = w[i]
  BY <1>4, <1>7
<1>. QED
  BY <1>6, <1>7, <1>8

LEMMA AmountZeroIsText ==
  ASSUME NEW k \in DOMAIN AmountFields
  PROVE  <<"0">> \in Seq(Amount(k)!Chars) /\ Len(<<"0">>) = 1 /\ <<"0">>[1] = "0" /\ "0" \in Amount(k)!Digit
BY DEF Amount!Chars, Amount!Digit

LEMMA AmountZerosAreText ==
  ASSUME NEW k \in DOMAIN AmountFields
  PROVE  <<"0", "0">> \in Seq(Amount(k)!Chars) /\ Len(<<"0", "0">>) = 2 /\ <<"0", "0">>[1] = "0"
           /\ <<"0", "0">>[2] = "0"
BY DEF Amount!Chars, Amount!Digit

(* The digits the number is written with before the point.                 *)
LEMMA AmountIntegerPartIs ==
  ASSUME NEW k \in DOMAIN AmountFields, NEW s \in Seq(Amount(k)!Chars)
  PROVE  /\ Amount(k)!IntegerPart(s) \in Seq(Amount(k)!Chars) /\ Amount(k)!IntegerPart(s) # <<>>
         /\ \A i \in 1..Len(Amount(k)!IntegerPart(s)) : Amount(k)!IntegerPart(s)[i] \in Amount(k)!Digit
         /\ Amount(k)!NumberOf(Amount(k)!IntegerPart(s)) = Amount(k)!NumberOf(Amount(k)!Whole(s))
<1>1. PICK w, f, o, e :
             w = Amount(k)!Whole(s) /\ f = Amount(k)!StripFront(w) /\ o = Amount(k)!IntegerPart(s)
               /\ e = <<"0">>
  OBVIOUS
<1>2. w \in Seq(Amount(k)!Chars) /\ \A i \in 1..Len(w) : w[i] \in Amount(k)!Digit
  BY <1>1, AmountWholeIs
<1>3. PICK z \in 0..Len(w) : f = SubSeq(w, z + 1, Len(w)) /\ \A i \in 1..z : w[i] = "0"
  BY <1>1, <1>2, AmountStripFrontIs
<1>4. Amount(k)!NumberOf(f) = Amount(k)!NumberOf(w)
  BY <1>2, <1>3, AmountLeadingZeros
<1>5. o = IF f = <<>> THEN e ELSE f
  BY <1>1 DEF Amount!IntegerPart
<1>6. CASE f = <<>>
  <2>1. Len(f) = 0
    BY <1>6
  <2>2. z = Len(w)
    BY <1>2, <1>3, <2>1
  <2>3. Amount(k)!NumberOf(w) = 0
    BY <1>2, <1>3, <2>2, AmountNoNumberIsZero
  <2>4. e \in Seq(Amount(k)!Chars) /\ Len(e) = 1 /\ e[1] = "0" /\ "0" \in Amount(k)!Digit
    BY <1>1, AmountZeroIsText
  <2>5. \A i \in 1..Len(e) : e[i] = "0"
    BY <2>4
  <2>6. Amount(k)!NumberOf(e) = 0
    BY <2>4, <2>5, AmountNoNumberIsZero
  <2>7. o = e
    BY <1>5, <1>6, Zenon
  <2>8. e # <<>> /\ \A i \in 1..Len(e) : e[i] \in Amount(k)!Digit
    <3>1. Len(e) = 1
      BY <2>4, Zenon
    <3>2. e # <<>>
      <4>1. Len(<<>>) = 0
        OBVIOUS
      <4>2. Len(<<>>) # 1
        BY <4>1
      <4>. QED
        BY <3>1, <4>2, Zenon
    <3>. QED
      BY <2>4, <2>5, <3>2, Zenon
  <2>9. Amount(k)!NumberOf(e) = Amount(k)!NumberOf(w)
    BY <2>3, <2>6
  <2>. QED
    BY <1>1, <2>4, <2>7, <2>8, <2>9, Zenon
<1>7. CASE f # <<>>
  <2>1. o = f /\ f \in Seq(Amount(k)!Chars) /\ \A i \in 1..Len(f) : f[i] \in Amount(k)!Digit
    BY <1>2, <1>3, <1>5, <1>7
  <2>. QED
    BY <1>1, <1>4, <1>7, <2>1
<1>. QED
  BY <1>6, <1>7

(* The first two characters of f, zeros where it has none.                 *)
LEMMA AmountPaddedIs ==
  ASSUME NEW k \in DOMAIN AmountFields, NEW f \in Seq(Amount(k)!Chars)
  PROVE  \E t \in Seq(Amount(k)!Chars) : /\ SubSeq(f \o <<"0", "0">>, 1, 2) = t /\ Len(t) = 2
                                         /\ \A i \in 1..2 : t[i] = IF i <= Len(f) THEN f[i] ELSE "0"
<1>1. PICK e, u, t : e = <<"0", "0">> /\ u = f \o e /\ t = SubSeq(u, 1, 2)
  OBVIOUS
<1>2. e \in Seq(Amount(k)!Chars) /\ Len(e) = 2 /\ e[1] = "0" /\ e[2] = "0"
  BY <1>1, AmountZerosAreText
<1>3. Len(f) \in Nat
  OBVIOUS
<1>4. /\ u \in Seq(Amount(k)!Chars) /\ Len(u) = Len(f) + 2
      /\ \A i \in 1..Len(f) : u[i] = f[i]
      /\ \A i \in 1..Len(e) : u[Len(f) + i] = e[i]
  <2>1. Amount(k)!Joined(u, f, e)
    BY <1>1, <1>2, AmountJoinedIs, Zenon
  <2>. QED
    BY <1>2, <2>1 DEF Amount!Joined
<1>5. t \in Seq(Amount(k)!Chars) /\ Len(t) = 2 /\ \A i \in 1..2 : t[i] = u[i]
  BY <1>1, <1>3, <1>4
<1>6. ASSUME NEW i \in 1..2, ~(i <= Len(f))
      PROVE  u[i] = "0"
  <2>1. PICK j : j = i - Len(f)
    OBVIOUS
  <2>2. j \in 1..Len(e) /\ Len(f) + j = i /\ (j = 1 \/ j = 2)
    BY <1>2, <1>3, <1>6, <2>1
  <2>3. u[i] = e[j]
    BY <1>4, <2>2
  <2>. QED
    BY <1>2, <2>2, <2>3
<1>7. \A i \in 1..2 : t[i] = IF i <= Len(f) THEN f[i] ELSE "0"
  <2>1. \A i \in 1..2 : i <= Len(f) => i \in 1..Len(f)
    BY <1>3
  <2>. QED
    BY <1>4, <1>5, <1>6, <2>1
<1>. QED
  BY <1>1, <1>5, <1>7

LEMMA AmountPaddedAlike ==
  ASSUME NEW k \in DOMAIN AmountFields, NEW f \in Seq(Amount(k)!Chars), NEW d \in Seq(Amount(k)!Chars),
         \A i \in 1..2 : (IF i <= Len(f) THEN f[i] ELSE "0") = (IF i <= Len(d) THEN d[i] ELSE "0")
  PROVE  SubSeq(f \o <<"0", "0">>, 1, 2) = SubSeq(d \o <<"0", "0">>, 1, 2)
<1>1. PICK t \in Seq(Amount(k)!Chars) : /\ SubSeq(f \o <<"0", "0">>, 1, 2) = t /\ Len(t) = 2
                                        /\ \A i \in 1..2 : t[i] = IF i <= Len(f) THEN f[i] ELSE "0"
  BY AmountPaddedIs
<1>2. PICK u \in Seq(Amount(k)!Chars) : /\ SubSeq(d \o <<"0", "0">>, 1, 2) = u /\ Len(u) = 2
                                        /\ \A i \in 1..2 : u[i] = IF i <= Len(d) THEN d[i] ELSE "0"
  BY AmountPaddedIs
<1>3. Len(t) = Len(u) /\ \A i \in 1..Len(t) : t[i] = u[i]
  BY <1>1, <1>2
<1>4. t = u
  BY <1>3, AmountSameText
<1>. QED
  BY <1>1, <1>2, <1>4, Zenon

(* The decimals the number is written with.                                *)
LEMMA AmountDecimalPartIs ==
  ASSUME NEW k \in DOMAIN AmountFields, NEW s \in Seq(Amount(k)!Chars)
  PROVE  /\ Amount(k)!DecimalPart(s) \in Seq(Amount(k)!Chars) /\ Len(Amount(k)!DecimalPart(s)) \in 1..2
         /\ \A i \in 1..Len(Amount(k)!DecimalPart(s)) : Amount(k)!DecimalPart(s)[i] \in Amount(k)!Digit
         /\ SubSeq(Amount(k)!DecimalPart(s) \o <<"0", "0">>, 1, 2)
              = SubSeq(Amount(k)!Fraction(s) \o <<"0", "0">>, 1, 2)
<1>1. PICK f, e, d, o :
             f = Amount(k)!Fraction(s) /\ e = Amount(k)!StripEnd(f) /\ d = Amount(k)!DecimalPart(s)
               /\ o = <<"0", "0">>
  OBVIOUS
<1>2. f \in Seq(Amount(k)!Chars) /\ \A i \in 1..Len(f) : f[i] \in Amount(k)!Digit
  BY <1>1, AmountFractionIs
<1>3. PICK z \in 0..Len(f) : e = SubSeq(f, 1, Len(f) - z) /\ \A i \in (Len(f) - z + 1)..Len(f) : f[i] = "0"
  BY <1>1, <1>2, AmountStripEndIs
<1>4. /\ Len(f) \in Nat /\ z \in Nat
      /\ e \in Seq(Amount(k)!Chars) /\ Len(e) = Len(f) - z /\ Len(e) \in Nat
      /\ \A i \in 1..Len(e) : e[i] = f[i] /\ i \in 1..Len(f)
  BY <1>2, <1>3
<1>5. ASSUME NEW i \in 1..Len(f), i > Len(e)
      PROVE  f[i] = "0"
  BY <1>3, <1>4, <1>5
<1>6. PICK n : n = IF Len(e) < 2 THEN Len(e) ELSE 2
  OBVIOUS
<1>7. d = IF e = <<>> THEN o ELSE SubSeq(e, 1, n)
  BY <1>1, <1>6 DEF Amount!DecimalPart
<1>8. /\ d \in Seq(Amount(k)!Chars) /\ Len(d) \in 1..2 /\ \A i \in 1..Len(d) : d[i] \in Amount(k)!Digit
      /\ \A i \in 1..2 : (IF i <= Len(d) THEN d[i] ELSE "0") = (IF i <= Len(f) THEN f[i] ELSE "0")
  <2>1. CASE e = <<>>
    <3>1. d = o /\ Len(e) = 0
      BY <1>7, <2>1, Zenon
    <3>2. o \in Seq(Amount(k)!Chars) /\ Len(o) = 2 /\ (\A i \in 1..2 : o[i] = "0") /\ "0" \in Amount(k)!Digit
      BY <1>1, AmountZerosAreText, AmountZeroIsText
    <3>3. \A i \in 1..2 : i <= Len(f) => f[i] = "0"
      BY <1>4, <1>5, <3>1
    <3>. QED
      BY <3>1, <3>2, <3>3
  <2>2. CASE e # <<>>
    <3>1. Len(e) >= 1
      BY <1>4, <2>2
    <3>2. n \in 1..2 /\ n <= Len(e) /\ (n = 1 => Len(e) = 1)
      BY <1>4, <1>6, <3>1
    <3>3. d = SubSeq(e, 1, n)
      BY <1>7, <2>2
    <3>4. d \in Seq(Amount(k)!Chars) /\ Len(d) = n /\ \A i \in 1..n : d[i] = e[i]
      BY <1>4, <3>2, <3>3
    <3>5. \A i \in 1..n : d[i] = f[i] /\ i \in 1..Len(f) /\ d[i] \in Amount(k)!Digit
      BY <1>2, <1>4, <3>2, <3>4
    <3>6. ASSUME NEW i \in 1..2, ~(i <= n), i <= Len(f)
          PROVE  f[i] = "0"
      BY <1>4, <1>5, <3>2, <3>6
    <3>7. \A i \in 1..2 : (IF i <= n THEN d[i] ELSE "0") = (IF i <= Len(f) THEN f[i] ELSE "0")
      BY <1>4, <3>2, <3>5, <3>6
    <3>. QED
      BY <3>2, <3>4, <3>5, <3>7
  <2>. QED
    BY <2>1, <2>2
<1>9. SubSeq(d \o <<"0", "0">>, 1, 2) = SubSeq(f \o <<"0", "0">>, 1, 2)
  BY <1>2, <1>8, AmountPaddedAlike
<1>. QED
  BY <1>1, <1>8, <1>9, Zenon

LEMMA AmountPaddedZeros ==
  ASSUME NEW k \in DOMAIN AmountFields, NEW f \in Seq(Amount(k)!Chars), \A i \in 1..Len(f) : f[i] = "0"
  PROVE  Amount(k)!NumberOf(SubSeq(f \o <<"0", "0">>, 1, 2)) = 0
<1>1. PICK t \in Seq(Amount(k)!Chars) : /\ SubSeq(f \o <<"0", "0">>, 1, 2) = t /\ Len(t) = 2
                                        /\ \A i \in 1..2 : t[i] = IF i <= Len(f) THEN f[i] ELSE "0"
  BY AmountPaddedIs
<1>2. \A i \in 1..Len(t) : t[i] = "0"
  BY <1>1
<1>3. Amount(k)!NumberOf(t) = 0
  BY <1>2, AmountNoNumberIsZero
<1>. QED
  BY <1>1, <1>3, Zenon

(* A text without a digit but 0 stands for nothing.                        *)
LEMMA AmountZeroAmount ==
  ASSUME NEW k \in DOMAIN AmountFields, NEW s \in Seq(Amount(k)!Chars), Amount(k)!IsZero(s)
  PROVE  Amount(k)!NumberOf(Amount(k)!Whole(s)) = 0
           /\ Amount(k)!NumberOf(SubSeq(Amount(k)!Fraction(s) \o <<"0", "0">>, 1, 2)) = 0
<1>1. PICK w, f : w = Amount(k)!Whole(s) /\ f = Amount(k)!Fraction(s)
  OBVIOUS
<1>2. w \in Seq(Amount(k)!Chars) /\ \A i \in 1..Len(w) : w[i] \in Amount(k)!Digit /\ \E j \in 1..Len(s) :
        s[j] = w[i]
  BY <1>1, AmountWholeIs
<1>3. f \in Seq(Amount(k)!Chars) /\ \A i \in 1..Len(f) : f[i] \in Amount(k)!Digit /\ \E j \in 1..Len(s) :
        s[j] = f[i]
  BY <1>1, AmountFractionIs
<1>4. \A i \in 1..Len(w) : w[i] = "0"
  BY <1>2 DEF Amount!IsZero, Amount!Digit
<1>5. \A i \in 1..Len(f) : f[i] = "0"
  BY <1>3 DEF Amount!IsZero, Amount!Digit
<1>6. Amount(k)!NumberOf(w) = 0
  BY <1>2, <1>4, AmountNoNumberIsZero
<1>7. Amount(k)!NumberOf(SubSeq(f \o <<"0", "0">>, 1, 2)) = 0
  BY <1>3, <1>5, AmountPaddedZeros
<1>. QED
  BY <1>1, <1>6, <1>7, Zenon

(* The cents of a text are those of its digits.                            *)
LEMMA AmountSameCents ==
  ASSUME NEW k \in DOMAIN AmountFields, NEW s \in Seq(Amount(k)!Chars), NEW t \in Seq(Amount(k)!Chars),
         Amount(k)!NumberOf(Amount(k)!Whole(t)) = Amount(k)!NumberOf(Amount(k)!Whole(s)),
         SubSeq(Amount(k)!Fraction(t) \o <<"0", "0">>, 1, 2)
           = SubSeq(Amount(k)!Fraction(s) \o <<"0", "0">>, 1, 2),
         Amount(k)!Negative(t) <=> Amount(k)!Negative(s) /\ ~Amount(k)!IsZero(s)
  PROVE  Amount(k)!Cents(t) = Amount(k)!Cents(s)
<1>1. PICK a, b, m, n :
             /\ a = Amount(k)!NumberOf(Amount(k)!Whole(s))
                  /\ b = Amount(k)!NumberOf(SubSeq(Amount(k)!Fraction(s) \o <<"0", "0">>, 1, 2))
                        /\ n = 100 * a + b /\ m = -n
  OBVIOUS
<1>2. Amount(k)!Cents(s) = IF Amount(k)!Negative(s) THEN m ELSE n
  BY ONLY <1>1, Zenon DEF Amount!Cents
<1>3. Amount(k)!Cents(t) = IF Amount(k)!Negative(t) THEN m ELSE n
  <2>1. Amount(k)!NumberOf(Amount(k)!Whole(t)) = a
          /\ Amount(k)!NumberOf(SubSeq(Amount(k)!Fraction(t) \o <<"0", "0">>, 1, 2)) = b
    BY <1>1, Zenon
  <2>. QED
    BY ONLY <1>1, <2>1, Zenon DEF Amount!Cents
<1>4. ASSUME Amount(k)!Negative(s), Amount(k)!IsZero(s)
      PROVE  m = n
  <2>1. a = 0 /\ b = 0
    BY <1>1, <1>4, AmountZeroAmount, Zenon
  <2>. QED
    BY <1>1, <2>1
<1>5. CASE Amount(k)!Negative(s) /\ Amount(k)!IsZero(s)
  <2>1. Amount(k)!Cents(s) = m /\ Amount(k)!Cents(t) = n /\ m = n
    BY <1>2, <1>3, <1>4, <1>5, Zenon
  <2>. QED
    BY <2>1
<1>6. CASE ~(Amount(k)!Negative(s) /\ Amount(k)!IsZero(s))
  <2>1. Amount(k)!Negative(t) <=> Amount(k)!Negative(s)
    BY <1>6
  <2>2. CASE Amount(k)!Negative(s)
    BY <1>2, <1>3, <2>1, <2>2, Zenon
  <2>3. CASE ~Amount(k)!Negative(s)
    BY <1>2, <1>3, <2>1, <2>3, Zenon
  <2>. QED
    BY <2>2, <2>3
<1>. QED
  BY <1>5, <1>6

(* The text of no number.                                                  *)
LEMMA AmountNoNumberText ==
  ASSUME NEW k \in DOMAIN AmountFields, NEW t, t = <<"0", ".", "0", "0">>
  PROVE  Amount(k)!Written(t, 0, <<"0">>, <<"0", "0">>) /\ Amount(k)!Whole(t) = <<"0">>
<1>1. PICK key, g, d : g = <<"0">> /\ d = <<"0", "0">> /\ key = 0
  OBVIOUS
<1>2. g \in Seq(Amount(k)!Chars) /\ Len(g) = 1 /\ g[1] = "0" /\ "0" \in Amount(k)!Digit
  BY <1>1, AmountZeroIsText
<1>3. d \in Seq(Amount(k)!Chars) /\ Len(d) = 2 /\ d[1] = "0" /\ d[2] = "0"
  BY <1>1, AmountZerosAreText
<1>4. Amount(k)!WellSpaced(g, Len(g))
  <2>1. \A i \in 1..Len(g) : i = 1 /\ (Len(g) + 1 - i) % 4 # 0
    BY <1>2
  <2>2. "0" # Amount(k)!Comma
    BY <1>2, AmountCommaIsNoDigit, Zenon
  <2>. QED
    BY <1>2, <2>1, <2>2, Zenon DEF Amount!WellSpaced
<1>5. Amount(k)!Parts(key, g, d)
  <2>1. key \in 0..1 /\ Len(g) \in Nat \ {0} /\ Len(g) % 4 # 0 /\ Len(d) \in 1..2
    BY <1>1, <1>2, <1>3
  <2>2. \A i \in 1..Len(d) : d[i] \in Amount(k)!Digit
    BY <1>2, <1>3
  <2>. QED
    BY <1>2, <1>3, <1>4, <2>1, <2>2, Zenon DEF Amount!Parts
<1>6. t \in Seq(Amount(k)!Chars) /\ Len(t) = 4 /\ t[1] = "0" /\ t[2] = "." /\ t[3] = "0" /\ t[4] = "0"
  BY DEF Amount!Chars, Amount!Digit
<1>7. key + Len(g) + 1 = 2 /\ 2 + Len(d) = 4 /\ ~(key = 1)
  BY <1>1, <1>2, <1>3
<1>8. \A i \in 1..Len(g) : t[key + i] = g[i]
  <2>1. \A i \in 1..Len(g) : i = 1 /\ key + i = 1
    BY <1>1, <1>2
  <2>. QED
    BY <1>2, <1>6, <2>1, Zenon
<1>9. \A i \in 1..Len(d) : t[2 + i] = d[i]
  <2>1. \A i \in 1..Len(d) : (i = 1 /\ 2 + i = 3) \/ (i = 2 /\ 2 + i = 4)
    BY <1>3
  <2>. QED
    BY <1>3, <1>6, <2>1, Zenon
<1>10. Amount(k)!Written(t, key, g, d)
  BY <1>5, <1>6, <1>7, <1>8, <1>9, Zenon DEF Amount!Written
<1>11. Amount(k)!Whole(t) = g
  <2>1. key \in 0..1
    BY <1>1
  <2>2. Amount(k)!FirstDot(t) = key + Len(g) + 1
    <3>1. Amount(k)!ReadAs(t, key, g, d)
      BY ONLY <1>2, <1>3, <1>10, <2>1, AmountReadAsWritten, Zenon
    <3>. QED
      BY <3>1, Zenon DEF Amount!ReadAs
  <2>3. PICK w : w = SubSeq(t, 1, Amount(k)!FirstDot(t) - 1)
    OBVIOUS
  <2>4. Amount(k)!FirstDot(t) - 1 = 1
    BY <1>7, <2>2
  <2>5. w \in Seq(Amount(k)!Chars) /\ Len(w) = 1 /\ w[1] = t[1]
    BY <1>6, <2>3, <2>4
  <2>6. Len(w) = Len(g) /\ \A i \in 1..Len(w) : w[i] = g[i]
    <3>1. \A i \in 1..Len(w) : i = 1
      BY <2>5
    <3>. QED
      BY <1>2, <1>6, <2>5, <3>1, Zenon
  <2>7. w = g
    BY <1>2, <2>5, <2>6, AmountSameText
  <2>8. \A i \in 1..Len(g) : g[i] \in Amount(k)!Digit
    BY <1>2
  <2>9. Amount(k)!Only(Amount(k)!Digit, g) = g
    BY <1>2, <2>8, AmountOnlyAll
  <2>. QED
    BY <2>3, <2>7, <2>9, Zenon DEF Amount!Whole
<1>. QED
  BY <1>1, <1>10, <1>11, Zenon

(* A text that a change has formatted is one amount, readable, and the     *)
(* same as before.                                                         *)
LEMMA AmountFormattedIs ==
  ASSUME NEW k \in DOMAIN AmountFields, NEW s \in Seq(Amount(k)!Chars)
  PROVE  /\ Amount(k)!Formatted(s) \in Seq(Amount(k)!Chars) /\ Amount(k)!HasDot(Amount(k)!Formatted(s))
              /\ \A i, j \in Amount(k)!Places(".", Amount(k)!Formatted(s)) : i = j
         /\ Amount(k)!WellGrouped(Amount(k)!Formatted(s))
              /\ Len(Amount(k)!Formatted(s)) - Amount(k)!FirstDot(Amount(k)!Formatted(s)) \in 1..2
         /\ Amount(k)!Cents(Amount(k)!Formatted(s)) = Amount(k)!Cents(s)
<1>1. PICK t : t = Amount(k)!Formatted(s)
  OBVIOUS
<1>2. CASE Amount(k)!NoNumber(s)
  <2>1. PICK key, g, d : key = 0 /\ g = <<"0">> /\ d = <<"0", "0">>
    OBVIOUS
  <2>2. t = <<"0", ".", "0", "0">>
    BY ONLY <1>1, <1>2, Zenon DEF Amount!Formatted
  <2>3. Amount(k)!Written(t, key, g, d) /\ Amount(k)!Whole(t) = g
    BY ONLY <2>1, <2>2, AmountNoNumberText, Zenon
  <2>4. key \in 0..1 /\ g \in Seq(Amount(k)!Chars) /\ d \in Seq(Amount(k)!Chars)
    BY <2>1, AmountZeroIsText, AmountZerosAreText
  <2>5. /\ Amount(k)!FirstDot(t) = key + Len(g) + 1 /\ Amount(k)!HasDot(t) /\ \A i,
             j \in Amount(k)!Places(".", t) : i = j
        /\ t \in Seq(Amount(k)!Chars) /\ Len(t) - Amount(k)!FirstDot(t) \in 1..2 /\ Amount(k)!Fraction(t) = d
        /\ Amount(k)!Negative(t) <=> key = 1
        /\ Amount(k)!WellGrouped(t)
    <3>1. Amount(k)!ReadAs(t, key, g, d)
      BY ONLY <2>3, <2>4, AmountReadAsWritten, Zenon
    <3>. QED
      BY <3>1, Zenon DEF Amount!ReadAs
  <2>6. Amount(k)!Cents(t) = Amount(k)!Cents(s)
    <3>1. PICK e : e = <<>>
      OBVIOUS
    <3>2. Amount(k)!Whole(s) = e /\ Amount(k)!Fraction(s) = e
      BY ONLY <1>2, <3>1, Zenon DEF Amount!NoNumber
    <3>3. e \in Seq(Amount(k)!Chars) /\ Len(e) = 0
      BY <3>1
    <3>4. \A i \in 1..Len(e) : e[i] = "0"
      BY <3>3
    <3>5. Len(g) = 1 /\ g[1] = "0" /\ Len(d) = 2 /\ d[1] = "0" /\ d[2] = "0"
      BY <2>1, AmountZeroIsText, AmountZerosAreText, Zenon
    <3>6. \A i \in 1..Len(g) : g[i] = "0"
      BY <3>5
    <3>7. \A i \in 1..Len(d) : d[i] = "0"
      BY <3>5
    <3>8. PICK m : m = 0
      OBVIOUS
    <3>9. Amount(k)!NumberOf(Amount(k)!Whole(s)) = m /\ Amount(k)!NumberOf(Amount(k)!Whole(t)) = m
      BY <2>3, <2>4, <3>2, <3>3, <3>4, <3>6, <3>8, AmountNoNumberIsZero, Zenon
    <3>10. /\ Amount(k)!NumberOf(SubSeq(Amount(k)!Fraction(s) \o <<"0", "0">>, 1, 2)) = m
           /\ Amount(k)!NumberOf(SubSeq(Amount(k)!Fraction(t) \o <<"0", "0">>, 1, 2)) = m
      BY <2>4, <2>5, <3>2, <3>3, <3>4, <3>7, <3>8, AmountPaddedZeros, Zenon
    <3>11. PICK n, o : n = 100 * m + m /\ o = -n
      OBVIOUS
    <3>12. n = o
      <4>1. n = 0
        BY <3>8, <3>11
      <4>. QED
        BY <3>11, <4>1
    <3>13. Amount(k)!Cents(s) = IF Amount(k)!Negative(s) THEN o ELSE n
      BY ONLY <3>9, <3>10, <3>11, Zenon DEF Amount!Cents
    <3>14. Amount(k)!Cents(t) = IF Amount(k)!Negative(t) THEN o ELSE n
      BY ONLY <3>9, <3>10, <3>11, Zenon DEF Amount!Cents
    <3>15. Amount(k)!Cents(s) = n
      BY ONLY <3>12, <3>13
    <3>16. Amount(k)!Cents(t) = n
      BY ONLY <3>12, <3>14
    <3>. QED
      BY ONLY <3>15, <3>16
  <2>. QED
    BY ONLY <1>1, <2>5, <2>6, Zenon
<1>3. CASE ~Amount(k)!NoNumber(s)
  <2>1. PICK i, g, d, key,
               a : /\ i = Amount(k)!IntegerPart(s) /\ g = Amount(k)!Grouped(i) /\ d = Amount(k)!DecimalPart(s)
                               /\ key = (IF Amount(k)!Negative(s) /\ ~Amount(k)!IsZero(s) THEN 1 ELSE 0)
                               /\ a = (IF Amount(k)!Negative(s) /\ ~Amount(k)!IsZero(s) THEN <<"-">>
                                    ELSE <<>>)
    OBVIOUS
  <2>2. t = a \o g \o <<".">> \o d
    BY ONLY <1>1, <1>3, <2>1, Zenon DEF Amount!Formatted
  <2>3. /\ i \in Seq(Amount(k)!Chars) /\ i # <<>> /\ (\A j \in 1..Len(i) : i[j] \in Amount(k)!Digit)
        /\ Amount(k)!NumberOf(i) = Amount(k)!NumberOf(Amount(k)!Whole(s))
    BY <2>1, AmountIntegerPartIs
  <2>4. /\ d \in Seq(Amount(k)!Chars) /\ Len(d) \in 1..2 /\ (\A j \in 1..Len(d) : d[j] \in Amount(k)!Digit)
        /\ SubSeq(d \o <<"0", "0">>, 1, 2) = SubSeq(Amount(k)!Fraction(s) \o <<"0", "0">>, 1, 2)
    BY <2>1, AmountDecimalPartIs, Zenon
  <2>5. key \in 0..1 /\ (key = 1 <=> Amount(k)!Negative(s) /\ ~Amount(k)!IsZero(s))
    <3>1. CASE Amount(k)!Negative(s) /\ ~Amount(k)!IsZero(s)
      BY <2>1, <3>1
    <3>2. CASE ~(Amount(k)!Negative(s) /\ ~Amount(k)!IsZero(s))
      BY <2>1, <3>2
    <3>. QED
      BY <3>1, <3>2
  <2>6. a \in Seq(Amount(k)!Chars) /\ Len(a) = key /\ (key = 1 => a[1] = "-")
    <3>1. <<"-">> \in Seq(Amount(k)!Chars) /\ Len(<<"-">>) = 1 /\ <<"-">>[1] = "-"
      BY DEF Amount!Chars
    <3>2. <<>> \in Seq(Amount(k)!Chars) /\ Len(<<>>) = 0 /\ 0 # 1
      OBVIOUS
    <3>3. CASE Amount(k)!Negative(s) /\ ~Amount(k)!IsZero(s)
      BY <2>1, <3>1, <3>3, Zenon
    <3>4. CASE ~(Amount(k)!Negative(s) /\ ~Amount(k)!IsZero(s))
      <4>1. key = 0 /\ a = <<>>
        BY <2>1, <3>4, Zenon
      <4>2. key # 1
        BY <4>1
      <4>. QED
        BY <3>2, <4>1, <4>2, Zenon
    <3>. QED
      BY <3>3, <3>4
  <2>7. PICK l \in Nat : /\ g \in Seq(Amount(k)!Chars) /\ Len(g) = l /\ Amount(k)!WellSpaced(g, l)
                         /\ Amount(k)!Only(Amount(k)!Digit, g) = i /\ l % 4 # 0 /\ l >= 1
    BY <2>1, <2>3, AmountGroupedIs
  <2>8. Amount(k)!Parts(key, g, d)
    <3>1. Len(g) \in Nat \ {0} /\ Len(g) % 4 # 0 /\ Amount(k)!WellSpaced(g, Len(g))
      BY <2>7
    <3>. QED
      BY <2>4, <2>5, <2>7, <3>1, Zenon DEF Amount!Parts
  <2>9. Amount(k)!Written(t, key, g, d) /\ Amount(k)!Whole(t) = i
    <3>1. key \in 0..1 /\ a \in Seq(Amount(k)!Chars) /\ g \in Seq(Amount(k)!Chars)
            /\ d \in Seq(Amount(k)!Chars)
      BY <2>4, <2>5, <2>6, <2>7, Zenon
    <3>4. Amount(k)!Sign(a, key)
      BY ONLY <2>6, Zenon DEF Amount!Sign
    <3>2. Amount(k)!Written(t, key, g, d)
      BY ONLY <2>2, <2>8, <3>1, <3>4, AmountComposed, Zenon
    <3>3. Amount(k)!WholeIn(g, t)
      BY ONLY <2>2, <2>8, <3>1, <3>4, AmountComposed, Zenon
    <3>. QED
      BY <2>7, <3>2, <3>3, Zenon DEF Amount!WholeIn
  <2>10. /\ Amount(k)!FirstDot(t) = key + Len(g) + 1 /\ Amount(k)!HasDot(t) /\ \A x,
              y \in Amount(k)!Places(".", t) : x = y
         /\ t \in Seq(Amount(k)!Chars) /\ Len(t) - Amount(k)!FirstDot(t) \in 1..2 /\ Amount(k)!Fraction(t) = d
         /\ Amount(k)!Negative(t) <=> key = 1
         /\ Amount(k)!WellGrouped(t)
    <3>1. Amount(k)!ReadAs(t, key, g, d)
      BY ONLY <2>4, <2>5, <2>7, <2>9, AmountReadAsWritten, Zenon
    <3>. QED
      BY <3>1, Zenon DEF Amount!ReadAs
  <2>11. Amount(k)!Cents(t) = Amount(k)!Cents(s)
    <3>1. Amount(k)!NumberOf(Amount(k)!Whole(t)) = Amount(k)!NumberOf(Amount(k)!Whole(s))
      BY <2>3, <2>9, Zenon
    <3>2. SubSeq(Amount(k)!Fraction(t) \o <<"0", "0">>, 1, 2)
            = SubSeq(Amount(k)!Fraction(s) \o <<"0", "0">>, 1, 2)
      BY <2>4, <2>10, Zenon
    <3>3. Amount(k)!Negative(t) <=> Amount(k)!Negative(s) /\ ~Amount(k)!IsZero(s)
      BY <2>5, <2>10, Zenon
    <3>. QED
      BY <2>10, <3>1, <3>2, <3>3, AmountSameCents, Zenon
  <2>. QED
    BY ONLY <1>1, <2>10, <2>11, Zenon
<1>. QED
  BY <1>2, <1>3

-----------------------------------------------------------------------------
(* One point between texts without one.                                    *)
LEMMA AmountPointBetween ==
  ASSUME NEW k \in DOMAIN AmountFields, NEW a \in Seq(Amount(k)!Chars), NEW b \in Seq(Amount(k)!Chars),
         \A i \in 1..Len(a) : a[i] # ".", \A i \in 1..Len(b) : b[i] # ".",
         NEW t, t = a \o <<".">> \o b
  PROVE  t \in Seq(Amount(k)!Chars) /\ \A i, j \in Amount(k)!Places(".", t) : i = j
<1>1. PICK c, u : c = <<".">> /\ u = a \o c
  OBVIOUS
<1>2. c \in Seq(Amount(k)!Chars) /\ Len(c) = 1
  BY <1>1 DEF Amount!Chars
<1>3. /\ u \in Seq(Amount(k)!Chars) /\ Len(u) = Len(a) + Len(c)
      /\ \A i \in 1..Len(a) : u[i] = a[i]
  <2>1. Amount(k)!Joined(u, a, c)
    BY <1>1, <1>2, AmountJoinedIs, Zenon
  <2>. QED
    BY <2>1, Zenon DEF Amount!Joined
<1>4. t = u \o b
  BY <1>1, Zenon
<1>6. /\ t \in Seq(Amount(k)!Chars) /\ Len(t) = Len(u) + Len(b)
      /\ \A i \in 1..Len(u) : t[i] = u[i]
      /\ \A i \in 1..Len(b) : t[Len(u) + i] = b[i]
  <2>1. Amount(k)!Joined(t, u, b)
    BY <1>3, <1>4, AmountJoinedIs, Zenon
  <2>. QED
    BY <2>1, Zenon DEF Amount!Joined
<1>7. PICK p \in Nat, n \in Nat : p = Len(u) /\ p = Len(a) + 1 /\ n = Len(b)
  BY <1>2, <1>3
<1>8. ASSUME NEW i \in Amount(k)!Places(".", t)
      PROVE  i = p
  <2>1. i \in 1..(p + n) /\ t[i] = "."
    BY <1>6, <1>7 DEF Amount!Places
  <2>2. CASE i < p
    <3>1. i \in 1..Len(a) /\ i \in 1..Len(u)
      BY <1>7, <2>1, <2>2
    <3>. QED
      BY <1>3, <1>6, <2>1, <3>1
  <2>3. CASE i > p
    <3>1. PICK j : j = i - p
      OBVIOUS
    <3>2. j \in 1..Len(b) /\ Len(u) + j = i
      BY <1>7, <2>1, <2>3, <3>1
    <3>. QED
      BY <1>6, <2>1, <3>2
  <2>. QED
    BY <2>1, <2>2, <2>3
<1>. QED
  BY <1>6, <1>8

(* The restriction leaves one point at most.                               *)
LEMMA AmountRestrictedIs ==
  ASSUME NEW k \in DOMAIN AmountFields, NEW s \in Seq(Amount(k)!Chars)
  PROVE  Amount(k)!Restricted(s) \in Seq(Amount(k)!Chars) /\ \A i,
           j \in Amount(k)!Places(".", Amount(k)!Restricted(s)) : i = j
<1>1. PICK o, r, f, t, n, c :
        /\ o = Amount(k)!Only(Amount(k)!Digit \cup {"."}, s)
             /\ r = SubSeq(o, Amount(k)!FirstDot(o) + 1, Len(o))
                  /\ f = SubSeq(r, 1, Amount(k)!FirstDot(r) - 1)
        /\ t = Amount(k)!Restricted(s) /\ n = SubSeq(f, 1, 2) /\ c = Amount(k)!Fraction(o)
  OBVIOUS
<1>2. t = IF ~Amount(k)!HasDot(o) THEN o ELSE Amount(k)!Whole(o) \o <<".">> \o (IF Len(f) > 2 THEN n ELSE c)
  BY ONLY <1>1, Zenon DEF Amount!Restricted
<1>3. o \in Seq(Amount(k)!Chars)
  BY <1>1, AmountOnlyInside
<1>4. CASE ~Amount(k)!HasDot(o)
  <2>1. t = o /\ Amount(k)!Places(".", o) = {}
    BY <1>2, <1>4, Zenon DEF Amount!HasDot
  <2>. QED
    BY <1>1, <1>3, <2>1
<1>5. CASE Amount(k)!HasDot(o)
  <2>1. PICK w, d : w = Amount(k)!Whole(o) /\ d = IF Len(f) > 2 THEN n ELSE c
    OBVIOUS
  <2>2. t = w \o <<".">> \o d
    BY ONLY <1>2, <1>5, <2>1, Zenon
  <2>3. "." \notin Amount(k)!Digit
    BY DEF Amount!Digit
  <2>4. w \in Seq(Amount(k)!Chars) /\ \A i \in 1..Len(w) : w[i] # "."
    BY <1>3, <2>1, <2>3, AmountWholeIs
  <2>5. d \in Seq(Amount(k)!Chars) /\ \A i \in 1..Len(d) : d[i] # "."
    <3>1. CASE Len(f) > 2
      <4>1. r \in Seq(Amount(k)!Chars)
        <5>1. Amount(k)!FirstDot(o) + 1 \in 1..Len(o) + 2 /\ Len(o) \in 0..Len(o)
          BY <1>3, AmountFirstDotIs
        <5>. QED
          BY <1>1, <1>3, <5>1, AmountSliceIs
      <4>2. PICK q : q = Amount(k)!FirstDot(r)
        OBVIOUS
      <4>3. q \in 1..Len(r) + 1 /\ Len(r) \in Nat /\ \A j \in 1..q - 1 : r[j] # "."
        BY <4>1, <4>2, AmountFirstDotIs
      <4>4. f = SubSeq(r, 1, q - 1)
        BY <1>1, <4>2
      <4>5. f \in Seq(Amount(k)!Chars) /\ Len(f) = q - 1 /\ \A j \in 1..Len(f) : f[j] = r[j]
        BY <4>1, <4>3, <4>4
      <4>6. n \in Seq(Amount(k)!Chars) /\ Len(n) = 2 /\ \A j \in 1..2 : n[j] = f[j] /\ j \in 1..Len(f)
        <5>1. n = SubSeq(f, 1, 2) /\ f \in Seq(Amount(k)!Chars) /\ Len(f) > 2
          BY <1>1, <3>1, <4>5, Zenon
        <5>2. Len(f) \in Nat
          BY <4>5
        <5>. QED
          BY ONLY <5>1, <5>2
      <4>7. d = n
        BY <2>1, <3>1, Zenon
      <4>. QED
        BY <4>3, <4>5, <4>6, <4>7
    <3>2. CASE ~(Len(f) > 2)
      <4>1. d = c
        BY <2>1, <3>2, Zenon
      <4>. QED
        BY <1>1, <1>3, <2>3, <4>1, AmountFractionIs
    <3>. QED
      BY <3>1, <3>2
  <2>. QED
    BY <1>1, <2>2, <2>4, <2>5, AmountPointBetween
<1>. QED
  BY <1>4, <1>5

(* A character is typed into a text.                                       *)
LEMMA AmountInserted ==
  ASSUME NEW k \in DOMAIN AmountFields, NEW v \in Seq(Amount(k)!Chars), NEW n \in 0..Len(v),
         NEW c \in Amount(k)!Chars,
         NEW t, t = SubSeq(v, 1, n) \o <<c>> \o SubSeq(v, n + 1, Len(v))
  PROVE  Amount(k)!Typed(t, v, n, c)
<1>1. PICK a, b, e, u : a = SubSeq(v, 1, n) /\ b = SubSeq(v, n + 1, Len(v)) /\ e = <<c>> /\ u = a \o e
  OBVIOUS
<1>2. PICK l \in Nat : l = Len(v) /\ n <= l /\ n \in Nat
  OBVIOUS
<1>3. a \in Seq(Amount(k)!Chars) /\ Len(a) = n /\ \A i \in 1..n : a[i] = v[i]
  BY <1>1, <1>2
<1>4. b \in Seq(Amount(k)!Chars) /\ Len(b) = l - n /\ \A i \in 1..Len(b) : b[i] = v[n + i]
  BY <1>1, <1>2
<1>5. e \in Seq(Amount(k)!Chars) /\ Len(e) = 1 /\ e[1] = c
  BY <1>1
<1>6. /\ u \in Seq(Amount(k)!Chars) /\ Len(u) = Len(a) + Len(e)
      /\ \A i \in 1..Len(a) : u[i] = a[i]
      /\ \A i \in 1..Len(e) : u[Len(a) + i] = e[i]
  <2>1. Amount(k)!Joined(u, a, e)
    BY <1>1, <1>3, <1>5, AmountJoinedIs, Zenon
  <2>. QED
    BY <2>1, Zenon DEF Amount!Joined
<1>7. t = u \o b
  BY <1>1, Zenon
<1>9. /\ t \in Seq(Amount(k)!Chars) /\ Len(t) = Len(u) + Len(b)
      /\ \A i \in 1..Len(u) : t[i] = u[i]
      /\ \A i \in 1..Len(b) : t[Len(u) + i] = b[i]
  <2>1. Amount(k)!Joined(t, u, b)
    BY <1>4, <1>6, <1>7, AmountJoinedIs, Zenon
  <2>. QED
    BY <2>1, Zenon DEF Amount!Joined
<1>10. Len(u) = n + 1 /\ Len(t) = l + 1 /\ n + 1 \in 1..Len(u) /\ 1 \in 1..Len(e) /\ Len(a) + 1 = n + 1
  <2>1. Len(u) = n + 1 /\ Len(b) = l - n /\ Len(t) = Len(u) + Len(b) /\ Len(e) = 1 /\ Len(a) = n
    BY <1>3, <1>4, <1>5, <1>6, <1>9, Zenon
  <2>2. l \in Nat /\ n \in Nat
    BY <1>2
  <2>. QED
    BY ONLY <2>1, <2>2
<1>11. t[n + 1] = c
  BY <1>5, <1>6, <1>9, <1>10
<1>12. ASSUME NEW i \in 1..Len(t), i # n + 1
       PROVE  t[i] = v[IF i <= n THEN i ELSE i - 1]
  <2>1. CASE i <= n
    <3>1. i \in 1..n /\ i \in 1..Len(u)
      BY <1>2, <1>10, <2>1
    <3>2. t[i] = v[i]
      BY <1>3, <1>6, <1>9, <3>1
    <3>. QED
      BY <2>1, <3>2
  <2>2. CASE ~(i <= n)
    <3>1. PICK j : j = i - (n + 1)
      OBVIOUS
    <3>2. j \in 1..Len(b) /\ Len(u) + j = i /\ n + j = i - 1
      <4>1. Len(b) = l - n /\ Len(u) = n + 1 /\ Len(t) = l + 1
        BY <1>4, <1>10
      <4>2. l \in Nat /\ n \in Nat /\ i \in 1..Len(t) /\ i # n + 1
        BY <1>2, <1>12
      <4>. QED
        BY ONLY <2>2, <3>1, <4>1, <4>2
    <3>3. t[i] = v[i - 1]
      BY <1>4, <1>9, <3>2
    <3>. QED
      BY <2>2, <3>3
  <2>. QED
    BY <2>1, <2>2
<1>. QED
  BY <1>2, <1>9, <1>10, <1>11, <1>12 DEF Amount!Typed

-----------------------------------------------------------------------------
(* What a change makes of a text.                                          *)
LEMMA AmountNewTextIs ==
  ASSUME NEW k \in DOMAIN AmountFields, NEW s \in Seq(Amount(k)!Chars)
  PROVE  /\ Amount(k)!NewText(s) \in Seq(Amount(k)!Chars)
         /\ (\A i, j \in Amount(k)!Places(".", s) : i = j) => \A i,
              j \in Amount(k)!Places(".", Amount(k)!NewText(s)) : i = j
         /\ ~AmountFields[k].Restricts => Amount(k)!Cents(Amount(k)!NewText(s)) = Amount(k)!Cents(s)
         /\ ~AmountFields[k].Restricts /\ s # <<>> => Amount(k)!NewText(s) = Amount(k)!Formatted(s)
<1>1. PICK t, r, f : t = Amount(k)!NewText(s) /\ r = Amount(k)!Restricted(s) /\ f = Amount(k)!Formatted(s)
  OBVIOUS
<1>2. t = CASE AmountFields[k].Restricts /\ r # s -> r
            [] s = <<>> -> s
            [] OTHER -> f
  BY ONLY <1>1, Zenon DEF Amount!NewText
<1>3. r \in Seq(Amount(k)!Chars) /\ \A i, j \in Amount(k)!Places(".", r) : i = j
  BY <1>1, AmountRestrictedIs, Zenon
<1>4. f \in Seq(Amount(k)!Chars) /\ (\A i, j \in Amount(k)!Places(".", f) : i = j)
        /\ Amount(k)!Cents(f) = Amount(k)!Cents(s)
  BY <1>1, AmountFormattedIs, Zenon
<1>5. (AmountFields[k].Restricts /\ t = r) \/ (t = s /\ s = <<>>) \/ (t = f /\ s # <<>>)
  BY ONLY <1>2
<1>. QED
  BY <1>1, <1>3, <1>4, <1>5, Zenon

LEMMA AmountNewCaretIs ==
  ASSUME NEW k \in DOMAIN AmountFields, NEW s \in Seq(Amount(k)!Chars), NEW t \in Seq(Amount(k)!Chars)
  PROVE  Amount(k)!NewCaret(s, t) \in 0..Len(t)
<1>. DEFINE before == Amount(k)!Cardinality({i \in 1..x2 : s[i] # Amount(k)!Comma})
            S == {i \in 1..Len(t) : Amount(k)!Cardinality({j \in 1..i : t[j] # Amount(k)!Comma}) >= before}
<1>1. PICK m : m = CHOOSE i \in S : \A j \in S : i <= j
  OBVIOUS
<1>2. Amount(k)!NewCaret(s, t) = IF S = {} THEN 0 ELSE m
  <2>1. Amount(k)!NewCaret(s, t) = IF S = {} THEN 0 ELSE CHOOSE i \in S : \A j \in S : i <= j
    BY DEF Amount!NewCaret
  <2>. HIDE DEF S
  <2>. QED
    BY <1>1, <2>1
<1>3. S \subseteq 1..Len(t) /\ S \subseteq Nat /\ Len(t) \in Nat
  OBVIOUS
<1>. HIDE DEF S
<1>4. CASE S = {}
  BY <1>2, <1>3, <1>4
<1>5. CASE S # {}
  <2>1. PICK i \in S : \A j \in S : i <= j
    BY <1>3, <1>5, AmountLeastExists
  <2>2. m \in S
    BY <1>1, <2>1, Zenon
  <2>. QED
    BY <1>2, <1>3, <1>5, <2>2
<1>. QED
  BY <1>4, <1>5

LEMMA AmountHolds ==
  ASSUME NEW k \in DOMAIN AmountFields, x1' \in Seq(Amount(k)!Chars), x2' \in 0..Len(x1'), x3' \in BOOLEAN,
         x4' \in BOOLEAN,
         AmountFields[k].KeyFilter /\ ~x4' => \A i, j \in Amount(k)!Places(".", x1') : i = j
  PROVE  Amount(k)!IInv'
BY DEF Amount!IInv, Amount!TypeOK, Amount!OnePoint

LEMMA AmountInitIInv ==
  ASSUME NEW k \in DOMAIN AmountFields, Amount(k)!AmountInputAssumption, Amount(k)!Init
  PROVE  Amount(k)!IInv
<1>1. x1 \in Seq(Amount(k)!Chars) /\ Len(x1) = 0 /\ x2 = 0 /\ x3 = FALSE /\ x4 = FALSE
  BY DEF Amount!Init
<1>2. Amount(k)!Places(".", x1) = {}
  BY <1>1 DEF Amount!Places
<1>3. x2 \in 0..Len(x1)
  <2>1. 0 \in 0..0
    OBVIOUS
  <2>. QED
    BY <1>1, <2>1, Zenon
<1>4. x3 \in BOOLEAN /\ x4 \in BOOLEAN
  BY <1>1, Zenon
<1>. QED
  BY <1>1, <1>2, <1>3, <1>4, Zenon DEF Amount!IInv, Amount!TypeOK, Amount!OnePoint

LEMMA AmountKeyKeeps ==
  ASSUME NEW k \in DOMAIN AmountFields, Amount(k)!AmountInputAssumption, Amount(k)!IInv,
         NEW c \in AmountFields[k].Digits \cup {".", "-"}, Amount(k)!Key(c)
  PROVE  Amount(k)!IInv'
<1>1. x1 \in Seq(Amount(k)!Chars) /\ x2 \in 0..Len(x1) /\ x4 \in BOOLEAN
  BY DEF Amount!IInv, Amount!TypeOK
<1>2. c \in Amount(k)!Chars
  BY DEF Amount!AmountInputAssumption, Amount!Chars
<1>3. x4' = x4 /\ x3' = FALSE
  BY DEF Amount!Key
<1>4. CASE x3
  <2>1. x1' = <<c>> /\ x2' = 1
    BY <1>4 DEF Amount!Key
  <2>2. PICK t : t = <<c>>
    OBVIOUS
  <2>3. t \in Seq(Amount(k)!Chars) /\ Len(t) = 1
    BY <1>2, <2>2
  <2>4. \A i, j \in Amount(k)!Places(".", t) : i = j
    BY <2>3 DEF Amount!Places
  <2>5. x1' = t
    BY <2>1, <2>2
  <2>6. x2' \in 0..Len(t)
    BY <2>1, <2>3
  <2>. QED
    BY <1>1, <1>3, <2>3, <2>4, <2>5, <2>6, AmountHolds, Zenon
<1>5. CASE ~x3
  <2>1. PICK v, n : v = x1 /\ n = x2
    OBVIOUS
  <2>2. PICK t : t = SubSeq(v, 1, n) \o <<c>> \o SubSeq(v, n + 1, Len(v))
    OBVIOUS
  <2>3. x1' = t /\ x2' = n + 1
    BY <1>5, <2>1, <2>2, Zenon DEF Amount!Key
  <2>4. v \in Seq(Amount(k)!Chars) /\ n \in 0..Len(v) /\ Len(v) \in Nat
    BY <1>1, <2>1
  <2>5. /\ t \in Seq(Amount(k)!Chars) /\ Len(t) = Len(v) + 1 /\ t[n + 1] = c
        /\ \A i \in 1..Len(t) : i # n + 1 => t[i] = v[IF i <= n THEN i ELSE i - 1]
    <3>1. Amount(k)!Typed(t, v, n, c)
      BY ONLY <1>2, <2>2, <2>4, AmountInserted, Zenon
    <3>. QED
      BY <3>1, Zenon DEF Amount!Typed
  <2>6. n + 1 \in 0..Len(t)
    BY <2>4, <2>5
  <2>7. ASSUME AmountFields[k].KeyFilter, ~x4
        PROVE  \A i, j \in Amount(k)!Places(".", t) : i = j
    <3>1. \A i, j \in Amount(k)!Places(".", v) : i = j
      BY <2>1, <2>7 DEF Amount!IInv, Amount!OnePoint
    <3>2. c = "." => Amount(k)!Places(".", v) = {}
      BY <2>1, <2>7 DEF Amount!Key, Amount!Blocks, Amount!HasDot
    <3>3. ASSUME NEW i \in Amount(k)!Places(".", t), i # n + 1
          PROVE  (IF i <= n THEN i ELSE i - 1) \in Amount(k)!Places(".", v)
      <4>1. i \in 1..Len(t) /\ t[i] = "."
        BY DEF Amount!Places
      <4>2. (IF i <= n THEN i ELSE i - 1) \in 1..Len(v)
        BY <2>4, <2>5, <3>3, <4>1
      <4>. QED
        BY <2>5, <3>3, <4>1, <4>2 DEF Amount!Places
    <3>4. ASSUME NEW i \in Amount(k)!Places(".", t), NEW j \in Amount(k)!Places(".", t)
          PROVE  i = j
      <4>1. i \in Nat /\ j \in Nat
        BY <2>5 DEF Amount!Places
      <4>2. CASE c = "."
        BY <3>2, <3>3, <4>2
      <4>3. CASE c # "."
        <5>1. i # n + 1 /\ j # n + 1
          BY <2>5, <4>3 DEF Amount!Places
        <5>2. (IF i <= n THEN i ELSE i - 1) = (IF j <= n THEN j ELSE j - 1)
          BY <3>1, <3>3, <5>1
        <5>. QED
          BY <2>4, <4>1, <5>1, <5>2
      <4>. QED
        BY <4>2, <4>3
    <3>. QED
      BY <3>4
  <2>. QED
    BY <1>1, <1>3, <2>3, <2>5, <2>6, <2>7, AmountHolds, Zenon
<1>. QED
  BY <1>4, <1>5

LEMMA AmountPasteKeeps ==
  ASSUME NEW k \in DOMAIN AmountFields, Amount(k)!AmountInputAssumption, Amount(k)!IInv,
         NEW t \in AmountFields[k].Pasted, Amount(k)!Paste(t)
  PROVE  Amount(k)!IInv'
<1>1. t \in Seq(Amount(k)!Chars) /\ x1' = t /\ x2' = Len(t) /\ x3' = FALSE /\ x4' = TRUE
  BY DEF Amount!AmountInputAssumption, Amount!Paste
<1>2. Len(t) \in 0..Len(t)
  BY <1>1
<1>. QED
  BY <1>1, <1>2, AmountHolds, Zenon

LEMMA AmountChangeKeeps ==
  ASSUME NEW k \in DOMAIN AmountFields, Amount(k)!AmountInputAssumption, Amount(k)!IInv, Amount(k)!Change
  PROVE  Amount(k)!IInv' /\ Amount(k)!ChangeKeepsAmount /\ Amount(k)!FormattedIsReadable
<1>1. PICK v, t : v = x1 /\ t = Amount(k)!NewText(v)
  OBVIOUS
<1>2. x1' = t /\ x3' = FALSE /\ x4' = x4
  BY <1>1, Zenon DEF Amount!Change
<1>3. v \in Seq(Amount(k)!Chars) /\ x4 \in BOOLEAN
        /\ (AmountFields[k].KeyFilter /\ ~x4 => \A i, j \in Amount(k)!Places(".", v) : i = j)
  BY <1>1 DEF Amount!IInv, Amount!TypeOK, Amount!OnePoint
<1>4. /\ t \in Seq(Amount(k)!Chars)
      /\ (\A i, j \in Amount(k)!Places(".", v) : i = j) => \A i, j \in Amount(k)!Places(".", t) : i = j
      /\ ~AmountFields[k].Restricts => Amount(k)!Cents(t) = Amount(k)!Cents(v)
      /\ ~AmountFields[k].Restricts /\ v # <<>> => t = Amount(k)!Formatted(v)
  BY <1>1, <1>3, AmountNewTextIs, Zenon
<1>5. x2' \in 0..Len(t)
  <2>1. Amount(k)!NewCaret(v, t) \in 0..Len(t)
    BY <1>3, <1>4, AmountNewCaretIs
  <2>2. Len(t) \in 0..Len(t)
    BY <1>4
  <2>3. x2' = Len(t) \/ x2' = Amount(k)!NewCaret(v, t)
    BY <1>1, <1>2, Zenon DEF Amount!Change
  <2>. QED
    BY <2>1, <2>2, <2>3, Zenon
<1>6. Amount(k)!IInv'
  BY <1>2, <1>3, <1>4, <1>5, AmountHolds, Zenon
<1>7. Amount(k)!ChangeKeepsAmount
  BY <1>1, <1>2, <1>4, Zenon DEF Amount!ChangeKeepsAmount
<1>8. Amount(k)!FormattedIsReadable
  <2>1. ASSUME ~AmountFields[k].Restricts, v # <<>>
        PROVE  Amount(k)!WellGrouped(t) /\ Amount(k)!HasDot(t) /\ Len(t) - Amount(k)!FirstDot(t) \in 1..2
    BY <1>3, <1>4, <2>1, AmountFormattedIs, Zenon
  <2>. QED
    BY <1>1, <1>2, <2>1, Zenon DEF Amount!FormattedIsReadable
<1>. QED
  BY <1>6, <1>7, <1>8

LEMMA AmountCaretMoves ==
  ASSUME NEW k \in DOMAIN AmountFields, Amount(k)!IInv, x1' = x1, x4' = x4, x2' \in 0..Len(x1),
         x3' \in BOOLEAN
  PROVE  Amount(k)!IInv'
BY AmountHolds DEF Amount!IInv, Amount!TypeOK, Amount!OnePoint

(* The handlers of the field keep the invariant, and a change formats the  *)
(* amount it finds.                                                        *)
LEMMA AmountNextIInv ==
  ASSUME NEW k \in DOMAIN AmountFields, Amount(k)!AmountInputAssumption, Amount(k)!IInv,
         Amount(k)!Next \/ UNCHANGED Amount(k)!vars
  PROVE  Amount(k)!IInv' /\ Amount(k)!ChangeKeepsAmount /\ Amount(k)!FormattedIsReadable
<1>1. /\ x1 \in Seq(Amount(k)!Chars) /\ x2 \in 0..Len(x1) /\ x3 \in BOOLEAN /\ x4 \in BOOLEAN
      /\ AmountFields[k].KeyFilter /\ ~x4 => \A i, j \in Amount(k)!Places(".", x1) : i = j
  BY DEF Amount!IInv, Amount!TypeOK, Amount!OnePoint
<1>3. ASSUME NEW n \in 0..AmountFields[k].MaxLen, Amount(k)!MoveCaret(n)
      PROVE  Amount(k)!IInv'
  <2>1. x2' \in 0..Len(x1) /\ x3' = FALSE /\ FALSE \in BOOLEAN /\ x1' = x1 /\ x4' = x4
    BY <1>3 DEF Amount!MoveCaret
  <2>. QED
    BY <2>1, AmountCaretMoves
<1>4. ASSUME Amount(k)!SelectAll
      PROVE  Amount(k)!IInv'
  <2>1. 0 \in 0..Len(x1) /\ TRUE \in BOOLEAN
    BY <1>1
  <2>2. x1' = x1 /\ x4' = x4 /\ x2' = 0 /\ x3' = TRUE
    BY <1>4, Zenon DEF Amount!SelectAll
  <2>3. x1' = x1 /\ x4' = x4 /\ x2' \in 0..Len(x1) /\ x3' \in BOOLEAN
    BY <2>1, <2>2
  <2>. QED
    BY <2>3, AmountCaretMoves
<1>5. ASSUME UNCHANGED Amount(k)!vars
      PROVE  Amount(k)!IInv'
  <2>1. x1' = x1 /\ x4' = x4 /\ x2' = x2 /\ x3' = x3
    BY <1>5, Zenon DEF Amount!vars
  <2>2. x1' = x1 /\ x4' = x4 /\ x2' \in 0..Len(x1) /\ x3' \in BOOLEAN
    BY <1>1, <2>1
  <2>. QED
    BY <2>2, AmountCaretMoves
<1>6. Amount(k)!IInv'
  BY <1>3, <1>4, <1>5, AmountKeyKeeps, AmountPasteKeeps, AmountChangeKeeps DEF
      Amount!Next
<1>7. Amount(k)!ChangeKeepsAmount /\ Amount(k)!FormattedIsReadable
  <2>1. CASE Amount(k)!Change
    BY <2>1, AmountChangeKeeps
  <2>2. CASE ~Amount(k)!Change
    BY <2>2, Zenon DEF Amount!ChangeKeepsAmount, Amount!FormattedIsReadable
  <2>. QED
    BY <2>1, <2>2
<1>. QED
  BY <1>6, <1>7

LEMMA AmountIInvImplies ==
  ASSUME NEW k \in DOMAIN AmountFields, Amount(k)!IInv
  PROVE  Amount(k)!TypeOK /\ Amount(k)!OnePoint
BY DEF Amount!IInv

(* The invariant of the pages of this script. *)
AmountInv == \A k \in On("amount", AmountFields) : Amount(k)!IInv

LEMMA AmountBegins ==
  ASSUME MemberInit
  PROVE  AmountInv
<1>. SUFFICES ASSUME NEW k \in On("amount", AmountFields)
         PROVE  Amount(k)!IInv
  BY DEF AmountInv
<1>1. k \in DOMAIN AmountFields /\ script = "amount" /\ page = k
  BY DEF On
<1>2. Amount(k)!Init
  BY <1>1 DEF MemberInit
<1>3. Amount(k)!AmountInputAssumption
  BY <1>1, MemberPagesAreSound DEF MemberPagesAssumption
<1>. QED
  BY <1>1, <1>2, AmountInitIInv, <1>3

LEMMA AmountGoesOn ==
  ASSUME AmountInv, MemberStep
  PROVE  /\ AmountInv'
         /\ \A k \in On("amount", AmountFields) : Amount(k)!ChangeKeepsAmount
         /\ \A k \in On("amount", AmountFields) : Amount(k)!FormattedIsReadable
<1>1. script' = script /\ page' = page
  BY CountingStays
<1>2. ASSUME NEW k \in On("amount", AmountFields)
      PROVE  Amount(k)!IInv' /\ Amount(k)!ChangeKeepsAmount /\ Amount(k)!FormattedIsReadable
  <2>1. k \in DOMAIN AmountFields /\ script = "amount" /\ page = k
    BY DEF On
  <2>2. Amount(k)!Next \/ UNCHANGED Amount(k)!vars
    BY <2>1 DEF MemberStep, MemberNext, On, vars, Amount!vars
  <2>3. Amount(k)!AmountInputAssumption
    BY <2>1, MemberPagesAreSound DEF MemberPagesAssumption
  <2>4. Amount(k)!IInv
    BY DEF AmountInv
  <2>. QED
    BY <2>1, <2>2, AmountNextIInv, <2>3, <2>4
<1>3. On("amount", AmountFields)' = On("amount", AmountFields)
  BY <1>1 DEF On
<1>. QED
  BY <1>2, <1>3 DEF AmountInv

LEMMA AmountShows ==
  ASSUME AmountInv
  PROVE  /\ \A k \in On("amount", AmountFields) : Amount(k)!TypeOK
         /\ \A k \in On("amount", AmountFields) : Amount(k)!OnePoint
<1>. SUFFICES ASSUME NEW k \in On("amount", AmountFields)
         PROVE  Amount(k)!TypeOK /\ Amount(k)!OnePoint
  OBVIOUS
<1>1. k \in DOMAIN AmountFields /\ Amount(k)!IInv
  BY DEF On, AmountInv
<1>. QED
  BY <1>1, AmountIInvImplies

-----------------------------------------------------------------------------
(***************************************************************************)
(* NumberFormat (Cells): x1 is rows, x2 is total, x3 is cell, x4 is foot,  *)
(* x5 is badge.                                                            *)
(***************************************************************************)
LEMMA CellsValueExists ==
  ASSUME NEW k \in DOMAIN MoneyTables, NEW w \in Nat, NEW c \in Seq(Int)
  PROVE  \E f : Cells(k)!IsValue(f, w, c, Len(c))
<1>. DEFINE T == {n \in Nat : n <= Len(c) => \E f : Cells(k)!IsValue(f, w, c, n)}
<1>1. 0 \in T
  <2>1. Cells(k)!IsValue([i \in 0..0 |-> 0], w, c, 0)
    BY DEF Cells!IsValue, Cells!Follows
  <2>. QED
    BY <2>1
<1>2. ASSUME NEW n \in T
      PROVE  n + 1 \in T
  <2>. SUFFICES ASSUME n + 1 <= Len(c)
                PROVE  \E f : Cells(k)!IsValue(f, w, c, n + 1)
    OBVIOUS
  <2>0. n \in Nat /\ Len(c) \in Nat /\ n <= Len(c)
    OBVIOUS
  <2>1. PICK f : Cells(k)!IsValue(f, w, c, n)
    BY <2>0
  <2>2. PICK g : g = [i \in 0..(n + 1) |-> IF i = n + 1 THEN w * f[n] + c[n + 1] ELSE f[i]]
    BY Zenon
  <2>3. c[n + 1] \in Int /\ f[n] \in Int /\ w * f[n] \in Int
    <3>1. c[n + 1] \in Int /\ f[n] \in Int
      BY <2>0, <2>1 DEF Cells!IsValue, Cells!Follows
    <3>. QED
      BY <3>1
  <2>4. g \in [0..(n + 1) -> Int] /\ g[0] = 0
    BY <2>0, <2>1, <2>2, <2>3, SMTT(30) DEF Cells!IsValue, Cells!Follows
  <2>5. \A i \in 1..(n + 1) : g[i] = w * g[i - 1] + c[i]
    <3>. SUFFICES ASSUME NEW i \in 1..(n + 1)
                  PROVE  g[i] = w * g[i - 1] + c[i]
      OBVIOUS
    <3>1. CASE i = n + 1
      <4>1. g[n] = f[n] /\ g[n + 1] = w * f[n] + c[n + 1] /\ i - 1 = n
        BY <2>0, <2>2, <3>1
      <4>. QED
        BY <3>1, <4>1
    <3>2. CASE i \in 1..n
      <4>1. g[i] = f[i] /\ g[i - 1] = f[i - 1]
        BY <2>0, <2>2, <3>2
      <4>2. f[i] = w * f[i - 1] + c[i]
        BY <2>1, <3>2 DEF Cells!IsValue, Cells!Follows
      <4>. QED
        BY <4>1, <4>2
    <3>. QED
      BY <2>0, <3>1, <3>2
  <2>. QED
    BY <2>4, <2>5, Zenon DEF Cells!IsValue, Cells!Follows
<1>3. T \in SUBSET Nat
  OBVIOUS
<1>4. Len(c) \in Nat
  OBVIOUS
<1>5. Len(c) \in T
  <2>. HIDE DEF T
  <2>. QED
    BY <1>1, <1>2, <1>3, <1>4, SetInduction
<1>. QED
  BY <1>4, <1>5

(* The recursion leaves no choice. *)
LEMMA CellsValuesAgree ==
  ASSUME NEW k \in DOMAIN MoneyTables, NEW w \in Nat, NEW c, NEW n \in Nat, NEW f, NEW g,
         Cells(k)!Follows(f, w, c, n), Cells(k)!Follows(g, w, c, n)
  PROVE  f[n] = g[n]
<1>. DEFINE T == {m \in Nat : m <= n => f[m] = g[m]}
<1>1. 0 \in T
  BY DEF Cells!Follows
<1>2. ASSUME NEW m \in T
      PROVE  m + 1 \in T
  <2>1. CASE m + 1 <= n
    <3>1. m + 1 \in 1..n /\ m <= n /\ (m + 1) - 1 = m
      BY <2>1
    <3>2. f[m + 1] = w * f[m] + c[m + 1] /\ g[m + 1] = w * g[m] + c[m + 1]
      BY <3>1 DEF Cells!Follows
    <3>. QED
      BY <3>1, <3>2
  <2>. QED
    BY <2>1
<1>3. T \in SUBSET Nat
  OBVIOUS
<1>4. n \in T
  <2>. HIDE DEF T
  <2>. QED
    BY <1>1, <1>2, <1>3, SetInduction
<1>. QED
  BY <1>4

LEMMA CellsValueIs ==
  ASSUME NEW k \in DOMAIN MoneyTables, NEW w \in Nat, NEW c \in Seq(Int)
  PROVE  \E f : Cells(k)!IsValue(f, w, c, Len(c)) /\ Cells(k)!Value(w, c) = f[Len(c)]
<1>. DEFINE F(f) == [i \in 0..Len(c) |-> IF i = 0 THEN 0 ELSE w * f[i - 1] + c[i]]
            s == CHOOSE f : f = F(f)
<1>0. Len(c) \in Nat
  OBVIOUS
<1>1. PICK f : Cells(k)!IsValue(f, w, c, Len(c))
  BY CellsValueExists
<1>2. f = F(f)
  BY <1>0, <1>1 DEF Cells!IsValue, Cells!Follows
<1>3. s = F(s)
  <2>. HIDE DEF F
  <2>. QED
    BY <1>2
<1>4. Cells(k)!Value(w, c) = s[Len(c)]
  BY DEF Cells!Value
<1>. HIDE DEF s
<1>5. Cells(k)!Follows(s, w, c, Len(c))
  BY <1>0, <1>3 DEF Cells!Follows
<1>6. Cells(k)!Follows(f, w, c, Len(c))
  BY <1>1 DEF Cells!IsValue
<1>7. s[Len(c)] = f[Len(c)]
  BY <1>0, <1>5, <1>6, CellsValuesAgree
<1>. QED
  BY <1>1, <1>4, <1>7

LEMMA CellsValueAppended ==
  ASSUME NEW k \in DOMAIN MoneyTables, NEW w \in Nat, NEW c \in Seq(Int), NEW x \in Int
  PROVE  Cells(k)!Value(w, Append(c, x)) = w * Cells(k)!Value(w, c) + x /\ Cells(k)!Value(w, c) \in Int
<1>. DEFINE d == Append(c, x)
<1>0. /\ Len(c) \in Nat /\ d \in Seq(Int) /\ Len(d) = Len(c) + 1 /\ d[Len(c) + 1] = x
      /\ \A i \in 1..Len(c) : d[i] = c[i]
  OBVIOUS
<1>. HIDE DEF d
<1>1. PICK f : Cells(k)!IsValue(f, w, c, Len(c)) /\ Cells(k)!Value(w, c) = f[Len(c)]
  BY CellsValueIs
<1>2. PICK g : Cells(k)!IsValue(g, w, d, Len(c) + 1) /\ Cells(k)!Value(w, d) = g[Len(c) + 1]
  BY <1>0, CellsValueIs
<1>3. f[Len(c)] = g[Len(c)]
  <2>1. Cells(k)!Follows(f, w, c, Len(c))
    BY <1>1 DEF Cells!IsValue
  <2>2. \A i \in 1..Len(c) : i \in 1..(Len(c) + 1) /\ d[i] = c[i]
    BY <1>0
  <2>3. Cells(k)!Follows(g, w, c, Len(c))
    BY <1>2, <2>2 DEF Cells!IsValue, Cells!Follows
  <2>. QED
    BY <1>0, <2>1, <2>3, CellsValuesAgree
<1>4. g[Len(c) + 1] = w * g[Len(c)] + d[Len(c) + 1]
  <2>1. Len(c) + 1 \in 1..(Len(c) + 1) /\ (Len(c) + 1) - 1 = Len(c)
    BY <1>0
  <2>2. g[Len(c) + 1] = w * g[(Len(c) + 1) - 1] + d[Len(c) + 1]
    BY <1>2, <2>1, Zenon DEF Cells!IsValue, Cells!Follows
  <2>. QED
    BY <2>1, <2>2
<1>5. f[Len(c)] \in Int
  BY <1>0, <1>1 DEF Cells!IsValue, Cells!Follows
<1>. QED
  BY <1>0, <1>1, <1>2, <1>3, <1>4, <1>5 DEF d

LEMMA CellsValueOfNone ==
  ASSUME NEW k \in DOMAIN MoneyTables, NEW w \in Nat
  PROVE  Cells(k)!Value(w, <<>>) = 0
<1>1. <<>> \in Seq(Int) /\ Len(<<>>) = 0
  OBVIOUS
<1>2. PICK f : Cells(k)!IsValue(f, w, <<>>, 0) /\ Cells(k)!Value(w, <<>>) = f[0]
  BY <1>1, CellsValueIs, Zenon
<1>. QED
  BY <1>2 DEF Cells!IsValue, Cells!Follows

-----------------------------------------------------------------------------
LEMMA CellsThousands ==
  ASSUME NEW k \in DOMAIN MoneyTables, NEW n \in Nat
  PROVE  /\ n \div 1000 \in Nat /\ n % 1000 \in 0..999 /\ n = 1000 * (n \div 1000) + (n % 1000)
         /\ n >= 1000 => n \div 1000 < n /\ n \div 1000 > 0
OBVIOUS

LEMMA CellsOnceAgrees ==
  ASSUME NEW k \in DOMAIN MoneyTables, NEW f, NEW g, NEW n \in Nat,
         n < 1000 \/ f[n \div 1000] = g[n \div 1000]
  PROVE  Cells(k)!SplitOnce(f, n) = Cells(k)!SplitOnce(g, n)
BY DEF Cells!SplitOnce

LEMMA CellsOnceSmall ==
  ASSUME NEW k \in DOMAIN MoneyTables, NEW f, NEW n \in Nat, n < 1000
  PROVE  Cells(k)!SplitOnce(f, n) = <<n>>
BY DEF Cells!SplitOnce

LEMMA CellsOnceLarge ==
  ASSUME NEW k \in DOMAIN MoneyTables, NEW f, NEW n \in Nat, n >= 1000
  PROVE  Cells(k)!SplitOnce(f, n) = Append(f[n \div 1000], n % 1000)
BY DEF Cells!SplitOnce

LEMMA CellsSplitExists ==
  ASSUME NEW k \in DOMAIN MoneyTables, NEW m \in Nat
  PROVE  \E f : Cells(k)!IsSplit(f, m)
<1>. DEFINE T == {n \in Nat : \E f : Cells(k)!IsSplit(f, n)}
<1>1. 0 \in T
  <2>1. ASSUME NEW f, NEW n \in 0..0
        PROVE  Cells(k)!SplitOnce(f, n) = <<n>>
    BY DEF Cells!SplitOnce
  <2>2. Cells(k)!IsSplit([n \in 0..0 |-> <<n>>], 0)
    BY <2>1 DEF Cells!IsSplit
  <2>. QED
    BY <2>2
<1>2. ASSUME NEW key \in T
      PROVE  key + 1 \in T
  <2>0. key \in Nat
    OBVIOUS
  <2>1. PICK f : Cells(k)!IsSplit(f, key)
    OBVIOUS
  <2>2. PICK g : g = [n \in 0..(key + 1) |-> IF n <= key THEN f[n] ELSE Cells(k)!SplitOnce(f, n)]
    BY Zenon
  <2>3. ASSUME NEW n \in 0..(key + 1)
        PROVE  g[n] = Cells(k)!SplitOnce(g, n)
    <3>1. n \in Nat /\ n <= key + 1
      BY <2>0
    <3>2. n < 1000 \/ n \div 1000 \in 0..key
      BY <2>0, <3>1, CellsThousands
    <3>3. n < 1000 \/ g[n \div 1000] = f[n \div 1000]
      BY <2>0, <2>2, <3>2
    <3>4. Cells(k)!SplitOnce(f, n) = Cells(k)!SplitOnce(g, n)
      BY <3>1, <3>3, CellsOnceAgrees
    <3>5. n <= key => f[n] = Cells(k)!SplitOnce(f, n)
      BY <2>0, <2>1, <3>1 DEF Cells!IsSplit
    <3>6. g[n] = IF n <= key THEN f[n] ELSE Cells(k)!SplitOnce(f, n)
      BY <2>2
    <3>. QED
      BY <3>4, <3>5, <3>6
  <2>4. Cells(k)!IsSplit(g, key + 1)
    BY <2>3 DEF Cells!IsSplit
  <2>. QED
    BY <2>0, <2>4
<1>3. T \in SUBSET Nat
  OBVIOUS
<1>4. T = Nat
  <2>. HIDE DEF T
  <2>. QED
    BY <1>1, <1>2, <1>3, SetInduction
<1>. QED
  BY <1>4

LEMMA CellsSplitsAgree ==
  ASSUME NEW k \in DOMAIN MoneyTables, NEW f, NEW g, NEW m \in Nat, Cells(k)!IsSplit(f, m),
         Cells(k)!IsSplit(g, m)
  PROVE  \A n \in 0..m : f[n] = g[n]
<1>. DEFINE T == {key \in Nat : key <= m => \A n \in 0..key : f[n] = g[n]}
<1>1. 0 \in T
  <2>. SUFFICES ASSUME NEW n \in 0..0
                PROVE  f[n] = g[n]
    OBVIOUS
  <2>1. n \in 0..m /\ n < 1000 /\ n \in Nat
    OBVIOUS
  <2>2. Cells(k)!SplitOnce(f, n) = Cells(k)!SplitOnce(g, n)
    BY <2>1, CellsOnceAgrees
  <2>. QED
    BY <2>1, <2>2 DEF Cells!IsSplit
<1>2. ASSUME NEW key \in T
      PROVE  key + 1 \in T
  <2>0. key \in Nat
    OBVIOUS
  <2>. SUFFICES ASSUME key + 1 <= m, NEW n \in 0..(key + 1)
                PROVE  f[n] = g[n]
    OBVIOUS
  <2>1. \A j \in 0..key : f[j] = g[j]
    BY <2>0
  <2>2. n \in Nat /\ n <= key + 1 /\ n \in 0..m
    BY <2>0
  <2>3. n < 1000 \/ n \div 1000 \in 0..key
    BY <2>0, <2>2, CellsThousands
  <2>4. n < 1000 \/ f[n \div 1000] = g[n \div 1000]
    BY <2>1, <2>3
  <2>5. Cells(k)!SplitOnce(f, n) = Cells(k)!SplitOnce(g, n)
    BY <2>2, <2>4, CellsOnceAgrees
  <2>. QED
    BY <2>2, <2>5 DEF Cells!IsSplit
<1>3. T \in SUBSET Nat
  OBVIOUS
<1>4. T = Nat
  <2>. HIDE DEF T
  <2>. QED
    BY <1>1, <1>2, <1>3, SetInduction
<1>. QED
  BY <1>4

LEMMA CellsSplitUpTo ==
  ASSUME NEW k \in DOMAIN MoneyTables, NEW f, NEW m \in Nat, NEW j \in Nat, j < m, Cells(k)!IsSplit(f, m)
  PROVE  Cells(k)!IsSplit(f, j)
BY DEF Cells!IsSplit

(* Split, which is recursive on every number, is what its equation says. *)
LEMMA CellsSplitIs ==
  ASSUME NEW k \in DOMAIN MoneyTables, NEW n \in Nat
  PROVE  Cells(k)!Split[n] = Cells(k)!SplitOnce(Cells(k)!Split, n)
<1>. DEFINE S(f) == [key \in Nat |-> Cells(k)!SplitOnce(f, key)]
            G(key) == CHOOSE f : Cells(k)!IsSplit(f, key)
            h == [key \in Nat |-> G(key)[key]]
<1>1. \A key \in Nat : Cells(k)!IsSplit(G(key), key)
  BY CellsSplitExists
<1>. HIDE DEF G
<1>2. ASSUME NEW key \in Nat
      PROVE  h[key] = Cells(k)!SplitOnce(h, key)
  <2>1. G(key)[key] = Cells(k)!SplitOnce(G(key), key)
    BY <1>1 DEF Cells!IsSplit
  <2>2. key < 1000 \/ G(key)[key \div 1000] = h[key \div 1000]
    <3>. SUFFICES ASSUME key >= 1000
                  PROVE  G(key)[key \div 1000] = h[key \div 1000]
      OBVIOUS
    <3>. DEFINE j == key \div 1000
    <3>1. j \in Nat /\ j < key
      BY CellsThousands
    <3>. HIDE DEF j
    <3>2. Cells(k)!IsSplit(G(key), j)
      BY <1>1, <3>1, CellsSplitUpTo
    <3>3. Cells(k)!IsSplit(G(j), j)
      BY <1>1, <3>1
    <3>4. G(key)[j] = G(j)[j]
      BY <3>1, <3>2, <3>3, CellsSplitsAgree
    <3>5. h[j] = G(j)[j]
      BY <3>1
    <3>. QED
      BY <3>4, <3>5 DEF j
  <2>3. Cells(k)!SplitOnce(G(key), key) = Cells(k)!SplitOnce(h, key)
    <3>. HIDE DEF h
    <3>. QED
      BY <2>2, CellsOnceAgrees
  <2>. QED
    BY <2>1, <2>3
<1>3. h = S(h)
  BY <1>2
<1>4. Cells(k)!Split = S(Cells(k)!Split)
  <2>1. Cells(k)!Split = CHOOSE f : f = S(f)
    BY DEF Cells!Split, Cells!SplitOnce
  <2>. HIDE DEF S, h
  <2>. QED
    BY <1>3, <2>1
<1>5. \A f : S(f)[n] = Cells(k)!SplitOnce(f, n)
  OBVIOUS
<1>. HIDE DEF S
<1>. QED
  BY <1>4, <1>5

LEMMA CellsGroupOfOne ==
  ASSUME NEW k \in DOMAIN MoneyTables, NEW n \in 0..999
  PROVE  Cells(k)!GoodGroups(<<n>>, n)
<1>. DEFINE e == <<>>
<1>0. Append(e, n) = <<n>>
  OBVIOUS
<1>1. e \in Seq(Int) /\ n \in Int
  OBVIOUS
<1>. HIDE DEF e
<1>2. Cells(k)!Value(1000, <<n>>) = 1000 * Cells(k)!Value(1000, e) + n
  <2>1. Cells(k)!Value(1000, Append(e, n)) = 1000 * Cells(k)!Value(1000, e) + n
    BY <1>1, CellsValueAppended
  <2>. QED
    BY <1>0, <2>1
<1>3. Cells(k)!Value(1000, e) = 0
  BY CellsValueOfNone DEF e
<1>4. Cells(k)!Joined(<<n>>) = n
  BY <1>2, <1>3 DEF Cells!Joined
<1>. QED
  BY <1>4 DEF Cells!GoodGroups

LEMMA CellsGroupAppended ==
  ASSUME NEW k \in DOMAIN MoneyTables, NEW g, NEW n \in Nat, NEW q \in Nat, NEW r \in Nat, r < 1000,
         n = 1000 * q + r, q > 0, Cells(k)!GoodGroups(g, q)
  PROVE  Cells(k)!GoodGroups(Append(g, r), n)
<1>. DEFINE h == Append(g, r)
<1>1. g \in Seq(Nat) /\ g # <<>> /\ \A i \in 1..Len(g) : g[i] \in 0..999
  BY DEF Cells!GoodGroups
<1>2. /\ h \in Seq(Nat) /\ h # <<>> /\ Len(g) \in Nat /\ Len(g) > 0 /\ Len(h) = Len(g) + 1
      /\ \A i \in 1..Len(g) : h[i] = g[i]
      /\ h[Len(g) + 1] = r
  BY <1>1
<1>3. Cells(k)!Value(1000, h) = 1000 * Cells(k)!Value(1000, g) + r
  <2>1. g \in Seq(Int) /\ r \in Int
    BY <1>1
  <2>. QED
    BY <2>1, CellsValueAppended
<1>. HIDE DEF h
<1>4. Cells(k)!Joined(h) = n
  BY <1>3 DEF Cells!Joined, Cells!GoodGroups
<1>5. h[1] # 0
  BY <1>2 DEF Cells!GoodGroups
<1>6. \A i \in 1..Len(h) : h[i] \in 0..999
  <2>1. \A i \in 1..Len(h) : i \in 1..Len(g) \/ i = Len(g) + 1
    BY <1>2
  <2>2. ASSUME NEW i \in 1..Len(g)
        PROVE  h[i] \in 0..999
    <3>1. h[i] = g[i]
      BY <1>2
    <3>2. g[i] \in 0..999
      BY <1>1
    <3>. QED
      BY <3>1, <3>2
  <2>3. h[Len(g) + 1] \in 0..999
    BY <1>2
  <2>4. ASSUME NEW j \in 1..Len(h)
        PROVE  h[j] \in 0..999
    <3>1. CASE j \in 1..Len(g)
      BY <2>2, <3>1
    <3>2. CASE j = Len(g) + 1
      BY <2>3, <3>2
    <3>. QED
      BY <2>1, <3>1, <3>2
  <2>. QED
    BY <2>4
<1>7. ~(n < 1000)
  OBVIOUS
<1>. QED
  BY <1>2, <1>4, <1>5, <1>6, <1>7 DEF Cells!GoodGroups, h

(* thousandComma writes a number in groups of three digits that are the    *)
(* number again.                                                           *)
LEMMA CellsCommaIs ==
  ASSUME NEW k \in DOMAIN MoneyTables, NEW n \in Nat
  PROVE  Cells(k)!GoodGroups(Cells(k)!thousandComma(n), n)
<1>. DEFINE T == {m \in Nat : \A key \in 0..m : Cells(k)!GoodGroups(Cells(k)!Split[key], key)}
<1>1. ASSUME NEW key \in Nat, key < 1000
      PROVE  Cells(k)!GoodGroups(Cells(k)!Split[key], key)
  <2>1. Cells(k)!Split[key] = <<key>>
    BY <1>1, CellsSplitIs, CellsOnceSmall
  <2>2. key \in 0..999
    BY <1>1
  <2>. QED
    BY <2>1, <2>2, CellsGroupOfOne, ZenonT(30)
<1>2. 0 \in T
  BY <1>1
<1>3. ASSUME NEW m \in T
      PROVE  m + 1 \in T
  <2>0. m \in Nat /\ \A key \in 0..m : Cells(k)!GoodGroups(Cells(k)!Split[key], key)
    OBVIOUS
  <2>1. ASSUME NEW key \in 0..(m + 1)
        PROVE  Cells(k)!GoodGroups(Cells(k)!Split[key], key)
    <3>. DEFINE q == key \div 1000
                r == key % 1000
    <3>1. key \in Nat /\ key <= m + 1
      BY <2>0
    <3>2. CASE key >= 1000
      <4>1. q \in Nat /\ r \in Nat /\ r < 1000 /\ key = 1000 * q + r /\ q > 0 /\ q < key
        BY <3>1, <3>2, CellsThousands
      <4>2. Cells(k)!Split[key] = Append(Cells(k)!Split[q], r)
        BY <3>1, <3>2, CellsSplitIs, CellsOnceLarge
      <4>. HIDE DEF q, r
      <4>3. q \in 0..m
        BY <2>0, <3>1, <4>1
      <4>4. Cells(k)!GoodGroups(Cells(k)!Split[q], q)
        BY <2>0, <4>3
      <4>5. Cells(k)!GoodGroups(Append(Cells(k)!Split[q], r), key)
        <5>. DEFINE s == Cells(k)!Split[q]
        <5>. HIDE DEF s
        <5>1. Cells(k)!GoodGroups(s, q)
          BY <4>4 DEF s
        <5>2. Cells(k)!GoodGroups(Append(s, r), key)
          BY <3>1, <4>1, <5>1, CellsGroupAppended
        <5>. QED
          BY <5>2 DEF s
      <4>. QED
        BY <4>2, <4>5
    <3>. QED
      BY <1>1, <3>1, <3>2
  <2>. QED
    BY <2>0, <2>1
<1>4. T \in SUBSET Nat
  OBVIOUS
<1>5. n \in T
  <2>. HIDE DEF T
  <2>. QED
    BY <1>2, <1>3, <1>4, SetInduction
<1>6. \A key \in 0..n : Cells(k)!GoodGroups(Cells(k)!Split[key], key)
  BY <1>5, Zenon
<1>7. n \in 0..n
  OBVIOUS
<1>8. Cells(k)!GoodGroups(Cells(k)!Split[n], n)
  BY <1>6, <1>7, Zenon
<1>. QED
  BY <1>8, Zenon DEF Cells!thousandComma

-----------------------------------------------------------------------------
(* A product cut after one decimal and rounded is the nearest hundredth. *)
LEMMA CellsRoundedUp ==
  ASSUME NEW k \in DOMAIN MoneyTables, NEW a \in Nat, a > 0, NEW o \in Int,
         o = a \div 10 \/ (a % 10 = 0 /\ o = a \div 10 - 1)
  PROVE  LET c == (o + 5) \div 10
         IN  c \in Nat /\ 100 * c - a <= 50 /\ a - 100 * c <= 50
<1>. DEFINE q == a \div 10
            r == a % 10
            c == (o + 5) \div 10
<1>1. q \in Nat /\ r \in Nat /\ r <= 9 /\ a = 10 * q + r
  OBVIOUS
<1>2. o = q \/ (r = 0 /\ o = q - 1)
  OBVIOUS
<1>3. o >= 0
  <2>. HIDE DEF q, r
  <2>. QED
    BY <1>1, <1>2
<1>4. c \in Nat /\ 10 * c <= o + 5 /\ o + 5 <= 10 * c + 9
  BY <1>3
<1>. HIDE DEF q, r, c
<1>5. c \in Nat /\ 100 * c - a <= 50 /\ a - 100 * c <= 50
  BY <1>1, <1>2, <1>4
<1>. QED
  BY <1>5 DEF c

LEMMA CellsCentsAre ==
  ASSUME NEW k \in DOMAIN MoneyTables, Cells(k)!NumberFormatAssumption,
         NEW p \in [units : Int, drift : Cells(k)!Drift], NEW c \in Cells(k)!formatMoney(p)
  PROVE  /\ c \in Nat
         /\ MoneyTables[k].Mode = "HALF_UP" /\ p.units # 0 => 100 * c - Cells(k)!Size(p.units) <= 50
              /\ Cells(k)!Size(p.units) - 100 * c <= 50
         /\ MoneyTables[k].Mode = "HALF_UP" /\ p.units = 0 /\ p.drift = 0 => c = 0
<1>1. Cells(k)!setting.roundingMode = MoneyTables[k].Mode
  BY DEF Cells!setting, Cells!updateSetting
<1>2. p.units \in Int /\ Cells(k)!Size(p.units) \in Nat /\ (p.units # 0 => Cells(k)!Size(p.units) > 0)
        /\ p.drift \in Cells(k)!Drift
  BY DEF Cells!Size
<1>3. CASE MoneyTables[k].Mode = "DOWN"
  <2>1. c \in Cells(k)!Down(p)
    BY <1>1, <1>3 DEF Cells!formatMoney
  <2>2. c = (Cells(k)!Size(p.units) + 4) \div 100 \/ c = (Cells(k)!Size(p.units) + 5) \div 100
    BY <2>1 DEF Cells!Down
  <2>. QED
    BY <1>2, <1>3, <2>2
<1>4. CASE MoneyTables[k].Mode # "DOWN"
  <2>1. c \in Cells(k)!HalfUp(p)
    BY <1>1, <1>4 DEF Cells!formatMoney
  <2>2. CASE p.units = 0 /\ p.drift # 0
    <3>1. c \in 1..10
      BY <2>1, <2>2 DEF Cells!HalfUp
    <3>. QED
      BY <2>2, <3>1
  <2>3. CASE ~(p.units = 0 /\ p.drift # 0)
    <3>1. c = (Cells(k)!OneDecimal(p) + 5) \div 10
      BY <2>1, <2>3 DEF Cells!HalfUp
    <3>2. CASE p.units = 0
      <4>1. Cells(k)!Size(p.units) = 0
        BY <3>2 DEF Cells!Size
      <4>2. Cells(k)!OneDecimal(p) = 0
        BY <2>3, <3>2, <4>1 DEF Cells!OneDecimal
      <4>. QED
        BY <3>1, <3>2, <4>2
    <3>3. CASE p.units # 0
      <4>. DEFINE a == Cells(k)!Size(p.units)
                  o == Cells(k)!OneDecimal(p)
      <4>1. a \in Nat /\ a > 0
        BY <1>2, <3>3
      <4>2. o = a \div 10 \/ (a % 10 = 0 /\ o = a \div 10 - 1)
        BY DEF Cells!OneDecimal
      <4>. HIDE DEF a, o
      <4>3. o \in Int
        BY <4>1, <4>2
      <4>4. c \in Nat /\ 100 * c - a <= 50 /\ a - 100 * c <= 50
        BY <3>1, <4>1, <4>2, <4>3, CellsRoundedUp DEF o
      <4>. QED
        BY <3>3, <4>4 DEF a
    <3>. QED
      BY <3>2, <3>3
  <2>. QED
    BY <2>2, <2>3
<1>. QED
  BY <1>3, <1>4

(* A text says the cents, with the sign of the amount. *)
LEMMA CellsTextIs ==
  ASSUME NEW k \in DOMAIN MoneyTables, NEW x \in [units : Int, drift : Cells(k)!Drift], NEW c \in Nat, NEW t,
         t = Cells(k)!TextOf(x, c)
  PROVE  Cells(k)!GoodText(t) /\ Cells(k)!ValueOf(t) = IF Cells(k)!Negative(x) THEN -c ELSE c
<1>. DEFINE n == c \div 100
<1>1. n \in Nat /\ c % 100 \in 0..99 /\ c = 100 * n + (c % 100)
  OBVIOUS
<1>2. t.groups = Cells(k)!thousandComma(n) /\ t.cents = c % 100 /\ t.red = Cells(k)!Red(x, c)
  BY DEF Cells!TextOf
<1>. HIDE DEF n
<1>3. Cells(k)!GoodGroups(t.groups, n)
  BY <1>1, <1>2, CellsCommaIs
<1>4. Cells(k)!Red(x, c) \in BOOLEAN /\ (Cells(k)!Red(x, c) <=> Cells(k)!Negative(x) /\ c # 0)
  BY DEF Cells!Red, Cells!Negative
<1>5. t \in Cells(k)!Text /\ t.groups # <<>>
  <2>1. t = [red |-> Cells(k)!Red(x, c), groups |-> Cells(k)!thousandComma(n), cents |-> c % 100]
    BY DEF Cells!TextOf, n
  <2>. QED
    BY <1>1, <1>2, <1>3, <1>4, <2>1 DEF Cells!Text, Cells!GoodGroups
<1>6. 100 * Cells(k)!Joined(t.groups) + t.cents = c
  BY <1>1, <1>2, <1>3 DEF Cells!GoodGroups
<1>7. Cells(k)!ValueOf(t) = IF Cells(k)!Negative(x) THEN -c ELSE c
  BY <1>2, <1>4, <1>6 DEF Cells!ValueOf
<1>8. t.red <=> Cells(k)!ValueOf(t) < 0
  <2>1. PICK v : v = Cells(k)!ValueOf(t)
    OBVIOUS
  <2>2. v < 0 <=> Cells(k)!Red(x, c)
    BY <1>4, <1>7, <2>1
  <2>. QED
    BY <1>2, <2>1, <2>2, Zenon
<1>9. /\ \A i \in 1..Len(t.groups) : t.groups[i] \in 0..999
      /\ Len(t.groups) > 1 => Head(t.groups) # 0
  <2>1. PICK g : g = t.groups
    OBVIOUS
  <2>2. Cells(k)!GoodGroups(g, n)
    BY <1>3, <2>1, Zenon
  <2>3. /\ g \in Seq(Nat) /\ \A i \in 1..Len(g) : g[i] \in 0..999
        /\ Len(g) > 1 => n > 0
        /\ n > 0 => g[1] # 0
    BY <1>1, <2>2 DEF Cells!GoodGroups
  <2>4. Len(g) > 1 => Head(g) # 0
    BY <2>3
  <2>5. \A i \in 1..Len(g) : g[i] \in 0..999
    BY <2>3
  <2>. QED
    BY <2>1, <2>4, <2>5, ZenonT(30)
<1>. QED
  BY <1>5, <1>7, <1>8, <1>9 DEF Cells!GoodText

(* What the pages write of an amount. *)
LEMMA CellsFormatterIs ==
  ASSUME NEW k \in DOMAIN MoneyTables, Cells(k)!NumberFormatAssumption,
         NEW x \in [units : Int, drift : Cells(k)!Drift], NEW t \in Cells(k)!formatter(x)
  PROVE  /\ Cells(k)!GoodText(t)
         /\ MoneyTables[k].Mode = "HALF_UP" /\ (x.units # 0 \/ x.drift = 0) => Cells(k)!Nearest(t, x.units)
<1>1. PICK p \in Cells(k)!Product(x) : t \in {Cells(k)!TextOf(x, cents) : cents \in Cells(k)!formatMoney(p)}
  BY DEF Cells!formatter
<1>2. PICK c \in Cells(k)!formatMoney(p) : t = Cells(k)!TextOf(x, c)
  BY <1>1
<1>3. /\ p \in [units : Int, drift : Cells(k)!Drift] /\ p.units = x.units
      /\ x.units = 0 => p.drift = x.drift
  BY <1>1 DEF Cells!Product, Cells!Drift
<1>4. /\ c \in Nat
      /\ MoneyTables[k].Mode = "HALF_UP" /\ p.units # 0 => 100 * c - Cells(k)!Size(p.units) <= 50
           /\ Cells(k)!Size(p.units) - 100 * c <= 50
      /\ MoneyTables[k].Mode = "HALF_UP" /\ p.units = 0 /\ p.drift = 0 => c = 0
  BY <1>3, CellsCentsAre
<1>5. Cells(k)!GoodText(t) /\ Cells(k)!ValueOf(t) = IF Cells(k)!Negative(x) THEN -c ELSE c
  BY <1>2, <1>4, CellsTextIs
<1>6. ASSUME MoneyTables[k].Mode = "HALF_UP", x.units # 0 \/ x.drift = 0
      PROVE  Cells(k)!Nearest(t, x.units)
  <2>1. x.units \in Int
    OBVIOUS
  <2>2. CASE x.units = 0
    <3>1. c = 0 /\ Cells(k)!ValueOf(t) = 0
      BY <1>3, <1>4, <1>5, <1>6, <2>2
    <3>. QED
      BY <2>2, <3>1 DEF Cells!Nearest, Cells!Size
  <2>3. CASE x.units > 0
    <3>1. ~Cells(k)!Negative(x) /\ Cells(k)!Size(x.units) = x.units
      BY <2>1, <2>3 DEF Cells!Negative, Cells!Size
    <3>. QED
      BY <1>3, <1>4, <1>5, <1>6, <2>1, <2>3, <3>1 DEF Cells!Nearest, Cells!Size
  <2>4. CASE x.units < 0
    <3>1. Cells(k)!Negative(x) /\ Cells(k)!Size(x.units) = -x.units
      BY <2>1, <2>4 DEF Cells!Negative, Cells!Size
    <3>. QED
      BY <1>3, <1>4, <1>5, <1>6, <2>1, <2>4, <3>1 DEF Cells!Nearest, Cells!Size
  <2>. QED
    BY <2>1, <2>2, <2>3, <2>4
<1>. QED
  BY <1>5, <1>6

-----------------------------------------------------------------------------
LEMMA CellsNoTextIs ==
  ASSUME NEW k \in DOMAIN MoneyTables, Cells(k)!NumberFormatAssumption
  PROVE  Cells(k)!GoodText(Cells(k)!NoText)
<1>0. PICK n \in 0..999 : n = 0
  OBVIOUS
<1>1. Cells(k)!NoText.groups = <<n>> /\ Cells(k)!NoText.cents = 0 /\ Cells(k)!NoText.red = FALSE
        /\ Cells(k)!NoText \in Cells(k)!Text
  <2>1. Cells(k)!NoText = [red |-> FALSE, groups |-> <<n>>, cents |-> n]
    BY <1>0 DEF Cells!NoText
  <2>2. <<n>> \in Seq(Nat) /\ n \in 0..99
    BY <1>0
  <2>3. Cells(k)!NoText.groups = <<n>> /\ Cells(k)!NoText.red = FALSE /\ Cells(k)!NoText.cents = n
    BY <2>1
  <2>4. ASSUME NEW g \in Seq(Nat), NEW c \in 0..99
        PROVE  [red |-> FALSE, groups |-> g, cents |-> c] \in Cells(k)!Text
    BY DEF Cells!Text
  <2>5. Cells(k)!NoText \in Cells(k)!Text
    BY <2>1, <2>2, <2>4, ZenonT(30)
  <2>. QED
    BY <1>0, <2>3, <2>5, Zenon
<1>2. Cells(k)!GoodGroups(<<n>>, n)
  BY CellsGroupOfOne
<1>3. Cells(k)!ValueOf(Cells(k)!NoText) = 0
  BY <1>0, <1>1, <1>2 DEF Cells!ValueOf, Cells!GoodGroups
<1>4. Cells(k)!NoText.groups # <<>> /\ Len(Cells(k)!NoText.groups) = 1 /\ \A i \in 1..1 :
        Cells(k)!NoText.groups[i] = 0
  BY <1>0, <1>1
<1>. QED
  BY <1>1, <1>3, <1>4 DEF Cells!GoodText

(* The sum of the settled rows grows with each row. *)
LEMMA CellsSumGrows ==
  ASSUME NEW k \in DOMAIN MoneyTables, Cells(k)!NumberFormatAssumption, NEW rs \in Seq(Cells(k)!Row),
         NEW r \in Cells(k)!Row
  PROVE  /\ Cells(k)!Value(1, Cells(k)!Profits(Append(rs, r)))
              = Cells(k)!Value(1, Cells(k)!Profits(rs)) + Cells(k)!Counted(r)
         /\ Cells(k)!Counted(r) \in Int
<1>. DEFINE c == Cells(k)!Profits(rs)
            s == Append(rs, r)
<1>1. Cells(k)!Counted(r) \in Int /\ \A i \in 1..Len(rs) :
        rs[i] \in Cells(k)!Row /\ Cells(k)!Counted(rs[i]) \in Int
  <2>1. ASSUME NEW q \in Cells(k)!Row
        PROVE  Cells(k)!Counted(q) \in Int
    <3>0. MoneyTables[k].Amounts \subseteq Int
      BY DEF Cells!NumberFormatAssumption
    <3>1. q.amount \in Int /\ 0 \in Int
      <4>1. q.amount \in MoneyTables[k].Amounts
        BY Zenon DEF Cells!Row
      <4>2. 0 \in Int
        OBVIOUS
      <4>. QED
        BY <3>0, <4>1, <4>2, Zenon
    <3>. QED
      BY <3>1, Zenon DEF Cells!Counted
  <2>2. \A i \in 1..Len(rs) : rs[i] \in Cells(k)!Row
    OBVIOUS
  <2>. QED
    BY <2>1, <2>2
<1>2. Len(rs) \in Nat /\ Len(s) = Len(rs) + 1 /\ s[Len(rs) + 1] = r /\ \A i \in 1..Len(rs) : s[i] = rs[i]
  OBVIOUS
<1>3. c = [i \in 1..Len(rs) |-> Cells(k)!Counted(rs[i])]
        /\ Cells(k)!Profits(s) = [i \in 1..Len(s) |-> Cells(k)!Counted(s[i])]
  BY DEF Cells!Profits, Cells!Counted
<1>. HIDE DEF s, c
<1>4. c \in Seq(Int) /\ Len(c) = Len(rs)
  BY <1>1, <1>2, <1>3
<1>5. Cells(k)!Profits(s) = Append(c, Cells(k)!Counted(r))
  <2>. DEFINE d == Append(c, Cells(k)!Counted(r))
  <2>1. /\ d \in Seq(Int) /\ Len(d) = Len(rs) + 1 /\ d[Len(rs) + 1] = Cells(k)!Counted(r)
        /\ \A i \in 1..Len(rs) : d[i] = c[i]
    BY <1>1, <1>2, <1>4
  <2>. HIDE DEF d
  <2>2. \A i \in 1..Len(rs) : d[i] = Cells(k)!Counted(s[i])
    BY <1>2, <1>3, <2>1
  <2>3. ASSUME NEW i \in 1..(Len(rs) + 1)
        PROVE  d[i] = Cells(k)!Counted(s[i])
    <3>1. i \in 1..Len(rs) \/ i = Len(rs) + 1
      BY <1>2
    <3>2. CASE i = Len(rs) + 1
      BY <1>2, <2>1, <3>2
    <3>. QED
      BY <2>2, <3>1, <3>2
  <2>4. d = [i \in 1..(Len(rs) + 1) |-> d[i]]
    <3>1. d = [i \in 1..Len(d) |-> d[i]]
      BY <2>1
    <3>. QED
      BY <2>1, <3>1
  <2>. QED
    BY <1>2, <1>3, <2>3, <2>4 DEF d
<1>6. Cells(k)!Value(1, Append(c, Cells(k)!Counted(r))) = 1 * Cells(k)!Value(1, c) + Cells(k)!Counted(r)
        /\ Cells(k)!Value(1, c) \in Int
  BY <1>1, <1>4, CellsValueAppended
<1>. QED
  BY <1>1, <1>5, <1>6 DEF s, c

LEMMA CellsInitIInv ==
  ASSUME NEW k \in DOMAIN MoneyTables, Cells(k)!NumberFormatAssumption, Cells(k)!Init
  PROVE  Cells(k)!IInv
<1>. USE DEF Cells!Init, Cells!Double
<1>1. Cells(k)!Cardinality({}) = 0 /\ x3 = {}
  BY FS_EmptySet DEF Cells!Cardinality, Cardinality
<1>2. Cells(k)!GoodText(Cells(k)!NoText) /\ x4 = Cells(k)!NoText
  BY CellsNoTextIs
<1>3. Cells(k)!SumOfSettled = 0 /\ x1 = <<>>
  <2>1. Cells(k)!Profits(<<>>) = <<>>
    BY DEF Cells!Profits
  <2>2. PICK w \in Nat : w = 1
    OBVIOUS
  <2>3. Cells(k)!Value(w, <<>>) = 0
    BY CellsValueOfNone, Zenon
  <2>. QED
    BY <2>1, <2>2, <2>3 DEF Cells!SumOfSettled
<1>4. Cells(k)!GoodGroups(x5.groups, x5.count) /\ x5.count = 0
  <2>1. PICK n \in 0..999 : n = 0
    OBVIOUS
  <2>. QED
    BY <2>1, CellsGroupOfOne, ZenonT(30)
<1>5. Cells(k)!TotalInv
  BY <1>3 DEF Cells!TotalInv, Cells!Drift
<1>6. Cells(k)!TypeOK
  <2>1. x4 \in Cells(k)!Text /\ x4.groups # <<>>
    BY <1>2 DEF Cells!GoodText
  <2>2. x1 \in Seq(Cells(k)!Row) /\ Len(x1) <= MoneyTables[k].MaxRows
    BY <1>3 DEF Cells!NumberFormatAssumption
  <2>. QED
    BY <1>1, <1>4, <1>5, <2>1, <2>2 DEF Cells!TypeOK, Cells!TotalInv, Cells!GoodGroups
<1>7. Cells(k)!CellIsNearest /\ Cells(k)!FooterIsNearest
  BY <1>1, <1>3 DEF Cells!CellIsNearest, Cells!FooterIsNearest
<1>. QED
  BY <1>1, <1>2, <1>4, <1>5, <1>6, <1>7 DEF Cells!IInv

(* A row is added: the sum and the drawn total move together. *)
LEMMA CellsAddRowKeeps ==
  ASSUME NEW k \in DOMAIN MoneyTables, Cells(k)!NumberFormatAssumption, Cells(k)!IInv, NEW r \in Cells(k)!Row,
         Cells(k)!AddRow(r)
  PROVE  Cells(k)!IInv'
<1>1. /\ x1 \in Seq(Cells(k)!Row) /\ x2 \in [units : Int, drift : Cells(k)!Drift]
      /\ x2.units = Cells(k)!Value(1, Cells(k)!Profits(x1)) /\ Cells(k)!GoodGroups(x5.groups, x5.count)
      /\ x5.count \in Nat
  BY DEF Cells!IInv, Cells!TypeOK, Cells!TotalInv, Cells!SumOfSettled
<1>2. /\ x1' = Append(x1, r) /\ x2' \in Cells(k)!Plus(x2, Cells(k)!Counted(r)) /\ x3' \in Cells(k)!Cell(r)
      /\ x4' \in Cells(k)!formatter(x2') /\ x5' = x5 /\ Len(x1) < MoneyTables[k].MaxRows
  BY DEF Cells!AddRow
<1>3. /\ Cells(k)!Value(1, Cells(k)!Profits(x1'))
           = Cells(k)!Value(1, Cells(k)!Profits(x1)) + Cells(k)!Counted(r)
      /\ Cells(k)!Counted(r) \in Int
  BY <1>1, <1>2, CellsSumGrows
<1>4. x2' \in [units : Int, drift : Cells(k)!Drift] /\ x2'.units = x2.units + Cells(k)!Counted(r)
  BY <1>1, <1>2, <1>3 DEF Cells!Plus, Cells!Double, Cells!Drift
<1>5. Cells(k)!SumOfSettled' = x2'.units
  BY <1>1, <1>3, <1>4 DEF Cells!SumOfSettled
<1>6. /\ Cells(k)!GoodText(x4')
      /\ MoneyTables[k].Mode = "HALF_UP" /\ Cells(k)!SumOfSettled' # 0
           => Cells(k)!Nearest(x4', Cells(k)!SumOfSettled')
  <2>1. PICK x \in [units : Int, drift : Cells(k)!Drift] : x = x2'
    BY <1>4
  <2>2. PICK t \in Cells(k)!formatter(x) : t = x4'
    BY <1>2, <2>1
  <2>3. /\ Cells(k)!GoodText(t)
        /\ MoneyTables[k].Mode = "HALF_UP" /\ (x.units # 0 \/ x.drift = 0) => Cells(k)!Nearest(t, x.units)
    BY CellsFormatterIs
  <2>. QED
    BY <1>5, <2>1, <2>2, <2>3
<1>7. /\ Len(x1') = Len(x1) + 1 /\ x1'[Len(x1')] = r /\ x1' \in Seq(Cells(k)!Row)
      /\ Len(x1') <= MoneyTables[k].MaxRows
  BY <1>1, <1>2 DEF Cells!NumberFormatAssumption
<1>8. \A t \in x3' :
        Cells(k)!GoodText(t) /\ (MoneyTables[k].Mode = "HALF_UP" => Cells(k)!Nearest(t, r.amount))
  <2>. SUFFICES ASSUME NEW t \in x3'
                PROVE  Cells(k)!GoodText(t)
                         /\ (MoneyTables[k].Mode = "HALF_UP" => Cells(k)!Nearest(t, r.amount))
    OBVIOUS
  <2>1. r.amount \in Int
    BY DEF Cells!Row, Cells!NumberFormatAssumption
  <2>2. PICK x \in [units : Int, drift : Cells(k)!Drift] : x = Cells(k)!Double(r.amount)
    BY <2>1, Zenon DEF Cells!Double, Cells!Drift
  <2>3. t \in Cells(k)!formatter(x)
    BY <1>2, <2>2 DEF Cells!Cell
  <2>4. x.units = r.amount /\ x.drift = 0
    BY <2>2 DEF Cells!Double
  <2>. QED
    BY <2>3, <2>4, CellsFormatterIs
<1>9. Cells(k)!Cardinality(x3') <= 1
  <2>1. x3' = {} \/ \E t : x3' = {t}
    BY <1>2, Zenon DEF Cells!Cell
  <2>2. \A t : Cells(k)!Cardinality({t}) = 1
    BY FS_Singleton, Zenon DEF Cells!Cardinality, Cardinality
  <2>3. Cells(k)!Cardinality({}) = 0
    BY FS_EmptySet DEF Cells!Cardinality, Cardinality
  <2>4. Cells(k)!Cardinality(x3') \in {0, 1}
    BY <2>1, <2>2, <2>3, Zenon
  <2>. QED
    BY <2>4
<1>10. \A t \in (x3 \cup {x4})' : Cells(k)!GoodText(t)
  BY <1>6, <1>8
<1>11. \A t \in (x3 \cup {x4})' : t \in Cells(k)!Text /\ t.groups # <<>>
  BY <1>10 DEF Cells!GoodText
<1>12. Cells(k)!TypeOK'
  BY <1>1, <1>2, <1>4, <1>7, <1>9, <1>11 DEF Cells!TypeOK, Cells!GoodGroups
<1>13. Cells(k)!TotalInv'
  BY <1>4, <1>5 DEF Cells!TotalInv
<1>14. Cells(k)!CellIsNearest' /\ Cells(k)!FooterIsNearest'
  BY <1>6, <1>7, <1>8 DEF Cells!CellIsNearest, Cells!FooterIsNearest
<1>. QED
  BY <1>1, <1>2, <1>10, <1>12, <1>13, <1>14 DEF Cells!IInv

(* A page that is turned starts like the first one. *)
LEMMA CellsNextPageKeeps ==
  ASSUME NEW k \in DOMAIN MoneyTables, Cells(k)!NumberFormatAssumption, Cells(k)!IInv, Cells(k)!NextPage
  PROVE  Cells(k)!IInv'
<1>. USE DEF Cells!NextPage, Cells!Double
<1>1. Cells(k)!Cardinality({}) = 0 /\ x3' = {}
  BY FS_EmptySet DEF Cells!Cardinality, Cardinality
<1>2. Cells(k)!GoodText(x4')
  BY CellsNoTextIs
<1>3. Cells(k)!SumOfSettled' = 0 /\ x1' = <<>>
  <2>1. Cells(k)!Profits(<<>>) = <<>>
    BY DEF Cells!Profits
  <2>2. PICK w \in Nat : w = 1
    OBVIOUS
  <2>3. Cells(k)!Value(w, <<>>) = 0
    BY CellsValueOfNone
  <2>. QED
    BY <2>1, <2>2, <2>3 DEF Cells!SumOfSettled
<1>4. x5' = x5 /\ Cells(k)!GoodGroups(x5.groups, x5.count) /\ x5.count \in Nat
  BY DEF Cells!IInv, Cells!TypeOK
<1>5. Cells(k)!TotalInv'
  BY <1>3 DEF Cells!TotalInv, Cells!Drift
<1>6. Cells(k)!TypeOK'
  <2>1. x4' \in Cells(k)!Text /\ x4'.groups # <<>>
    BY <1>2 DEF Cells!GoodText
  <2>2. x1' \in Seq(Cells(k)!Row) /\ Len(x1') <= MoneyTables[k].MaxRows
    BY <1>3 DEF Cells!NumberFormatAssumption
  <2>. QED
    BY <1>1, <1>4, <1>5, <2>1, <2>2 DEF Cells!TypeOK, Cells!TotalInv, Cells!GoodGroups
<1>7. Cells(k)!CellIsNearest' /\ Cells(k)!FooterIsNearest'
  BY <1>1, <1>3 DEF Cells!CellIsNearest, Cells!FooterIsNearest
<1>. QED
  BY <1>1, <1>2, <1>4, <1>5, <1>6, <1>7 DEF Cells!IInv

(* A badge is written. *)
LEMMA CellsWriteCountKeeps ==
  ASSUME NEW k \in DOMAIN MoneyTables, Cells(k)!NumberFormatAssumption, Cells(k)!IInv,
         NEW n \in MoneyTables[k].Counts, Cells(k)!WriteCount(n)
  PROVE  Cells(k)!IInv'
<1>1. n \in Nat
  BY DEF Cells!NumberFormatAssumption
<1>2. Cells(k)!GoodGroups(x5'.groups, x5'.count) /\ x5'.count \in Nat
  BY <1>1, CellsCommaIs DEF Cells!WriteCount
<1>3. x1' = x1 /\ x2' = x2 /\ x3' = x3 /\ x4' = x4
  BY DEF Cells!WriteCount
<1>4. Cells(k)!TypeOK /\ Cells(k)!TotalInv /\ Cells(k)!CellIsNearest /\ Cells(k)!FooterIsNearest
        /\ \A t \in x3 \cup {x4} : Cells(k)!GoodText(t)
  BY DEF Cells!IInv
<1>5. Cells(k)!TypeOK'
  BY <1>2, <1>3, <1>4 DEF Cells!TypeOK, Cells!GoodGroups
<1>6. Cells(k)!TotalInv' /\ Cells(k)!CellIsNearest' /\ Cells(k)!FooterIsNearest'
  BY <1>3, <1>4 DEF Cells!TotalInv, Cells!CellIsNearest, Cells!FooterIsNearest,
      Cells!SumOfSettled
<1>. QED
  BY <1>2, <1>3, <1>4, <1>5, <1>6 DEF Cells!IInv

LEMMA CellsNextIInv ==
  ASSUME NEW k \in DOMAIN MoneyTables, Cells(k)!NumberFormatAssumption, Cells(k)!IInv,
         Cells(k)!Next \/ UNCHANGED Cells(k)!vars
  PROVE  Cells(k)!IInv'
<1>1. CASE UNCHANGED Cells(k)!vars
  BY <1>1 DEF Cells!vars, Cells!IInv, Cells!TypeOK, Cells!TotalInv, Cells!CellIsNearest,
      Cells!FooterIsNearest, Cells!SumOfSettled
<1>2. CASE \E r \in Cells(k)!Row : Cells(k)!AddRow(r)
  BY <1>2, CellsAddRowKeeps
<1>3. CASE Cells(k)!NextPage
  BY <1>3, CellsNextPageKeeps
<1>4. CASE \E n \in MoneyTables[k].Counts : Cells(k)!WriteCount(n)
  BY <1>4, CellsWriteCountKeeps
<1>. QED
  BY <1>1, <1>2, <1>3, <1>4 DEF Cells!Next

LEMMA CellsIInvImplies ==
  ASSUME NEW k \in DOMAIN MoneyTables, Cells(k)!IInv
  PROVE  Cells(k)!TypeOK /\ Cells(k)!CellIsNearest /\ Cells(k)!FooterIsNearest /\ Cells(k)!RedIsBelowZero
           /\ Cells(k)!GroupsOfThree
<1>1. Cells(k)!TypeOK /\ Cells(k)!CellIsNearest /\ Cells(k)!FooterIsNearest /\ \A t \in x3 \cup {x4} :
        Cells(k)!GoodText(t)
  BY DEF Cells!IInv
<1>2. Cells(k)!RedIsBelowZero
  BY <1>1 DEF Cells!RedIsBelowZero, Cells!GoodText
<1>3. /\ Cells(k)!Joined(x5.groups) = x5.count /\ x5.groups \in Seq(Nat)
      /\ \A i \in 1..Len(x5.groups) : x5.groups[i] \in 0..999
      /\ Len(x5.groups) > 1 => Head(x5.groups) # 0
  <2>1. Cells(k)!GoodGroups(x5.groups, x5.count) /\ x5.count \in Nat
    BY <1>1 DEF Cells!IInv, Cells!TypeOK
  <2>2. /\ Cells(k)!Joined(x5.groups) = x5.count /\ x5.groups \in Seq(Nat)
        /\ \A i \in 1..Len(x5.groups) : x5.groups[i] \in 0..999
        /\ x5.count < 1000 => Len(x5.groups) = 1
        /\ x5.count > 0 => x5.groups[1] # 0
    BY <2>1, Zenon DEF Cells!GoodGroups
  <2>. QED
    BY <2>1, <2>2, SMTT(30)
<1>4. \A t \in x3 \cup {x4} : /\ \A i \in 1..Len(t.groups) : t.groups[i] \in 0..999
                              /\ Len(t.groups) > 1 => Head(t.groups) # 0
  BY <1>1, ZenonT(30) DEF Cells!GoodText
<1>5. Cells(k)!GroupsOfThree
  <2>. SUFFICES ASSUME NEW g \in {x5.groups} \cup {t.groups : t \in x3 \cup {x4}}
                PROVE  /\ \A i \in 1..Len(g) : g[i] \in 0..999
                       /\ Len(g) > 1 => Head(g) # 0
    BY <1>3 DEF Cells!GroupsOfThree
  <2>1. CASE g = x5.groups
    BY <1>3, <2>1, SMTT(30)
  <2>2. CASE \E t \in x3 \cup {x4} : g = t.groups
    BY <1>4, <2>2
  <2>. QED
    BY <2>1, <2>2
<1>. QED
  BY <1>1, <1>2, <1>5

(* The invariant of the pages of this script. *)
CellsInv == \A k \in On("cells", MoneyTables) : Cells(k)!IInv

LEMMA CellsBegins ==
  ASSUME MemberInit
  PROVE  CellsInv
<1>. SUFFICES ASSUME NEW k \in On("cells", MoneyTables)
         PROVE  Cells(k)!IInv
  BY DEF CellsInv
<1>1. k \in DOMAIN MoneyTables /\ script = "cells" /\ page = k
  BY DEF On
<1>2. Cells(k)!Init
  BY <1>1 DEF MemberInit
<1>3. Cells(k)!NumberFormatAssumption
  BY <1>1, MemberPagesAreSound DEF MemberPagesAssumption
<1>. QED
  BY <1>1, <1>2, CellsInitIInv, <1>3

LEMMA CellsGoesOn ==
  ASSUME CellsInv, MemberStep
  PROVE  CellsInv'
<1>1. script' = script /\ page' = page
  BY CountingStays
<1>2. ASSUME NEW k \in On("cells", MoneyTables)
      PROVE  Cells(k)!IInv'
  <2>1. k \in DOMAIN MoneyTables /\ script = "cells" /\ page = k
    BY DEF On
  <2>2. Cells(k)!Next \/ UNCHANGED Cells(k)!vars
    BY <2>1 DEF MemberStep, MemberNext, On, vars, Cells!vars
  <2>3. Cells(k)!NumberFormatAssumption
    BY <2>1, MemberPagesAreSound DEF MemberPagesAssumption
  <2>4. Cells(k)!IInv
    BY DEF CellsInv
  <2>. QED
    BY <2>1, <2>2, CellsNextIInv, <2>3, <2>4
<1>3. On("cells", MoneyTables)' = On("cells", MoneyTables)
  BY <1>1 DEF On
<1>. QED
  BY <1>2, <1>3 DEF CellsInv

LEMMA CellsShows ==
  ASSUME CellsInv
  PROVE  /\ \A k \in On("cells", MoneyTables) : Cells(k)!TypeOK
         /\ \A k \in On("cells", MoneyTables) : Cells(k)!CellIsNearest
         /\ \A k \in On("cells", MoneyTables) : Cells(k)!FooterIsNearest
         /\ \A k \in On("cells", MoneyTables) : Cells(k)!RedIsBelowZero
         /\ \A k \in On("cells", MoneyTables) : Cells(k)!GroupsOfThree
<1>. SUFFICES ASSUME NEW k \in On("cells", MoneyTables)
         PROVE  Cells(k)!TypeOK /\ Cells(k)!CellIsNearest /\ Cells(k)!FooterIsNearest
                  /\ Cells(k)!RedIsBelowZero /\ Cells(k)!GroupsOfThree
  OBVIOUS
<1>1. k \in DOMAIN MoneyTables /\ Cells(k)!IInv
  BY DEF On, CellsInv
<1>. QED
  BY <1>1, CellsIInvImplies

-----------------------------------------------------------------------------
(***************************************************************************)
(* PaymentAlert (Bell): x1 is pending, x2 is stored, x3 is lastRing, x4 is *)
(* flight, x5 is badge, x6 is menu, x7 is rang, x8 is heard.               *)
(***************************************************************************)
(* A sum of nothing but zeros. *)
LEMMA BellZerosAdd ==
  ASSUME NEW k \in DOMAIN Bells, NEW S, IsFiniteSet(S), NEW h,
         \A s \in SUBSET S : h[s] = IF s = {} THEN 0 ELSE LET x == CHOOSE x \in s : TRUE
                                                                                        IN  0 + h[s \ {x}]
  PROVE  h[S] = 0
<1>. DEFINE T == {n \in Nat : \A s \in SUBSET S : Cardinality(s) = n => h[s] = 0}
<1>1. 0 \in T
  <2>. SUFFICES ASSUME NEW s \in SUBSET S, Cardinality(s) = 0
                PROVE  h[s] = 0
    OBVIOUS
  <2>1. IsFiniteSet(s)
    BY FS_Subset
  <2>2. s = {}
    BY <2>1, FS_EmptySet
  <2>. QED
    BY <2>2
<1>2. ASSUME NEW n \in T
      PROVE  n + 1 \in T
  <2>. SUFFICES ASSUME NEW s \in SUBSET S, Cardinality(s) = n + 1
                PROVE  h[s] = 0
    OBVIOUS
  <2>. DEFINE e == CHOOSE e \in s : TRUE
  <2>0. n \in Nat
    OBVIOUS
  <2>1. IsFiniteSet(s)
    BY FS_Subset
  <2>2. s # {}
    <3>1. Cardinality(s) # 0
      BY <2>0
    <3>. QED
      BY <3>1, FS_EmptySet
  <2>3. e \in s
    BY <2>2
  <2>4. Cardinality(s \ {e}) = Cardinality(s) - 1
    BY <2>1, <2>3, FS_RemoveElement, Zenon
  <2>5. Cardinality(s \ {e}) = n
    BY <2>0, <2>4
  <2>6. h[s \ {e}] = 0
    BY <2>5
  <2>7. h[s] = 0 + h[s \ {e}]
    BY <2>2
  <2>. QED
    BY <2>6, <2>7
<1>3. T = Nat
  <2>1. T \in SUBSET Nat
    OBVIOUS
  <2>. HIDE DEF T
  <2>. QED
    BY <1>1, <1>2, <2>1, SetInduction
<1>4. Cardinality(S) \in Nat
  BY FS_CardinalityType
<1>. QED
  BY <1>3, <1>4

LEMMA BellNothingWaits ==
  ASSUME NEW k \in DOMAIN Bells, IsFiniteSet(Bells[k].Kinds)
  PROVE  Bell(k)!Total([key \in Bells[k].Kinds |-> 0]) = 0
<1>. DEFINE c == [key \in Bells[k].Kinds |-> 0]
            P(h) == h = [s \in SUBSET Bells[k].Kinds |-> IF s = {} THEN 0 ELSE LET x == CHOOSE x \in s : TRUE
                                                                       IN  c[x] + h[s \ {x}]]
            g == [s \in SUBSET Bells[k].Kinds |-> 0]
            h0 == CHOOSE h : P(h)
<1>1. Bell(k)!Total(c) = h0[Bells[k].Kinds]
  BY DEF Bell!Total, Bell!FoldFunction, Bell!FoldFunctionOnSet, Bell!MapThenFoldSet
<1>2. P(g)
  OBVIOUS
<1>3. P(h0)
  BY <1>2, Zenon
<1>4. h0[Bells[k].Kinds] = 0
  <2>. HIDE DEF h0
  <2>1. \A s \in SUBSET Bells[k].Kinds : s # {} => c[CHOOSE x \in s : TRUE] = 0
    OBVIOUS
  <2>2. \A s \in SUBSET Bells[k].Kinds : h0[s] = IF s = {} THEN 0 ELSE LET x == CHOOSE x \in s : TRUE
                                                              IN  0 + h0[s \ {x}]
    BY <1>3, <2>1, Zenon
  <2>. HIDE DEF c, P
  <2>. QED
    BY <2>2, BellZerosAdd, Zenon
<1>. QED
  BY <1>1, <1>4

LEMMA BellInitIInv ==
  ASSUME NEW k \in DOMAIN Bells, Bell(k)!PaymentAlertAssumption, Bell(k)!Init
  PROVE  Bell(k)!IInv
<1>1. Bells[k].MaxCount \in Nat /\ 0 \in 0..Bells[k].MaxCount /\ Bells[k].MaxCount > 0 /\ Bells[k].Gap \in Nat
  BY DEF Bell!PaymentAlertAssumption
<1>2. Bell(k)!TypeOK
  <2>1. [count |-> 0, due |-> FALSE] \in Bell(k)!Waiting
    BY <1>1 DEF Bell!Waiting
  <2>2. x1 \in [Bells[k].Kinds -> Bell(k)!Waiting]
    BY <2>1, Zenon DEF Bell!Init
  <2>3. \A w \in Bells[k].Windows :
          x4[w] \subseteq [Bells[k].Kinds -> Bell(k)!Waiting] /\ Bell(k)!Cardinality(x4[w]) <= 1
    <3>1. Bell(k)!Cardinality({}) = 0
      BY FS_EmptySet DEF Bell!Cardinality, Cardinality
    <3>. QED
      BY <3>1 DEF Bell!Init
  <2>4. x5 \in [Bells[k].Windows -> [Bells[k].Kinds -> 0..Bells[k].MaxCount]]
    BY <1>1 DEF Bell!Init
  <2>5. x2 \in [Bells[k].Kinds -> {Bell(k)!None} \cup 0..Bells[k].MaxCount]
          /\ x3 \in [Bells[k].Kinds -> {Bell(k)!None} \cup 0..Bells[k].Gap]
    BY DEF Bell!Init
  <2>. QED
    BY <2>2, <2>3, <2>4, <2>5 DEF Bell!Init, Bell!TypeOK
<1>3. Bell(k)!NoSilentList /\ Bell(k)!BellInv
  BY DEF Bell!Init, Bell!NoSilentList, Bell!BellInv, Bell!None
<1>4. Bell(k)!MenuInv
  <2>1. Bell(k)!Total([key \in Bells[k].Kinds |-> 0]) = 0
    BY BellNothingWaits, Zenon DEF Bell!PaymentAlertAssumption, Bell!IsFiniteSet, IsFiniteSet
  <2>2. \A w \in Bells[k].Windows : x5[w] = [key \in Bells[k].Kinds |-> 0]
    BY DEF Bell!Init
  <2>. QED
    BY <2>1, <2>2 DEF Bell!Init, Bell!MenuInv
<1>. QED
  BY <1>2, <1>3, <1>4 DEF Bell!IInv

(* What the server does, and the clock, leave the counts that are shown. *)
LEMMA BellQuietKeeps ==
  ASSUME NEW k \in DOMAIN Bells, Bell(k)!PaymentAlertAssumption, Bell(k)!IInv, UNCHANGED <<x2, x5, x6, x8>>,
         x7' = {},
         x1' \in [Bells[k].Kinds -> Bell(k)!Waiting],
           x3' \in [Bells[k].Kinds -> {Bell(k)!None} \cup 0..Bells[k].Gap],
         \A key \in Bells[k].Kinds : x3'[key] # Bell(k)!None => x3[key] # Bell(k)!None,
         \A w \in Bells[k].Windows :
           x4'[w] \subseteq [Bells[k].Kinds -> Bell(k)!Waiting] /\ Bell(k)!Cardinality(x4'[w]) <= 1
  PROVE  Bell(k)!IInv' /\ Bell(k)!RiseIsHeard
<1>1. Bell(k)!TypeOK'
  BY DEF Bell!IInv, Bell!TypeOK
<1>2. Bell(k)!NoSilentList' /\ Bell(k)!BellInv' /\ Bell(k)!MenuInv'
  BY DEF Bell!IInv, Bell!NoSilentList, Bell!BellInv, Bell!MenuInv
<1>3. Bell(k)!RiseIsHeard
  <2>1. \A key \in Bells[k].Kinds : x2[key] \in Int /\ x2'[key] = x2[key]
    BY DEF Bell!IInv, Bell!TypeOK, Bell!None
  <2>. QED
    BY <2>1 DEF Bell!RiseIsHeard
<1>. QED
  BY <1>1, <1>2, <1>3 DEF Bell!IInv

LEMMA BellPollKeeps ==
  ASSUME NEW k \in DOMAIN Bells, Bell(k)!PaymentAlertAssumption, Bell(k)!IInv, NEW w \in Bells[k].Windows,
         Bell(k)!Poll(w)
  PROVE  Bell(k)!IInv' /\ Bell(k)!RiseIsHeard
<1>1. Bell(k)!Cardinality({x1}) = 1
  BY FS_Singleton, Zenon DEF Bell!Cardinality, Cardinality
<1>2. \A v \in Bells[k].Windows :
        x4'[v] \subseteq [Bells[k].Kinds -> Bell(k)!Waiting] /\ Bell(k)!Cardinality(x4'[v]) <= 1
  <2>. SUFFICES ASSUME NEW v \in Bells[k].Windows
                PROVE  x4'[v] \subseteq [Bells[k].Kinds -> Bell(k)!Waiting]
                         /\ Bell(k)!Cardinality(x4'[v]) <= 1
    OBVIOUS
  <2>1. x4'[v] = {x1} \/ x4'[v] = x4[v]
    BY DEF Bell!Poll
  <2>. QED
    <3>1. x1 \in [Bells[k].Kinds -> Bell(k)!Waiting]
      BY DEF Bell!IInv, Bell!TypeOK
    <3>2. Bell(k)!Cardinality(x4'[v]) <= 1
      <4>1. x4'[v] = {x1} => Bell(k)!Cardinality(x4'[v]) = 1
        BY <1>1
      <4>2. x4'[v] = x4[v] => Bell(k)!Cardinality(x4'[v]) <= 1
        BY DEF Bell!IInv, Bell!TypeOK
      <4>. QED
        BY <2>1, <4>1, <4>2
    <3>3. x4'[v] \subseteq [Bells[k].Kinds -> Bell(k)!Waiting]
      BY <2>1, <3>1 DEF Bell!IInv, Bell!TypeOK
    <3>. QED
      BY <3>2, <3>3
<1>. QED
  BY <1>2, BellQuietKeeps, Zenon DEF Bell!IInv, Bell!TypeOK, Bell!Poll

(* What a window shows is remembered, and heard when it is new or due. *)
LEMMA BellShowKeeps ==
  ASSUME NEW k \in DOMAIN Bells, Bell(k)!PaymentAlertAssumption, Bell(k)!IInv, NEW w \in Bells[k].Windows,
         NEW a \in x4[w], Bell(k)!Show(w, a)
  PROVE  Bell(k)!IInv' /\ Bell(k)!RiseIsHeard
<1>1. a \in [Bells[k].Kinds -> Bell(k)!Waiting]
  BY DEF Bell!IInv, Bell!TypeOK
<1>2. \A key \in Bells[k].Kinds :
        a[key].count \in Nat /\ a[key].count <= Bells[k].MaxCount /\ a[key].count \in 0..Bells[k].MaxCount
          /\ a[key].due \in BOOLEAN
  BY <1>1 DEF Bell!Waiting, Bell!PaymentAlertAssumption
<1>3. \A key \in Bells[k].Kinds : x2[key] \in Int /\ (x3[key] = Bell(k)!None \/ x3[key] \in 0..Bells[k].Gap)
  BY DEF Bell!IInv, Bell!TypeOK, Bell!None
<1>4. \A key \in Bells[k].Kinds : x2'[key] = a[key].count /\ x3'[key] = Bell(k)!RingTime(key, a[key])
                      /\ (key \in x7' <=> Bell(k)!Rings(key, a[key]))
                      /\ (key \in x8' <=> (key \in x8 \/ key \in x7') /\ a[key].count > 0)
  <2>1. x7' = {key \in Bells[k].Kinds : Bell(k)!Rings(key, a[key])}
          /\ x8' = {key \in x8 \cup x7' : a[key].count > 0}
    BY DEF Bell!Show
  <2>. QED
    BY <2>1 DEF Bell!Show
<1>5. Bell(k)!None \in Int /\ Bell(k)!None < 0 /\ Bells[k].Gap \in Nat /\ 0 \in 0..Bells[k].Gap
  BY DEF Bell!None, Bell!PaymentAlertAssumption
<1>6. Bell(k)!TypeOK'
  <2>1. x3' \in [Bells[k].Kinds -> {Bell(k)!None} \cup 0..Bells[k].Gap]
    <3>1. \A key \in Bells[k].Kinds : Bell(k)!RingTime(key, a[key]) \in {Bell(k)!None} \cup 0..Bells[k].Gap
      BY <1>3, <1>5 DEF Bell!RingTime
    <3>. QED
      BY <3>1 DEF Bell!Show
  <2>2. x2' \in [Bells[k].Kinds -> {Bell(k)!None} \cup 0..Bells[k].MaxCount]
    BY <1>2 DEF Bell!Show
  <2>3. x5' \in [Bells[k].Windows -> [Bells[k].Kinds -> 0..Bells[k].MaxCount]]
    <3>1. [key \in Bells[k].Kinds |-> a[key].count] \in [Bells[k].Kinds -> 0..Bells[k].MaxCount]
      BY <1>2
    <3>. QED
      BY <3>1 DEF Bell!IInv, Bell!TypeOK, Bell!Show
  <2>4. \A v \in Bells[k].Windows :
          x4'[v] \subseteq [Bells[k].Kinds -> Bell(k)!Waiting] /\ Bell(k)!Cardinality(x4'[v]) <= 1
    <3>. SUFFICES ASSUME NEW v \in Bells[k].Windows
                  PROVE  x4'[v] \subseteq [Bells[k].Kinds -> Bell(k)!Waiting]
                           /\ Bell(k)!Cardinality(x4'[v]) <= 1
      OBVIOUS
    <3>1. x4'[v] = {} \/ x4'[v] = x4[v]
      BY DEF Bell!Show
    <3>2. Bell(k)!Cardinality({}) = 0
      BY FS_EmptySet DEF Bell!Cardinality, Cardinality
    <3>3. x4'[v] = {} => Bell(k)!Cardinality(x4'[v]) <= 1
      BY <3>2
    <3>4. x4'[v] = x4[v] => Bell(k)!Cardinality(x4'[v]) <= 1
      BY DEF Bell!IInv, Bell!TypeOK
    <3>5. x4'[v] \subseteq [Bells[k].Kinds -> Bell(k)!Waiting]
      BY <3>1 DEF Bell!IInv, Bell!TypeOK
    <3>. QED
      BY <3>1, <3>3, <3>4, <3>5
  <2>5. x7' \subseteq Bells[k].Kinds /\ x8' \subseteq Bells[k].Kinds
    BY DEF Bell!IInv, Bell!TypeOK, Bell!Show
  <2>. QED
    BY <2>1, <2>2, <2>3, <2>4, <2>5 DEF Bell!IInv, Bell!TypeOK, Bell!Show
<1>7. ASSUME NEW key \in Bells[k].Kinds, a[key].count > 0, ~Bell(k)!Rings(key, a[key])
      PROVE  \/ x3[key] # Bell(k)!None /\ (a[key].due => x3[key] \in 0..(Bells[k].Gap - 1))
             \/ ~a[key].due /\ ~(x2[key] < a[key].count)
  <2>1. CASE a[key].due
    <3>1. x3[key] # Bell(k)!None /\ ~(x3[key] >= Bells[k].Gap)
      BY <1>7, <2>1 DEF Bell!Rings
    <3>2. x3[key] \in 0..Bells[k].Gap
      BY <1>3, <3>1
    <3>3. x3[key] \in 0..(Bells[k].Gap - 1)
      BY <1>5, <3>1, <3>2
    <3>. QED
      BY <3>1, <3>3
  <2>2. CASE ~a[key].due
    BY <1>7, <2>2 DEF Bell!Rings
  <2>. QED
    BY <2>1, <2>2
<1>8. Bell(k)!NoSilentList'
  <2>. SUFFICES ASSUME NEW key \in Bells[k].Kinds, x2'[key] > 0
                PROVE  key \in x8'
    BY DEF Bell!NoSilentList
  <2>1. a[key].count > 0
    BY <1>4
  <2>2. CASE Bell(k)!Rings(key, a[key])
    BY <1>4, <2>1, <2>2
  <2>3. CASE ~Bell(k)!Rings(key, a[key])
    <3>1. CASE x3[key] # Bell(k)!None
      BY <1>4, <2>1, <3>1 DEF Bell!IInv, Bell!BellInv
    <3>2. CASE ~a[key].due /\ ~(x2[key] < a[key].count)
      <4>1. x2[key] > 0
        BY <1>2, <1>3, <2>1, <3>2
      <4>. QED
        BY <1>4, <2>1, <4>1 DEF Bell!IInv, Bell!NoSilentList
    <3>. QED
      BY <1>7, <2>1, <2>3, <3>1, <3>2
  <2>. QED
    BY <2>2, <2>3
<1>9. Bell(k)!BellInv'
  <2>. SUFFICES ASSUME NEW key \in Bells[k].Kinds, x3'[key] # Bell(k)!None
                PROVE  key \in x8'
    BY DEF Bell!BellInv
  <2>1. Bell(k)!RingTime(key, a[key]) # Bell(k)!None
    BY <1>4
  <2>2. a[key].count # 0 /\ (Bell(k)!Rings(key, a[key]) \/ x3[key] # Bell(k)!None)
    BY <2>1 DEF Bell!RingTime
  <2>3. a[key].count > 0
    BY <1>2, <2>2
  <2>. QED
    BY <1>4, <2>2, <2>3 DEF Bell!IInv, Bell!BellInv
<1>10. Bell(k)!MenuInv'
  <2>1. \A v \in Bells[k].Windows : x6'[v] = Bell(k)!Total(x5'[v])
    <3>. SUFFICES ASSUME NEW v \in Bells[k].Windows
                  PROVE  x6'[v] = Bell(k)!Total(x5'[v])
      OBVIOUS
    <3>1. x6[v] = Bell(k)!Total(x5[v]) /\ DOMAIN x6 = Bells[k].Windows /\ DOMAIN x5 = Bells[k].Windows
      BY DEF Bell!IInv, Bell!MenuInv, Bell!TypeOK
    <3>2. CASE v = w
      <4>1. x5'[v] = [key \in Bells[k].Kinds |-> a[key].count]
        BY <3>1, <3>2 DEF Bell!Show
      <4>2. x6'[v] = Bell(k)!MenuCount(a)
        BY <3>1, <3>2 DEF Bell!Show
      <4>. QED
        BY <4>1, <4>2 DEF Bell!MenuCount
    <3>3. CASE v # w
      <4>1. x5'[v] = x5[v] /\ x6'[v] = x6[v]
        BY <3>1, <3>3 DEF Bell!Show
      <4>. QED
        BY <3>1, <4>1
    <3>. QED
      BY <3>2, <3>3
  <2>2. x6' = [v \in Bells[k].Windows |-> x6'[v]]
    BY DEF Bell!IInv, Bell!MenuInv, Bell!Show
  <2>. QED
    BY <2>1, <2>2 DEF Bell!MenuInv
<1>11. Bell(k)!RiseIsHeard
  <2>. SUFFICES ASSUME NEW key \in Bells[k].Kinds, x2'[key] > x2[key], x2'[key] > 0
                PROVE  key \in x7' \/ x3[key] \in 0..(Bells[k].Gap - 1)
    BY DEF Bell!RiseIsHeard
  <2>1. a[key].count > 0 /\ x2[key] < a[key].count
    BY <1>2, <1>3, <1>4
  <2>. QED
    BY <1>4, <1>7, <2>1 DEF Bell!Rings
<1>. QED
  BY <1>6, <1>8, <1>9, <1>10, <1>11 DEF Bell!IInv

LEMMA BellForgetKeeps ==
  ASSUME NEW k \in DOMAIN Bells, Bell(k)!PaymentAlertAssumption, Bell(k)!IInv, Bell(k)!removeLocalStorage
  PROVE  Bell(k)!IInv' /\ Bell(k)!RiseIsHeard
<1>1. Bell(k)!TypeOK'
  BY DEF Bell!IInv, Bell!TypeOK, Bell!removeLocalStorage
<1>2. \A key \in Bells[k].Kinds : x2'[key] = Bell(k)!None /\ x3'[key] = Bell(k)!None
  BY DEF Bell!removeLocalStorage
<1>3. Bell(k)!NoSilentList' /\ Bell(k)!BellInv' /\ Bell(k)!RiseIsHeard
  BY <1>2 DEF Bell!NoSilentList, Bell!BellInv, Bell!RiseIsHeard, Bell!None
<1>4. Bell(k)!MenuInv'
  BY DEF Bell!IInv, Bell!MenuInv, Bell!removeLocalStorage
<1>. QED
  BY <1>1, <1>3, <1>4 DEF Bell!IInv

LEMMA BellNextIInv ==
  ASSUME NEW k \in DOMAIN Bells, Bell(k)!PaymentAlertAssumption, Bell(k)!IInv,
         Bell(k)!Next \/ UNCHANGED Bell(k)!vars
  PROVE  Bell(k)!IInv' /\ Bell(k)!RiseIsHeard
<1>0. /\ x1 \in [Bells[k].Kinds -> Bell(k)!Waiting]
           /\ x3 \in [Bells[k].Kinds -> {Bell(k)!None} \cup 0..Bells[k].Gap]
      /\ \A w \in Bells[k].Windows :
           x4[w] \subseteq [Bells[k].Kinds -> Bell(k)!Waiting] /\ Bell(k)!Cardinality(x4[w]) <= 1
  BY DEF Bell!IInv, Bell!TypeOK
<1>1. CASE \E w \in Bells[k].Windows : Bell(k)!Poll(w) \/ (\E a \in x4[w] : Bell(k)!Show(w, a))
  BY <1>1, BellPollKeeps, BellShowKeeps
<1>2. ASSUME NEW key \in Bells[k].Kinds, NEW p \in Bell(k)!Waiting, Bell(k)!Change(key, p)
      PROVE  Bell(k)!IInv' /\ Bell(k)!RiseIsHeard
  <2>1. x1' \in [Bells[k].Kinds -> Bell(k)!Waiting]
    BY <1>0, <1>2 DEF Bell!Change
  <2>. QED
    BY <1>0, <1>2, <2>1, BellQuietKeeps DEF Bell!Change
<1>3. CASE Bell(k)!Tick
  <2>1. \A key \in Bells[k].Kinds : x3[key] \in {Bell(k)!None} \cup 0..Bells[k].Gap
    BY <1>0
  <2>2. Bells[k].Gap \in Nat /\ Bell(k)!None = -1
    BY DEF Bell!PaymentAlertAssumption, Bell!None
  <2>3. \A key \in Bells[k].Kinds : /\ x3'[key] \in {Bell(k)!None} \cup 0..Bells[k].Gap
                                    /\ x3'[key] # Bell(k)!None => x3[key] # Bell(k)!None
    <3>. SUFFICES ASSUME NEW key \in Bells[k].Kinds
                  PROVE  /\ x3'[key] \in {Bell(k)!None} \cup 0..Bells[k].Gap
                         /\ x3'[key] # Bell(k)!None => x3[key] # Bell(k)!None
      OBVIOUS
    <3>1. x3'[key] = IF x3[key] \in 0..(Bells[k].Gap - 1) THEN x3[key] + 1 ELSE x3[key]
      BY <1>3 DEF Bell!Tick
    <3>. QED
      BY <2>1, <2>2, <3>1
  <2>4. x3' \in [Bells[k].Kinds -> {Bell(k)!None} \cup 0..Bells[k].Gap]
    BY <1>3, <2>3 DEF Bell!Tick
  <2>. QED
    BY <1>0, <1>3, <2>3, <2>4, BellQuietKeeps, Zenon DEF Bell!Tick
<1>4. CASE UNCHANGED Bell(k)!vars
  BY <1>0, <1>4 DEF Bell!vars, Bell!IInv, Bell!TypeOK, Bell!NoSilentList, Bell!BellInv,
      Bell!MenuInv, Bell!RiseIsHeard, Bell!None
<1>. QED
  BY <1>1, <1>2, <1>3, <1>4, BellForgetKeeps DEF Bell!Next

LEMMA BellIInvImplies ==
  ASSUME NEW k \in DOMAIN Bells, Bell(k)!IInv
  PROVE  Bell(k)!TypeOK /\ Bell(k)!NoSilentList /\ Bell(k)!MenuCountsBoth
BY DEF Bell!IInv, Bell!MenuInv, Bell!MenuCountsBoth

(* The invariant of the pages of this script. *)
BellInv == \A k \in On("bell", Bells) : Bell(k)!IInv

LEMMA BellBegins ==
  ASSUME MemberInit
  PROVE  BellInv
<1>. SUFFICES ASSUME NEW k \in On("bell", Bells)
         PROVE  Bell(k)!IInv
  BY DEF BellInv
<1>1. k \in DOMAIN Bells /\ script = "bell" /\ page = k
  BY DEF On
<1>2. Bell(k)!Init
  BY <1>1 DEF MemberInit
<1>3. Bell(k)!PaymentAlertAssumption
  BY <1>1, MemberPagesAreSound DEF MemberPagesAssumption
<1>. QED
  BY <1>1, <1>2, BellInitIInv, <1>3

LEMMA BellGoesOn ==
  ASSUME BellInv, MemberStep
  PROVE  /\ BellInv'
         /\ \A k \in On("bell", Bells) : Bell(k)!RiseIsHeard
<1>1. script' = script /\ page' = page
  BY CountingStays
<1>2. ASSUME NEW k \in On("bell", Bells)
      PROVE  Bell(k)!IInv' /\ Bell(k)!RiseIsHeard
  <2>1. k \in DOMAIN Bells /\ script = "bell" /\ page = k
    BY DEF On
  <2>2. Bell(k)!Next \/ UNCHANGED Bell(k)!vars
    BY <2>1 DEF MemberStep, MemberNext, On, vars, Bell!vars
  <2>3. Bell(k)!PaymentAlertAssumption
    BY <2>1, MemberPagesAreSound DEF MemberPagesAssumption
  <2>4. Bell(k)!IInv
    BY DEF BellInv
  <2>. QED
    BY <2>1, <2>2, BellNextIInv, <2>3, <2>4
<1>3. On("bell", Bells)' = On("bell", Bells)
  BY <1>1 DEF On
<1>. QED
  BY <1>2, <1>3 DEF BellInv

LEMMA BellShows ==
  ASSUME BellInv
  PROVE  /\ \A k \in On("bell", Bells) : Bell(k)!TypeOK
         /\ \A k \in On("bell", Bells) : Bell(k)!NoSilentList
         /\ \A k \in On("bell", Bells) : Bell(k)!MenuCountsBoth
<1>. SUFFICES ASSUME NEW k \in On("bell", Bells)
         PROVE  Bell(k)!TypeOK /\ Bell(k)!NoSilentList /\ Bell(k)!MenuCountsBoth
  OBVIOUS
<1>1. k \in DOMAIN Bells /\ Bell(k)!IInv
  BY DEF On, BellInv
<1>. QED
  BY <1>1, BellIInvImplies

=============================================================================
