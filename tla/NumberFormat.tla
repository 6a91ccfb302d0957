--------------------------- MODULE NumberFormat ---------------------------
(***************************************************************************)
(* How the pages write money: CurrencyUtil and the page totals of the bet  *)
(* reports.  An amount is a decimal of at most four places, counted in     *)
(* ten-thousandths; the double that stands for it may lie beside it.       *)
(* `drift' is the side.  A text is the record of what it says.             *)
(***************************************************************************)
EXTENDS Integers, Sequences, FiniteSets

CONSTANTS
  Amounts,   \* the amounts of the rows, in ten-thousandths
  Counts,    \* the counts of the badges
  Mode,      \* "HALF_UP", what every page sets, or "DOWN"
  MaxRows    \* bound: the rows of a page

NumberFormatAssumption ==
  /\ Amounts \subseteq Int /\ Counts \subseteq Nat /\ Mode \in {"HALF_UP", "DOWN"} /\ MaxRows \in Nat \ {0}

VARIABLES
  rows,    \* the rows drawn so far: [amount, settled]
  total,   \* iPageProfitLoss, a double: [units, drift]
  cell,    \* the text of the last row's profit, or nothing
  foot,    \* the text of the page total
  badge    \* the number of a badge and the groups it is written in

vars == <<rows, total, cell, foot, badge>>

Row == [amount : Amounts, settled : BOOLEAN]
Drift == {-1, 0, 1}
Double(u) == [units |-> u, drift |-> 0]
Size(u) == IF u < 0 THEN -u ELSE u

(* A double holds whole sixteenths exactly. *)
Dyadic(u) == u % 625 = 0

(* x + r: the sum of two doubles, rounded again. *)
Plus(x, r) ==
  LET u == x.units + r
      exact == /\ x.drift = 0
               /\ \/ x.units = 0 \/ r = 0 \/ u = 0 \/ r = x.units
                  \/ Dyadic(x.units) /\ Dyadic(r)
  IN IF exact \/ (r = 0 /\ x.drift = 0) THEN {Double(u)}
     ELSE {[units |-> u, drift |-> d] : d \in IF r = 0 THEN {x.drift} ELSE Drift}

(* money * 100 as text: the side its digits lie on. *)
Product(x) ==
  {[units |-> x.units, drift |-> d] :
     d \in IF x.units = 0 \/ (x.drift = 0 /\ Dyadic(x.units)) THEN {x.drift} ELSE Drift}

Negative(x) == x.units < 0 \/ (x.units = 0 /\ x.drift < 0)

----------------------------------------------------------------------------
(* formatMoney, HALF_UP: the product is cut after one decimal of the text, *)
(* and that is rounded.  A trace near nothing is written with an exponent, *)
(* so that the cut keeps the two leading digits of it, 1.0 to 9.9.         *)
OneDecimal(p) ==
  LET a == Size(p.units) IN
  IF (p.drift = 0) \/ (a % 10 # 0) THEN a \div 10
  ELSE IF (p.drift < 0) # (p.units < 0) THEN a \div 10 - 1 ELSE a \div 10

CutCents(p) == {OneDecimal(p) \div 10}   \* mutant: cut, never rounded

HalfUp(p) ==
  IF p.units = 0 /\ p.drift # 0 THEN 1..10
  ELSE {(OneDecimal(p) + 5) \div 10}

(* formatMoney, DOWN: toFixed(1) rounds the product first. *)
Down(p) ==
  LET a == Size(p.units)
      below == (p.drift < 0) # (p.units < 0)
  IN {(IF p.drift # 0 /\ below THEN a + 4 ELSE a + 5) \div 100}

(* updateSetting, which every page calls at its start: a precision that is no *)
(* whole number of decimals is not taken.                                    *)
updateSetting(s, o) ==
  [o EXCEPT !.precision = IF o.precision \in Nat THEN o.precision ELSE s.precision]
setting ==
  updateSetting([precision |-> 2, roundingMode |-> "HALF_UP"], [precision |-> 2, roundingMode |-> Mode])

formatMoney(p) == IF setting.roundingMode = "DOWN" THEN Down(p) ELSE HalfUp(p)

----------------------------------------------------------------------------

(* thousandComma: the loop takes three digits off the first run of digits. *)
Split[n \in Nat] ==
  IF n < 1000 THEN <<n>> ELSE Append(Split[n \div 1000], n % 1000)
thousandComma(n) == Split[n]

(* formatter1 reads the sign off the text: minus nothing has none. *)
Red(x, cents) == Negative(x) /\ cents # 0

TextOf(x, cents) ==
  [red |-> Red(x, cents), groups |-> thousandComma(cents \div 100), cents |-> cents % 100]
formatter(x) == UNION {{TextOf(x, cents) : cents \in formatMoney(p)} : p \in Product(x)}

----------------------------------------------------------------------------
NoText == [red |-> FALSE, groups |-> <<0>>, cents |-> 0]

(* The money columns of betDetailsTable: a bet that was revoked, voided or *)
(* refunded has a dash for its profit, no text.                            *)
Cell(r) == IF r.settled THEN {{t} : t \in formatter(Double(r.amount))} ELSE {{}}

(* fnFooterCallback of betDetailsTable: such a bet counts nothing. *)
Counted(r) == IF r.settled THEN r.amount ELSE 0

Init == rows = << >> /\ total = Double(0) /\ cell = {} /\ foot = NoText
        /\ badge = [count |-> 0, groups |-> <<0>>]

(* fnFooterCallback, one turn of its loop; each turn may be the last. *)
AddRow(r) ==
  /\ Len(rows) < MaxRows
  /\ rows' = Append(rows, r)
  /\ total' \in Plus(total, Counted(r))
  /\ cell' \in Cell(r)
  /\ foot' \in formatter(total')
  /\ UNCHANGED badge

(* Another page is drawn. *)
NextPage ==
  /\ rows # << >>
  /\ rows' = << >> /\ total' = Double(0) /\ cell' = {} /\ foot' = NoText
  /\ UNCHANGED badge

(* renderPaymentNotification: a count that came is written. *)
WriteCount(n) ==
  /\ badge' = [count |-> n, groups |-> thousandComma(n)]
  /\ UNCHANGED <<rows, total, cell, foot>>

Next == (\E r \in Row : AddRow(r)) \/ NextPage \/ (\E n \in Counts : WriteCount(n))

Spec == Init /\ [][Next]_vars

----------------------------------------------------------------------------
(* The number a sequence of digits stands for; to base 1, their sum. *)
Value(base, s) ==
  LET n[i \in 0..Len(s)] == IF i = 0 THEN 0 ELSE base * n[i - 1] + s[i] IN n[Len(s)]

Joined(groups) == Value(1000, groups)

ValueOf(text) ==
  LET size == 100 * Joined(text.groups) + text.cents IN IF text.red THEN -size ELSE size

Profits(rs) == [i \in 1..Len(rs) |-> IF rs[i].settled THEN rs[i].amount ELSE 0]
SumOfSettled == Value(1, Profits(rows))

Nearest(text, u) == Size(100 * ValueOf(text) - u) <= 50

Text == [red : BOOLEAN, groups : Seq(Nat), cents : 0..99]

(* A page holds at most MaxRows rows, and a text has digits and two decimals. *)
TypeOK ==
  /\ rows \in Seq(Row) /\ Len(rows) <= MaxRows
  /\ total.units \in Int /\ total.drift \in Drift
  /\ badge.count \in Nat /\ badge.groups \in Seq(Nat)
  /\ Cardinality(cell) <= 1
  /\ \A t \in cell \cup {foot} : t \in Text /\ t.groups # << >>

(* Whatever side the product of an amount and a hundred falls on, the cell *)
(* is the amount to the nearest hundredth (formatMoney, HALF_UP).          *)
CellIsNearest == Mode = "HALF_UP" => \A t \in cell : Nearest(t, rows[Len(rows)].amount)

(* However the sums of the loop drift, a page total other than nothing is *)
(* written to the nearest hundredth of the profits the cells show         *)
(* (fnFooterCallback and formatMoney).                                    *)
FooterIsNearest == Mode = "HALF_UP" /\ SumOfSettled # 0 => Nearest(foot, SumOfSettled)

(* A text is red exactly when the number it shows is below zero: there is *)
(* no red zero (formatter1).                                              *)
RedIsBelowZero == \A t \in cell \cup {foot} : t.red <=> ValueOf(t) < 0

(* Without its commas a text is the number again, whatever its length, and *)
(* every group after the first has three digits (thousandComma).            *)
GroupsOfThree ==
  /\ Joined(badge.groups) = badge.count
  /\ \A g \in {badge.groups} \cup {t.groups : t \in cell \cup {foot}} :
       /\ \A i \in 1..Len(g) : g[i] \in 0..999
       /\ Len(g) > 1 => Head(g) # 0

----------------------------------------------------------------------------
(* What the proofs rest on: the sum of the loop differs from the sum of    *)
(* the rows by its drift alone.                                            *)
TotalInv == total \in [units : Int, drift : Drift] /\ total.units = SumOfSettled

GoodGroups(g, n) ==
  /\ g \in Seq(Nat) /\ g # <<>> /\ \A i \in 1..Len(g) : g[i] \in 0..999
  /\ n > 0 => g[1] # 0
  /\ n < 1000 => Len(g) = 1
  /\ Joined(g) = n

GoodText(t) ==
  /\ t \in Text /\ t.groups # <<>>
  /\ t.red <=> ValueOf(t) < 0
  /\ \A i \in 1..Len(t.groups) : t.groups[i] \in 0..999
  /\ Len(t.groups) > 1 => Head(t.groups) # 0

IInv ==
  /\ TypeOK /\ TotalInv
  /\ CellIsNearest /\ FooterIsNearest
  /\ \A t \in cell \cup {foot} : GoodText(t)
  /\ GoodGroups(badge.groups, badge.count)

(* What the two recursive functions compute, up to some argument. *)
Follows(f, base, s, m) == f[0] = 0 /\ \A i \in 1..m : f[i] = base * f[i - 1] + s[i]
IsValue(f, base, s, m) == f \in [0..m -> Int] /\ Follows(f, base, s, m)
SplitOnce(f, n) == IF n < 1000 THEN <<n>> ELSE Append(f[n \div 1000], n % 1000)
IsSplit(f, m) == \A n \in 0..m : f[n] = SplitOnce(f, n)
=============================================================================
