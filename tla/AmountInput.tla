---------------------------- MODULE AmountInput ----------------------------
(***************************************************************************)
(* The fields for a minimum and a maximum amount of the payment and report *)
(* pages: a key filter, and a change handler that cleans the text, groups  *)
(* its thousands and gives it decimals.  Text is a sequence of characters, *)
(* for what the handlers do to characters is what they promise.            *)
(***************************************************************************)
EXTENDS Integers, Sequences, FiniteSets

CONSTANTS
  Digits,     \* the digits that are typed; "0" and one other
  Restricts,   \* TRUE on the withdrawal page: the text is restricted first
  KeyFilter,  \* FALSE on the bet page: no onkeydown
  Pasted,     \* texts that are pasted
  MaxLen      \* bound: the length of a text; below 9, or numbers get an exponent

Digit == {"0", "1"}
Comma == ","   \* separates thousands
Chars == Digit \cup {".", Comma, "-"}

AmountInputAssumption ==
  /\ Digits \subseteq Digit /\ Restricts \in BOOLEAN /\ KeyFilter \in BOOLEAN
  /\ Pasted \subseteq Seq(Chars) /\ MaxLen \in 1..8

VARIABLES
  value,   \* input.value
  caret,   \* selectionStart, the characters before the caret
  all,     \* the whole text is selected
  pasted   \* history: a text was pasted

vars == <<value, caret, all, pasted>>

(* The characters of s that are in S, in their order. *)
Only(S, s) ==
  LET kept[i \in 0..Len(s)] ==
        IF i = 0 THEN << >> ELSE IF s[i] \in S THEN Append(kept[i - 1], s[i]) ELSE kept[i - 1]
  IN kept[Len(s)]

Places(c, s) == {i \in 1..Len(s) : s[i] = c}
HasDot(s) == Places(".", s) # {}
FirstDot(s) ==
  CHOOSE i \in 1..Len(s) + 1 : /\ i <= Len(s) => s[i] = "."
                              /\ \A j \in 1..i - 1 : s[j] # "."

(* Digits before and after the first point; later points are dropped. *)
Whole(s) == Only(Digit, SubSeq(s, 1, FirstDot(s) - 1))
Fraction(s) == Only(Digit, SubSeq(s, FirstDot(s) + 1, Len(s)))

Init == value = << >> /\ caret = 0 /\ all = FALSE /\ pasted = FALSE

----------------------------------------------------------------------------

(* onKeyDown: the keys whose default is prevented. *)
Blocks(c) ==
  \/ c \notin Digit \cup {"."}
  \/ /\ c = "." /\ HasDot(value)
  \/ /\ c \in Digit /\ HasDot(value) /\ ~all
     /\ caret > FirstDot(value) - 1
     /\ Len(value) - FirstDot(value) >= 2

Key(c) ==
  /\ KeyFilter => ~Blocks(c)
  /\ IF all THEN value' = <<c>> /\ caret' = 1
     ELSE /\ Len(value) < MaxLen
          /\ value' = SubSeq(value, 1, caret) \o <<c>> \o SubSeq(value, caret + 1, Len(value)) /\ caret' = caret + 1
  /\ all' = FALSE
  /\ UNCHANGED pasted

MoveCaret(n) == n \in 0..Len(value) /\ caret' = n /\ all' = FALSE /\ UNCHANGED <<value, pasted>>

SelectAll == value # << >> /\ all' = TRUE /\ caret' = 0 /\ UNCHANGED <<value, pasted>>

Paste(t) == value' = t /\ caret' = Len(t) /\ all' = FALSE /\ pasted' = TRUE

----------------------------------------------------------------------------
(* restrictInput: digits and one point, and two digits after it. *)
Restricted(s) ==
  LET digits == Only(Digit \cup {"."}, s)
      rest == SubSeq(digits, FirstDot(digits) + 1, Len(digits))
      first == SubSeq(rest, 1, FirstDot(rest) - 1)   \* parts[1]
  IN IF ~HasDot(digits) THEN digits
     ELSE Whole(digits) \o <<".">> \o (IF Len(first) > 2 THEN SubSeq(first, 1, 2) ELSE Fraction(digits))

(* allowNegative: an odd number of signs, or one in front, is a minus. *)
Negative(s) == s # << >> /\ (s[1] = "-" \/ Cardinality(Places("-", s)) % 2 = 1)

(* parseFloat and toString: no zeros in front, none at the end. *)
StripFront(s) == LET n == Cardinality({i \in 1..Len(s) : \A j \in 1..i : s[j] = "0"}) IN SubSeq(s, n + 1, Len(s))
StripEnd(s) == LET n == Cardinality({i \in 1..Len(s) : \A j \in i..Len(s) : s[j] = "0"}) IN SubSeq(s, 1, Len(s) - n)
IntegerPart(s) == IF StripFront(Whole(s)) = << >> THEN <<"0">> ELSE StripFront(Whole(s))
DecimalPart(s) ==
  LET f == StripEnd(Fraction(s)) IN
  IF f = << >> THEN <<"0", "0">> ELSE SubSeq(f, 1, IF Len(f) < 2 THEN Len(f) ELSE 2)

(* A separator before every three digits from the right. *)
Grouped(s) ==
  LET out[i \in 0..Len(s)] ==
        IF i = 0 THEN << >>
        ELSE out[i - 1] \o (IF i > 1 /\ (Len(s) - i + 1) % 3 = 0 THEN <<Comma>> ELSE << >>) \o <<s[i]>>
  IN out[Len(s)]

IsZero(s) == \A i \in 1..Len(s) : s[i] # "1"

NoNumber(s) == Whole(s) = << >> /\ Fraction(s) = << >>

FormattedUnsigned(s) ==   \* mutant: the sign of the number is lost
  IF NoNumber(s) THEN <<"0", ".", "0", "0">>
  ELSE Grouped(IntegerPart(s)) \o <<".">> \o DecimalPart(s)

(* onChangeSeparatorAdvanced after the restriction. *)
Formatted(s) ==
  IF NoNumber(s) THEN <<"0", ".", "0", "0">>
  ELSE (IF Negative(s) /\ ~IsZero(s) THEN <<"-">> ELSE << >>) \o Grouped(IntegerPart(s)) \o <<".">> \o DecimalPart(s)

NewText(s) ==
  CASE Restricts /\ Restricted(s) # s -> Restricted(s)
    [] s = << >> -> s
    [] OTHER -> Formatted(s)

(* calculateCursorPosition: behind as many characters as before, the       *)
(* separators not counted, and behind at least one.                        *)
NewCaret(old, new) ==
  LET before == Cardinality({i \in 1..caret : old[i] # Comma})
      reached == {i \in 1..Len(new) : Cardinality({j \in 1..i : new[j] # Comma}) >= before}
  IN IF reached = {} THEN 0 ELSE CHOOSE i \in reached : \A j \in reached : i <= j

Change ==
  /\ value' = NewText(value)
  /\ caret' = IF (Restricts /\ Restricted(value) # value) \/ value = << >> \/ NoNumber(value)
              THEN Len(value') ELSE NewCaret(value, value')
  /\ all' = FALSE
  /\ UNCHANGED pasted

Next ==
  \/ \E c \in Digits \cup {".", "-"} : Key(c)
  \/ \E n \in 0..MaxLen : MoveCaret(n)
  \/ \E t \in Pasted : Paste(t)
  \/ SelectAll \/ Change

Spec == Init /\ [][Next]_vars

----------------------------------------------------------------------------
(* The number a text stands for, in cents, what is below a cent cut off. *)
DigitValue(c) == IF c = "1" THEN 1 ELSE 0
NumberOf(ds) ==
  LET n[i \in 0..Len(ds)] == IF i = 0 THEN 0 ELSE 10 * n[i - 1] + DigitValue(ds[i]) IN n[Len(ds)]
Cents(s) ==
  LET f == Fraction(s) \o <<"0", "0">>
      n == 100 * NumberOf(Whole(s)) + NumberOf(SubSeq(f, 1, 2))
  IN IF Negative(s) THEN -n ELSE n

(* The text has only characters of an amount and the caret is inside. *)
TypeOK == value \in Seq(Chars) /\ caret \in 0..Len(value) /\ all \in BOOLEAN /\ pasted \in BOOLEAN

(* A change never alters the amount but for what is below a cent. *)
ChangeKeepsAmount == Change /\ ~Restricts => Cents(value') = Cents(value)

(* Separators stand before whole groups of three digits, and nowhere else, *)
(* in every text a change has formatted; a point has two digits at most    *)
(* behind it.                                                              *)
WellGrouped(s) ==
  LET point == FirstDot(s) IN
  \A i \in 1..point - 1 :
    s[i] = Comma <=> i > 1 /\ s[i - 1] \in Digit /\ (point - i) % 4 = 0
FormattedIsReadable ==
  Change /\ ~Restricts /\ value # << >> =>
       WellGrouped(value') /\ HasDot(value') /\ Len(value') - FirstDot(value') \in 1..2

(* The keys alone never bring a second point into a text. *)
OnePoint == KeyFilter /\ ~pasted => \A i, j \in Places(".", value) : i = j
----------------------------------------------------------------------------
(***************************************************************************)
(* What the proofs rest on.                                                *)
(***************************************************************************)
(* f starts with a and takes the steps of h. *)
Grown(f, V, a, n, h) == f \in [0..n -> V] /\ f[0] = a /\ \A i \in 1..n : f[i] = h[<<i, f[i - 1]>>]

(* Digits, and commas where a text of l characters has them.               *)
WellSpaced(s, l) ==
  \A i \in 1..Len(s) : s[i] \in Digit \cup {Comma} /\ (s[i] = Comma <=> (l + 1 - i) % 4 = 0)

(* o is the first i digits of s, grouped for a text of l characters.       *)
Grouping(o, s, i, l) ==
  /\ o \in Seq(Chars) /\ WellSpaced(o, l) /\ Only(Digit, o) = SubSeq(s, 1, i)
  /\ Len(o) = IF i = 0 THEN 0 ELSE l - ((Len(s) - i) + (Len(s) - i) \div 3)

(* t is a and b behind it.                                                 *)
Joined(t, a, b) ==
  /\ t \in Seq(Chars) /\ Len(t) = Len(a) + Len(b)
  /\ \A i \in 1..Len(a) : t[i] = a[i]
  /\ \A i \in 1..Len(b) : t[Len(a) + i] = b[i]

(* a is the sign, or nothing.                                              *)
Sign(a, k) == a \in Seq(Chars) /\ Len(a) = k /\ (k = 1 => a[1] = "-")

(* A sign or none, digits grouped and one or two decimals.                 *)
Parts(k, g, d) ==
  /\ k \in 0..1 /\ g \in Seq(Chars) /\ d \in Seq(Chars)
  /\ WellSpaced(g, Len(g)) /\ Len(g) \in Nat \ {0} /\ Len(g) % 4 # 0
  /\ Len(d) \in 1..2 /\ \A i \in 1..Len(d) : d[i] \in Digit

(* t is a sign if k = 1, then g, a point and d.                            *)
Written(t, k, g, d) ==
  LET p == k + Len(g) + 1 IN
  /\ Parts(k, g, d) /\ t \in Seq(Chars) /\ Len(t) = p + Len(d)
  /\ (k = 1 => t[1] = "-") /\ t[p] = "."
  /\ \A i \in 1..Len(g) : t[k + i] = g[i]
  /\ \A i \in 1..Len(d) : t[p + i] = d[i]

(* t is read as what it was written of.                                    *)
ReadAs(t, k, g, d) ==
  /\ FirstDot(t) = k + Len(g) + 1 /\ HasDot(t) /\ \A i, j \in Places(".", t) : i = j
  /\ t \in Seq(Chars) /\ Len(t) - FirstDot(t) \in 1..2 /\ Fraction(t) = d
  /\ (Negative(t) <=> k = 1) /\ WellGrouped(t)

(* The digits of g are those before the point of t.                        *)
WholeIn(g, t) == Whole(t) = Only(Digit, g)

(* t is v with c typed behind its first n characters.                      *)
Typed(t, v, n, c) ==
  /\ t \in Seq(Chars) /\ Len(t) = Len(v) + 1 /\ t[n + 1] = c
  /\ \A i \in 1..Len(t) : i # n + 1 => t[i] = v[IF i <= n THEN i ELSE i - 1]

IInv == TypeOK /\ OnePoint
=============================================================================
