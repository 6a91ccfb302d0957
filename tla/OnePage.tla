------------------------------- MODULE OnePage ------------------------------
(***************************************************************************)
(* A browser window shows one page at a time and each page load starts its *)
(* scripts anew: a page shares nothing with the page before but the        *)
(* server, whose part each module models.  So a behaviour picks a page,    *)
(* that is a script and the constants it runs with, and is then a          *)
(* behaviour of that page; x1, x2, ... are its variables, in the order in  *)
(* which its module declares them.                                         *)
(***************************************************************************)
EXTENDS Integers, Sequences, FiniteSets

VARIABLES
  script,  \* which script runs
  page,    \* the name of the page
  x1, x2, x3, x4, x5, x6, x7, x8, x9, x10, x11, x12, x13, x14, x15, x16, x17

vars == <<script, page, x1, x2, x3, x4, x5, x6, x7, x8, x9, x10, x11, x12, x13, x14, x15, x16, x17>>

(* The page, when it is one of script s. *)
On(s, pages) == IF script = s THEN {page} \cap DOMAIN pages ELSE {}

(* The variables a page has no use for. *)
Unused17 == x17 = "unused"
Unused16 == x16 = "unused" /\ Unused17
Unused15 == x15 = "unused" /\ Unused16
Unused14 == x14 = "unused" /\ Unused15
Unused13 == x13 = "unused" /\ Unused14
Unused12 == x12 = "unused" /\ Unused13
Unused11 == x11 = "unused" /\ Unused12
Unused10 == x10 = "unused" /\ Unused11
Unused9 == x9 = "unused" /\ Unused10
Unused8 == x8 = "unused" /\ Unused9
Unused7 == x7 = "unused" /\ Unused8
Unused6 == x6 = "unused" /\ Unused7
Unused5 == x5 = "unused" /\ Unused6

Same18 == script' = script /\ page' = page
Same17 == x17' = x17 /\ Same18
Same16 == x16' = x16 /\ Same17
Same15 == x15' = x15 /\ Same16
Same14 == x14' = x14 /\ Same15
Same13 == x13' = x13 /\ Same14
Same12 == x12' = x12 /\ Same13
Same11 == x11' = x11 /\ Same12
Same10 == x10' = x10 /\ Same11
Same9 == x9' = x9 /\ Same10
Same8 == x8' = x8 /\ Same9
Same7 == x7' = x7 /\ Same8
Same6 == x6' = x6 /\ Same7
Same5 == x5' = x5 /\ Same6
=============================================================================
