---------------------------- MODULE ReviewQueue ----------------------------
(***************************************************************************)
(* What the review pages promise, whoever clicks and however stale the     *)
(* lists are: every payment is decided at most once and stays decided.     *)
(* Only a payment that two decisions took up while it was pending can be   *)
(* decided again.                                                          *)
(***************************************************************************)
CONSTANT Payments

VARIABLES pending, approved, rejected, contested

Init ==
  /\ pending \cup approved \cup rejected = Payments
  /\ pending \cap approved = {} /\ pending \cap rejected = {} /\ approved \cap rejected = {}
  /\ contested = {}

Contest(S) ==
  /\ S \subseteq pending
  /\ contested' = contested \cup S
  /\ UNCHANGED <<pending, approved, rejected>>

Approve(S) ==
  /\ S \subseteq pending \cup contested
  /\ pending' = pending \ S /\ approved' = approved \cup S /\ rejected' = rejected \ S
  /\ UNCHANGED contested

Reject(S) ==
  /\ S \subseteq pending \cup contested
  /\ pending' = pending \ S /\ rejected' = rejected \cup S /\ approved' = approved \ S
  /\ UNCHANGED contested

Next == \E S \in SUBSET Payments : Contest(S) \/ Approve(S) \/ Reject(S)

Spec == Init /\ [][Next]_<<pending, approved, rejected, contested>>
=============================================================================
