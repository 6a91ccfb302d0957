--------------------------- MODULE MCWithdrawal ---------------------------
(* Finite instances of Withdrawal for TLC. *)
EXTENDS Withdrawal, TLC

CONSTANTS t1, t2, t3, a1, a2, w1, w2, w3

OneOwner == [t \in Withdrawals |-> a1]

UnitAmounts == [t \in Withdrawals |-> 1]

(* A manager may enter a negative amount. *)
NegativeAmounts == [t \in Withdrawals |-> -1]

Symmetric == Permutations(Workers)
  \cup Permutations(Withdrawals)
=============================================================================
