----------------------------- MODULE MCDeposit -----------------------------
(* Finite instances of Deposit for TLC. *)
EXTENDS Deposit, TLC

CONSTANTS d1, d2, d3, a1, a2, w1, w2, w3

(* One local and one gateway deposit of one player. *)
OneOwner == [t \in Deposits |-> a1]

Symmetric == Permutations({w1, w2})
=============================================================================
