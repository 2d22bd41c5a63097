----------------------------- MODULE MCPayments -----------------------------
(* Payments with two attempts at paying one order. *)
EXTENDS Payments, TLC

CONSTANTS p1, p2

MCPayments == {p1, p2}
OnePayment == {p1}
Symmetry == Permutations(Payments)
=============================================================================
