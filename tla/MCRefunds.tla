----------------------------- MODULE MCRefunds ------------------------------
(* Finite instances of Refunds.                                            *)
EXTENDS Refunds, TLC

RefundSymmetry ==
  Permutations(Requests) \cup Permutations(Refunds) \cup Permutations(Admins)
=============================================================================
