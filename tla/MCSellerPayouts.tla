-------------------------- MODULE MCSellerPayouts ---------------------------
(* Finite instances of SellerPayouts.                                      *)
EXTENDS SellerPayouts, TLC

CallSymmetry == Permutations(PayoutCalls)
=============================================================================
