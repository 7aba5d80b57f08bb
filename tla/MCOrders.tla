------------------------------ MODULE MCOrders ------------------------------
(* Finite instances of Orders: the sets are given in the .cfg files.       *)
EXTENDS Orders, TLC

RequestSymmetry == Permutations(Requests) \cup Permutations(Users)
=============================================================================
