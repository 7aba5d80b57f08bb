----------------------------- MODULE MCRenewals -----------------------------
(* Finite instances of Renewals.                                           *)
EXTENDS Renewals
=============================================================================
