-------------------------- MODULE MCProductWizard ---------------------------
(* Finite instances of ProductWizard.                                      *)
EXTENDS ProductWizard

EditBounds == [basics |-> 2, pricing |-> 1, compatibility |-> 1]
=============================================================================
