----------------------------- MODULE Settlement -----------------------------
(***************************************************************************)
(* What checkout promises, whatever the order of requests, webhook         *)
(* deliveries and crashes: only an order whose money was captured is       *)
(* settled, at most once, and the step that credits its seller is the step *)
(* that gives its buyer everything in it.                                  *)
(***************************************************************************)
EXTENDS Naturals

CONSTANTS Orders, Users, Products

VARIABLES
  owner,     \* the buyer of each order
  placed,    \* the items of each order, empty until it is placed
  captured,  \* the orders whose charge took the buyer's money
  credit,    \* how often each order's sale was credited to its sellers
  access     \* the <<user, product>> pairs that were ever granted

vars == <<owner, placed, captured, credit, access>>

Init ==
  /\ owner \in [Orders -> Users]
  /\ placed = [o \in Orders |-> {}]
  /\ captured = {}
  /\ credit = [o \in Orders |-> 0]
  /\ access = {}

Place(o) ==
  /\ placed[o] = {}
  /\ \E S \in (SUBSET Products) \ {{}} : placed' = [placed EXCEPT ![o] = S]
  /\ UNCHANGED <<owner, captured, credit, access>>

Capture(o) ==
  /\ placed[o] # {}
  /\ captured' = captured \cup {o}
  /\ UNCHANGED <<owner, placed, credit, access>>

Settle(o) ==
  /\ o \in captured
  /\ credit[o] = 0
  /\ credit' = [credit EXCEPT ![o] = 1]
  /\ access' = access \cup ({owner[o]} \X placed[o])
  /\ UNCHANGED <<owner, placed, captured>>

Next == \E o \in Orders : Place(o) \/ Capture(o) \/ Settle(o)

Spec == Init /\ [][Next]_vars
=============================================================================
