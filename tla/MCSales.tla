------------------------------ MODULE MCSales ------------------------------
(* Two bounds of one specification, chosen by `part`: either all of         *)
(* checkout, with keys, subscriptions and processes that die, and no        *)
(* refunds; or refunds of orders without keys and subscriptions, in which   *)
(* only an administrator's call dies.                                      *)
EXTENDS MCRefunds

VARIABLE part

salesVars == <<part, allVars>>

SalesInit ==
  /\ RefundInit
  /\ \/ part = "checkout"
     \/ part = "refunds" /\ \A r \in Requests : idemKey[r] = NoKey

CheckoutPart == part = "checkout" /\ Next /\ UNCHANGED <<part, refundVars>>

\* The disjuncts of Next without deaths and without subscriptions.
PlainNext ==
  \/ \E u \in Users, p \in Products \ SubscriptionProducts :
       AddToCart(u, p) \/ RemoveFromCart(u, p)
  \/ \E p \in Products \ SubscriptionProducts : ToggleListing(p)
  \/ \E r \in Requests : CheckoutStep(r) \/ ProviderStep(r)
  \/ \E e \in Events : HookStep(e) \/ AcknowledgeDuplicate(e)

RefundsPart ==
  /\ part = "refunds" /\ UNCHANGED part
  /\ \/ PlainNext /\ UNCHANGED refundVars
     \/ \E f \in Refunds : RefundRequest(f)
     \/ \E a \in Admins : AdminCall(a)

SalesNext == CheckoutPart \/ RefundsPart

SalesSpec == SalesInit /\ [][SalesNext]_salesVars

\* Bound: only a one-time product leaves the marketplace under a checkout.
SubscriptionsStayListed == SubscriptionProducts \subseteq published
=============================================================================
