------------------------------- MODULE Orders -------------------------------
(***************************************************************************)
(* Checkout and payment settlement of FXBotHub.                            *)
(*                                                                         *)
(* A checkout request (checkoutCart) creates at most one order, charges it *)
(* through the payment provider and, if the charge settles at once,        *)
(* completes the order itself.  Otherwise the provider's webhook does so.  *)
(* Every awaited database call outside a transaction is a step of its own, *)
(* a $transaction is one step, and steps of different requests and webhook *)
(* deliveries interleave freely.  An order is named by the request that    *)
(* creates it; a provider charge and its payment row by their order.       *)
(*                                                                         *)
(* Prices and quantities are left out: all ledger entries and invoices of  *)
(* an order are written, for all its items, by one statement each, so      *)
(* sales[o] counts how often the SALE/COMMISSION entries of o were written *)
(* and invoice[o] is the status its invoices share.                        *)
(***************************************************************************)
EXTENDS Naturals

CONSTANTS
  Requests,              \* checkout requests, and so the orders
  Users, Products,
  SubscriptionProducts,  \* products with pricingType SUBSCRIPTION
  Keys,                  \* client-supplied idempotency keys
  NoKey,                 \* a request without a key
  NoOrder,
  Outcomes,              \* the webhook event kinds the provider sends
  MayCrash               \* may a handler die, or an awaited call throw?

ASSUME OrdersAssumption ==
  /\ SubscriptionProducts \subseteq Products
  /\ NoKey \notin Keys
  /\ NoOrder \notin Requests
  /\ Outcomes \subseteq {"succeeded", "failed", "refunded"}
  /\ MayCrash \in BOOLEAN

VARIABLES
  buyer, idemKey,        \* who sent each request and with which key (inputs)
  published,             \* products whose status is PUBLISHED
  cart,                  \* the products in each user's cart
  pc,                    \* where each checkout request stands
  items,                 \* items a request works on, then its order's items
  unlisted,              \* those of its cart items it read as not PUBLISHED
  answer,                \* the order a request returned to its caller
  orderStatus,
  charge,                \* the provider's own record of the charge
  reply,                 \* what createCharge returned
  payment,               \* Payment.status, or "none" before the row exists
  hook,                  \* each webhook event: sent, row claimed, handled...
  acked,                 \* events answered with a 2xx: never delivered again
  sales, invoice,
  licence, licenceOrder, \* License.status and License.orderId
  subscription           \* product Subscription.status

inputs      == <<buyer, idemKey>>
requestVars == <<pc, items, unlisted, answer>>
chargeVars  == <<charge, reply>>
hookVars    == <<hook, acked>>
grantVars   == <<sales, invoice, licence, licenceOrder, subscription>>
shopVars    == <<published, cart>>
vars == <<inputs, shopVars, requestVars, orderStatus, chargeVars, payment,
          hookVars, grantVars>>

Events      == Requests \X Outcomes
Possessions == Users \X Products
RequestSteps == {"idle", "cart", "owned", "create", "charge", "record",
                 "settle", "fail", "done", "error"}
HookSteps == {"none", "sent", "claimed", "matched", "done", "unmatched",
              "broken"}
OrderStatus == {"none", "PENDING", "PAID", "FAILED", "REFUNDED"}
PaymentStatus == {"none", "INITIATED", "SUCCEEDED", "FAILED", "REFUNDED"}
ChargeState == {"none", "open", "declined", "closed", "captured", "reversed"}

TypeOK ==
  /\ buyer \in [Requests -> Users]
  /\ idemKey \in [Requests -> Keys \cup {NoKey}]
  /\ published \subseteq Products
  /\ cart \in [Users -> SUBSET Products]
  /\ pc \in [Requests -> RequestSteps]
  /\ items \in [Requests -> SUBSET Products]
  /\ unlisted \in [Requests -> SUBSET Products]
  /\ answer \in [Requests -> Requests \cup {NoOrder}]
  /\ orderStatus \in [Requests -> OrderStatus]
  /\ charge \in [Requests -> ChargeState]
  /\ reply \in [Requests -> {"none", "initiated", "succeeded", "failed"}]
  /\ payment \in [Requests -> PaymentStatus]
  /\ hook \in [Events -> HookSteps]
  /\ acked \subseteq Events
  /\ sales \in [Requests -> Nat]
  /\ invoice \in [Requests -> {"none", "PAID", "REFUNDED"}]
  /\ licence \in [Possessions -> {"none", "ACTIVE", "REVOKED"}]
  /\ licenceOrder \in [Possessions -> Requests \cup {NoOrder}]
  /\ subscription \in [Possessions -> {"none", "ACTIVE", "CANCELED"}]

Init ==
  /\ buyer \in [Requests -> Users]
  /\ idemKey \in [Requests -> Keys \cup {NoKey}]
  /\ published = Products
  /\ cart = [u \in Users |-> {}]
  /\ pc = [r \in Requests |-> "idle"]
  /\ items = [r \in Requests |-> {}]
  /\ unlisted = [r \in Requests |-> {}]
  /\ answer = [r \in Requests |-> NoOrder]
  /\ orderStatus = [r \in Requests |-> "none"]
  /\ charge = [r \in Requests |-> "none"]
  /\ reply = [r \in Requests |-> "none"]
  /\ payment = [r \in Requests |-> "none"]
  /\ hook = [e \in Events |-> "none"]
  /\ acked = {}
  /\ sales = [r \in Requests |-> 0]
  /\ invoice = [r \in Requests |-> "none"]
  /\ licence = [x \in Possessions |-> "none"]
  /\ licenceOrder = [x \in Possessions |-> NoOrder]
  /\ subscription = [x \in Possessions |-> "none"]

-----------------------------------------------------------------------------
(* The shop around checkout: carts and listing status.                     *)

\* addToCart: only a PUBLISHED product, and adding it twice is a no-op.
AddToCart(u, p) ==
  /\ p \in published
  /\ cart' = [cart EXCEPT ![u] = @ \cup {p}]
  /\ UNCHANGED <<inputs, published, requestVars, orderStatus, chargeVars,
                 payment, hookVars, grantVars>>

RemoveFromCart(u, p) ==
  /\ p \in cart[u]
  /\ cart' = [cart EXCEPT ![u] = @ \ {p}]
  /\ UNCHANGED <<inputs, published, requestVars, orderStatus, chargeVars,
                 payment, hookVars, grantVars>>

\* A seller or moderator takes a listing down or puts it back.
ToggleListing(p) ==
  /\ published' = IF p \in published THEN published \ {p}
                                     ELSE published \cup {p}
  /\ UNCHANGED <<inputs, cart, requestVars, orderStatus, chargeVars, payment,
                 hookVars, grantVars>>

-----------------------------------------------------------------------------
(* checkoutCart, one action per awaited call.                              *)

Placed(o) == orderStatus[o] # "none"

\* The orders that carry the (unique) key of request r.
WithKeyOf(r) ==
  {o \in Requests : Placed(o) /\ idemKey[r] # NoKey /\ idemKey[o] = idemKey[r]}

Goto(r, step) == pc' = [pc EXCEPT ![r] = step]

\* order.findUnique({ idempotencyKey }): answer with the existing order, or
\* refuse with 409 when it belongs to another user.
LookUpKey(r) ==
  /\ pc[r] = "idle"
  /\ \/ /\ WithKeyOf(r) = {}
        /\ Goto(r, "cart")
        /\ UNCHANGED answer
     \/ \E o \in WithKeyOf(r) :
          IF buyer[o] = buyer[r]
          THEN Goto(r, "done") /\ answer' = [answer EXCEPT ![r] = o]
          ELSE Goto(r, "error") /\ UNCHANGED answer
  /\ UNCHANGED <<inputs, shopVars, items, unlisted, orderStatus, chargeVars,
                 payment, hookVars, grantVars>>

\* cart.findUnique with its products, whose status is checked only after the
\* next read: an empty cart is an error.
ReadCart(r) ==
  /\ pc[r] = "cart"
  /\ items' = [items EXCEPT ![r] = cart[buyer[r]]]
  /\ unlisted' = [unlisted EXCEPT ![r] = cart[buyer[r]] \ published]
  /\ Goto(r, IF cart[buyer[r]] = {} THEN "error" ELSE "owned")
  /\ UNCHANGED <<inputs, shopVars, answer, orderStatus, chargeVars, payment,
                 hookVars, grantVars>>

\* A License in any status, or a subscription that is ACTIVE, makes an item
\* already owned.
Owned(u) ==
  {p \in Products : licence[<<u, p>>] # "none"
                    \/ subscription[<<u, p>>] = "ACTIVE"}

ReadOwned(r) ==
  /\ pc[r] = "owned"
  /\ LET wanted == items[r] \ Owned(buyer[r])
     IN  /\ items' = [items EXCEPT ![r] = wanted]
         /\ Goto(r, IF wanted # {} /\ wanted \cap unlisted[r] = {}
                    THEN "create" ELSE "error")
  /\ unlisted' = [unlisted EXCEPT ![r] = {}]
  /\ UNCHANGED <<inputs, shopVars, answer, orderStatus, chargeVars, payment,
                 hookVars, grantVars>>

\* Mutant: no unique index on Order.idempotencyKey.
CreateOrderWithoutUniqueKey(r) ==
  /\ pc[r] = "create"
  /\ orderStatus' = [orderStatus EXCEPT ![r] = "PENDING"]
  /\ Goto(r, "charge")
  /\ UNCHANGED <<inputs, shopVars, items, unlisted, answer, chargeVars,
                 payment, hookVars, grantVars>>

\* order.create: the unique index on idempotencyKey decides a race; the loser
\* (P2002) fetches the winner's order and returns it.
CreateOrder(r) ==
  /\ pc[r] = "create"
  /\ \/ /\ WithKeyOf(r) = {}
        /\ orderStatus' = [orderStatus EXCEPT ![r] = "PENDING"]
        /\ Goto(r, "charge")
        /\ UNCHANGED answer
     \/ \E o \in WithKeyOf(r) :
          /\ answer' = [answer EXCEPT ![r] = o]
          /\ Goto(r, "done")
          /\ UNCHANGED orderStatus
  /\ UNCHANGED <<inputs, shopVars, items, unlisted, chargeVars, payment,
                 hookVars, grantVars>>

\* The provider announces an outcome of o's charge (once per outcome).
Announce(o, outcome) ==
  hook' = [e \in Events |-> IF e = <<o, outcome>> /\ hook[e] = "none"
                            THEN "sent" ELSE hook[e]]

\* createPayment, first half: provider.createCharge().  The provider may
\* settle at once, refuse, or leave the charge open for a later webhook.
CreateCharge(r) ==
  /\ pc[r] = "charge"
  /\ \/ /\ reply' = [reply EXCEPT ![r] = "succeeded"]
        /\ charge' = [charge EXCEPT ![r] = "captured"]
        /\ Announce(r, "succeeded")
     \/ /\ reply' = [reply EXCEPT ![r] = "failed"]
        /\ charge' = [charge EXCEPT ![r] = "closed"]
        /\ Announce(r, "failed")
     \/ /\ reply' = [reply EXCEPT ![r] = "initiated"]
        /\ charge' = [charge EXCEPT ![r] = "open"]
        /\ UNCHANGED hook
  /\ Goto(r, "record")
  /\ UNCHANGED <<inputs, shopVars, items, unlisted, answer, orderStatus,
                 payment, acked, grantVars>>

PaymentOfReply ==
  [initiated |-> "INITIATED", succeeded |-> "SUCCEEDED", failed |-> "FAILED"]
\* Mutant: a charge that is only initiated taken for a failure, as the renewal
\* job does.
StepAfterReplyPessimistic ==
  [initiated |-> "fail", succeeded |-> "settle", failed |-> "fail"]
StepAfterReply ==
  [initiated |-> "done", succeeded |-> "settle", failed |-> "fail"]

\* createPayment, second half: payment.create with the status of the reply,
\* then the three-way branch of checkoutCart on it.
RecordPayment(r) ==
  /\ pc[r] = "record"
  /\ payment' = [payment EXCEPT ![r] = PaymentOfReply[reply[r]]]
  /\ Goto(r, StepAfterReply[reply[r]])
  /\ answer' = [answer EXCEPT ![r] = IF reply[r] = "initiated" THEN r ELSE @]
  /\ UNCHANGED <<inputs, shopVars, items, unlisted, orderStatus, chargeVars,
                 hookVars, grantVars>>

-----------------------------------------------------------------------------
(* completePaidOrder and markOrderFailed.                                  *)

Bought(o) == {buyer[o]} \X items[o]
LicensedBy(o) == {buyer[o]} \X (items[o] \ SubscriptionProducts)
SubscribedBy(o) == {buyer[o]} \X (items[o] \cap SubscriptionProducts)

\* Mutant: invoices left at the schema's default status.
WriteSaleOpenInvoice(o) ==
  /\ orderStatus' = [orderStatus EXCEPT ![o] = "PAID"]
  /\ invoice' = [invoice EXCEPT ![o] = "OPEN"]
  /\ UNCHANGED <<cart, sales, licence, licenceOrder, subscription>>

\* Mutant: ensureLicense called without its optional orderId.
WriteSaleNoOrderId(o) ==
  /\ orderStatus' = [orderStatus EXCEPT ![o] = "PAID"]
  /\ cart' = [cart EXCEPT ![buyer[o]] = @ \ items[o]]
  /\ licence' = [x \in Possessions |->
       IF x \in LicensedBy(o) /\ licence[x] = "none" THEN "ACTIVE"
                                                     ELSE licence[x]]
  /\ sales' = [sales EXCEPT ![o] = @ + 1]
  /\ invoice' = [invoice EXCEPT ![o] = "PAID"]
  /\ UNCHANGED <<licenceOrder, subscription>>

\* The transaction of completePaidOrder when its claim (status not PAID)
\* succeeds: licences are only created, never changed (upsert with an empty
\* update); subscriptions are set ACTIVE; one SALE/COMMISSION batch and the
\* invoices are written.
WriteSale(o) ==
  /\ orderStatus' = [orderStatus EXCEPT ![o] = "PAID"]
  /\ cart' = [cart EXCEPT ![buyer[o]] = @ \ items[o]]
  /\ licence' = [x \in Possessions |->
       IF x \in LicensedBy(o) /\ licence[x] = "none" THEN "ACTIVE"
                                                     ELSE licence[x]]
  /\ licenceOrder' = [x \in Possessions |->
       IF x \in LicensedBy(o) /\ licence[x] = "none" THEN o
                                                     ELSE licenceOrder[x]]
  /\ subscription' = [x \in Possessions |->
       IF x \in SubscribedBy(o) THEN "ACTIVE" ELSE subscription[x]]
  /\ sales' = [sales EXCEPT ![o] = @ + 1]
  /\ invoice' = [invoice EXCEPT ![o] = "PAID"]

\* The order is already PAID (seen by the first read or by the claim).
AlreadyPaid(o) ==
  orderStatus[o] = "PAID" /\ UNCHANGED <<orderStatus, cart, grantVars>>

\* Invoice.orderItemId is unique: a second completion of an order that has
\* left PAID aborts with P2002 and the whole transaction is rolled back.
CompletionThrows(o) ==
  /\ orderStatus[o] # "PAID"
  /\ invoice[o] # "none"
  /\ UNCHANGED <<orderStatus, cart, grantVars>>

\* Mutant: no claim, and invoices written by the variant that returns an
\* existing invoice instead of throwing.
CompletePaidOrderUnclaimed(o) == WriteSale(o)

CompletePaidOrder(o) ==
  \/ AlreadyPaid(o)
  \/ orderStatus[o] # "PAID" /\ invoice[o] = "none" /\ WriteSale(o)

\* order.update without any condition on the current status.
MarkOrderFailed(o) == orderStatus' = [orderStatus EXCEPT ![o] = "FAILED"]

\* checkoutCart's synchronous success.
SettleNow(r) ==
  /\ pc[r] = "settle"
  /\ \/ /\ CompletePaidOrder(r)
        /\ Goto(r, "done")
        /\ answer' = [answer EXCEPT ![r] = r]
     \/ /\ CompletionThrows(r)
        /\ Goto(r, "error")
        /\ UNCHANGED answer
  /\ UNCHANGED <<inputs, published, items, unlisted, chargeVars, payment,
                 hookVars>>

\* checkoutCart's synchronous refusal.
FailNow(r) ==
  /\ pc[r] = "fail"
  /\ MarkOrderFailed(r)
  /\ Goto(r, "done")
  /\ answer' = [answer EXCEPT ![r] = r]
  /\ UNCHANGED <<inputs, shopVars, items, unlisted, chargeVars, payment,
                 hookVars, grantVars>>

\* The server process dies, or an awaited call throws, between two steps.
RequestDies(r) ==
  /\ MayCrash
  /\ pc[r] \in RequestSteps \ {"idle", "done", "error"}
  /\ Goto(r, "error")
  /\ UNCHANGED <<inputs, shopVars, items, unlisted, answer, orderStatus,
                 chargeVars, payment, hookVars, grantVars>>

-----------------------------------------------------------------------------
(* The payment provider (external): an open charge may be declined, be     *)
(* captured on a later attempt, and a captured one be reversed.            *)

ProviderMoves(o, from, to, outcome) ==
  /\ outcome \in Outcomes
  /\ charge[o] \in from
  /\ charge' = [charge EXCEPT ![o] = to]
  /\ Announce(o, outcome)
  /\ UNCHANGED <<inputs, shopVars, requestVars, orderStatus, reply, payment,
                 acked, grantVars>>

ProviderDeclines(o) == ProviderMoves(o, {"open"}, "declined", "failed")
ProviderCaptures(o) ==
  ProviderMoves(o, {"open", "declined"}, "captured", "succeeded")
ProviderReverses(o) == ProviderMoves(o, {"captured"}, "reversed", "refunded")

-----------------------------------------------------------------------------
(* POST /api/payments/webhook: handleWebhook, then the route's own work.   *)

HookAt(e, step) == hook' = [hook EXCEPT ![e] = step]

\* The first delivery inserts the ProcessedWebhookEvent row.  A concurrent
\* first delivery loses on the unique index, answers 400 and is sent again.
ClaimEvent(e) ==
  /\ hook[e] = "sent"
  /\ HookAt(e, "claimed")
  /\ UNCHANGED <<inputs, shopVars, requestVars, orderStatus, chargeVars,
                 payment, acked, grantVars>>

\* Any later delivery finds the row and is acknowledged as a duplicate.
AcknowledgeDuplicate(e) ==
  /\ hook[e] \notin {"none", "sent"}
  /\ e \notin acked
  /\ acked' = acked \cup {e}
  /\ UNCHANGED <<inputs, shopVars, requestVars, orderStatus, chargeVars,
                 payment, hook, grantVars>>

PaymentOfOutcome ==
  [succeeded |-> "SUCCEEDED", failed |-> "FAILED", refunded |-> "REFUNDED"]

\* payment.findUnique and payment.update; an unknown payment is acknowledged
\* (matched: false) with its event row kept.
MatchPayment(e) ==
  /\ hook[e] = "claimed"
  /\ \/ /\ payment[e[1]] = "none"
        /\ HookAt(e, "unmatched")
        /\ acked' = acked \cup {e}
        /\ UNCHANGED payment
     \/ /\ payment[e[1]] # "none"
        /\ payment' = [payment EXCEPT ![e[1]] = PaymentOfOutcome[e[2]]]
        /\ HookAt(e, "matched")
        /\ UNCHANGED acked
  /\ UNCHANGED <<inputs, shopVars, requestVars, orderStatus, chargeVars,
                 grantVars>>

\* Mutants: only a PENDING order is completed by the webhook; a refund event
\* is taken for a failure.
OrderEffectPendingOnly(e) ==
  \/ /\ e[2] = "succeeded" /\ orderStatus[e[1]] = "PENDING"
     /\ CompletePaidOrder(e[1])
  \/ /\ e[2] = "succeeded" /\ orderStatus[e[1]] # "PENDING"
     /\ UNCHANGED <<orderStatus, cart, grantVars>>
  \/ /\ e[2] # "succeeded" /\ MarkOrderFailed(e[1])
     /\ UNCHANGED <<cart, grantVars>>
OrderEffectRefundFails(e) ==
  \/ e[2] = "succeeded" /\ CompletePaidOrder(e[1])
  \/ /\ e[2] # "succeeded" /\ MarkOrderFailed(e[1])
     /\ UNCHANGED <<cart, grantVars>>

\* The effect of a matched event on its order; "refunded" only reverses
\* partner commissions, which are not part of this module.
OrderEffect(e) ==
  \/ e[2] = "succeeded" /\ CompletePaidOrder(e[1])
  \/ e[2] = "failed" /\ MarkOrderFailed(e[1]) /\ UNCHANGED <<cart, grantVars>>
  \/ e[2] = "refunded" /\ UNCHANGED <<orderStatus, cart, grantVars>>

ApplyEvent(e) ==
  /\ hook[e] = "matched"
  /\ \/ /\ OrderEffect(e)
        /\ HookAt(e, "done")
        /\ acked' = acked \cup {e}
     \/ /\ e[2] = "succeeded"
        /\ CompletionThrows(e[1])
        /\ HookAt(e, "broken")
        /\ UNCHANGED acked
  /\ UNCHANGED <<inputs, published, requestVars, chargeVars, payment>>

HookDies(e) ==
  /\ MayCrash
  /\ hook[e] \in {"claimed", "matched"}
  /\ HookAt(e, "broken")
  /\ UNCHANGED <<inputs, shopVars, requestVars, orderStatus, chargeVars,
                 payment, acked, grantVars>>

-----------------------------------------------------------------------------
ShopStep ==
  \/ \E u \in Users, p \in Products : AddToCart(u, p) \/ RemoveFromCart(u, p)
  \/ \E p \in Products : ToggleListing(p)

CheckoutStep(r) ==
  \/ LookUpKey(r) \/ ReadCart(r) \/ ReadOwned(r) \/ CreateOrder(r)
  \/ CreateCharge(r) \/ RecordPayment(r) \/ SettleNow(r) \/ FailNow(r)

ProviderStep(o) ==
  ProviderDeclines(o) \/ ProviderCaptures(o) \/ ProviderReverses(o)

HookStep(e) == ClaimEvent(e) \/ MatchPayment(e) \/ ApplyEvent(e)

Next ==
  \/ ShopStep
  \/ \E r \in Requests : CheckoutStep(r) \/ RequestDies(r) \/ ProviderStep(r)
  \/ \E e \in Events : HookStep(e) \/ AcknowledgeDuplicate(e) \/ HookDies(e)

Spec == Init /\ [][Next]_vars

\* A handler that was started keeps running, and the provider delivers each
\* event until it is acknowledged.  Nothing makes a buyer check out, or the
\* provider capture an open charge.
FairSpec ==
  /\ Spec
  /\ \A r \in Requests : WF_vars(pc[r] # "idle" /\ CheckoutStep(r))
  /\ \A e \in Events : WF_vars(HookStep(e))
-----------------------------------------------------------------------------
(* Properties.                                                             *)

Captured == {o \in Requests : charge[o] \in {"captured", "reversed"}}
Granted ==
  {x \in Possessions : licence[x] # "none" \/ subscription[x] # "none"}

PlacedItems == [o \in Requests |-> IF Placed(o) THEN items[o] ELSE {}]

\* Checkout keeps the promise of Settlement: whatever mixture of the
\* synchronous reply and webhook deliveries calls completePaidOrder, an order
\* is settled at most once, only after its charge was captured, and sellers
\* are credited in the very step that gives the buyer every item.
Promise == INSTANCE Settlement WITH
  Orders   <- Requests,
  owner    <- buyer,
  placed   <- PlacedItems,
  captured <- Captured,
  credit   <- sales,
  access   <- Granted
KeepsPromise == Promise!Spec

\* A retried checkout (double click, network retry) never makes a second
\* order: all requests that carry one key and got an answer got the same one,
\* although the key is looked up long before the order is created.
RetryAnswersSameOrder ==
  \A r, s \in Requests :
    /\ idemKey[r] = idemKey[s] /\ idemKey[r] # NoKey
    /\ answer[r] # NoOrder /\ answer[s] # NoOrder
    => answer[r] = answer[s]

\* An order is only ever FAILED because the provider said so, in the reply to
\* createCharge or in a webhook: a crash, a pending charge or an unknown
\* payment never tells a buyer that the payment failed.
FailureWasReported ==
  \A o \in Requests :
    orderStatus[o] = "FAILED" =>
      \/ reply[o] = "failed"
      \/ \E e \in Events : e = <<o, "failed">> /\ hook[e] = "done"

\* The unconditional update in markOrderFailed is safe where checkoutCart
\* calls it: an order that its own request is about to mark FAILED has not
\* been completed by a webhook meanwhile.
OwnFailureHitsPending ==
  \A r \in Requests :
    pc[r] = "fail" => orderStatus[r] # "PAID" /\ sales[r] = 0

\* A licence can always be traced to a settled order of its owner that
\* contains the product, also when two orders buy the same product: refunds
\* find the licences they revoke through this link.
LicenceTracesToSale ==
  \A x \in Possessions :
    licence[x] # "none" =>
      \E o \in Requests : /\ licenceOrder[x] = o
                         /\ sales[o] = 1
                         /\ x \in LicensedBy(o)

\* A captured charge is settled in the end, also when the request died,
\* unless its success event came before createPayment had written the payment
\* row, or the event's handler died.
CapturedIsSettled ==
  \A o \in Requests :
    charge[o] = "captured" ~>
      \/ sales[o] = 1
      \/ \E e \in Events :
           /\ e = <<o, "succeeded">>
           /\ hook[e] = "unmatched" \/ (MayCrash /\ hook[e] = "broken")

(* The inductive invariant behind the safety properties (OrdersProofs).     *)

\* How far a request is tells what exists of its order and charge.
StepInv ==
  \A r \in Requests :
    /\ pc[r] \in {"idle", "cart", "owned", "create"} =>
         orderStatus[r] = "none" /\ reply[r] = "none"
    /\ pc[r] \in {"create", "charge", "record", "settle", "fail"}
         => items[r] # {}
    /\ pc[r] \in {"charge", "record", "settle", "fail"} => Placed(r)
    /\ pc[r] = "charge" => charge[r] = "none" /\ reply[r] = "none"
    /\ pc[r] = "record" => reply[r] # "none"
    /\ pc[r] = "settle" => reply[r] = "succeeded"
    /\ pc[r] = "fail" => reply[r] = "failed"
    /\ Placed(r) => items[r] # {}

\* What the provider, its announcements and its reply tell about each other.
ChargeFacts(o) ==
  /\ charge[o] # "none" => Placed(o)
  /\ reply[o] = "succeeded" => o \in Captured
  /\ reply[o] = "failed" => charge[o] = "closed"
  /\ \A x \in Outcomes :
       hook[<<o, x>>] # "none" =>
         charge[o] # "none" /\ (x = "succeeded" => o \in Captured)

ChargeInv == \A o \in Requests : ChargeFacts(o)

\* Ledger, invoices and order status agree, and money was taken for a sale.
SaleInv ==
  \A o \in Requests :
    /\ \/ sales[o] = 0 /\ invoice[o] = "none"
       \/ sales[o] = 1 /\ invoice[o] # "none"
    /\ orderStatus[o] = "PAID" => sales[o] = 1
    /\ sales[o] = 1 => o \in Captured

\* Orders have distinct keys, and an answer is an order with the same key.
KeyInv ==
  /\ \A o1, o2 \in Requests :
       Placed(o1) /\ Placed(o2) /\ idemKey[o1] = idemKey[o2] =>
         o1 = o2 \/ idemKey[o1] = NoKey
  /\ \A r \in Requests :
       answer[r] # NoOrder =>
         /\ Placed(answer[r])
         /\ answer[r] = r \/ idemKey[answer[r]] = idemKey[r]

SettlementInv == StepInv /\ ChargeInv /\ SaleInv

-----------------------------------------------------------------------------
(* A sentence of the code that its behaviour contradicts.                   *)

\* The comment of the webhook route on duplicates: an event acknowledged as
\* "already processed" was processed.  A handler that died after inserting
\* the event row makes it false.
DuplicateWasProcessed ==
  \A e \in acked :
    e[2] = "succeeded" /\ hook[e] = "broken" => sales[e[1]] = 1
=============================================================================
