------------------------------ MODULE Refunds -------------------------------
(***************************************************************************)
(* Refunds of settled orders (refund-service.ts), on top of checkout: a    *)
(* refund is requested for a PAID order and approved or rejected by an     *)
(* administrator.  Requests, administrators, webhooks and checkout         *)
(* interleave at every awaited call; nothing locks the refund row.         *)
(*                                                                         *)
(* A refund row is named by the request that creates it.  All items of an  *)
(* order are refunded together, so refunded[o] counts the batches of       *)
(* REFUND ledger entries written for o.                                    *)
(***************************************************************************)
EXTENDS Orders

CONSTANTS
  Refunds,     \* refund requests, and so the refund rows
  Admins,      \* administrator sessions, one call at a time each
  NoRefund

ASSUME RefundsAssumption == NoRefund \notin Refunds

VARIABLES
  refund,      \* where a request stands, then Refund.status of its row
  refundOf,    \* the order it is for
  admin,       \* where each administrator's call stands
  adminOn,     \* the refund that call works on
  refunded

refundVars == <<refund, refundOf, admin, adminOn, refunded>>
allVars    == <<vars, refundVars>>

RefundSteps == {"idle", "checking", "creating", "refused",
                "REQUESTED", "REJECTED", "PROCESSED"}
AdminSteps == {"idle", "rejecting", "approving", "charging", "returned",
               "recording"}

RefundTypeOK ==
  /\ refund \in [Refunds -> RefundSteps]
  /\ refundOf \in [Refunds -> Requests \cup {NoOrder}]
  /\ admin \in [Admins -> AdminSteps]
  /\ adminOn \in [Admins -> Refunds \cup {NoRefund}]
  /\ refunded \in [Requests -> Nat]
  /\ TypeOK

RefundInit ==
  /\ Init
  /\ refund = [f \in Refunds |-> "idle"]
  /\ refundOf = [f \in Refunds |-> NoOrder]
  /\ admin = [a \in Admins |-> "idle"]
  /\ adminOn = [a \in Admins |-> NoRefund]
  /\ refunded = [o \in Requests |-> 0]

-----------------------------------------------------------------------------
(* requestRefund.                                                          *)

RefundAt(f, step) == refund' = [refund EXCEPT ![f] = step]

\* Mutant: the order's own status is not looked at.
AskRefundOfAnyOrder(f, o) ==
  /\ refund[f] = "idle"
  /\ payment[o] = "SUCCEEDED"
  /\ RefundAt(f, "checking")
  /\ refundOf' = [refundOf EXCEPT ![f] = o]
  /\ UNCHANGED <<vars, admin, adminOn, refunded>>

\* order.findUnique with its latest SUCCEEDED payment.
AskRefund(f, o) ==
  /\ refund[f] = "idle"
  /\ orderStatus[o] = "PAID"
  /\ payment[o] = "SUCCEEDED"
  /\ RefundAt(f, "checking")
  /\ refundOf' = [refundOf EXCEPT ![f] = o]
  /\ UNCHANGED <<vars, admin, adminOn, refunded>>

RowsOf(o) ==
  {f \in Refunds : refundOf[f] = o /\ refund[f] \in {"REQUESTED", "PROCESSED"}}

\* refund.findFirst: another refund of the order that was not rejected.
CheckExisting(f) ==
  /\ refund[f] = "checking"
  /\ RefundAt(f, IF RowsOf(refundOf[f]) = {} THEN "creating" ELSE "refused")
  /\ UNCHANGED <<vars, refundOf, admin, adminOn, refunded>>

CreateRefund(f) ==
  /\ refund[f] = "creating"
  /\ RefundAt(f, "REQUESTED")
  /\ UNCHANGED <<vars, refundOf, admin, adminOn, refunded>>

-----------------------------------------------------------------------------
(* rejectRefund and approveAndProcessRefund.                               *)

AdminAt(a, step) == admin' = [admin EXCEPT ![a] = step]

\* Both calls read the row first and go on only while it is REQUESTED.
OpenRefund(a, f, step) ==
  /\ admin[a] = "idle"
  /\ refund[f] = "REQUESTED"
  /\ step \in {"rejecting", "approving"}
  /\ AdminAt(a, step)
  /\ adminOn' = [adminOn EXCEPT ![a] = f]
  /\ UNCHANGED <<vars, refund, refundOf, refunded>>

\* refund.update({ status: "REJECTED" }), without a condition.
Reject(a) ==
  /\ admin[a] = "rejecting"
  /\ RefundAt(adminOn[a], "REJECTED")
  /\ AdminAt(a, "idle")
  /\ UNCHANGED <<vars, refundOf, adminOn, refunded>>

\* refundPayment reads the payment: only a SUCCEEDED one can be refunded.
CheckPayment(a) ==
  /\ admin[a] = "approving"
  /\ AdminAt(a, IF payment[refundOf[adminOn[a]]] = "SUCCEEDED"
                THEN "charging" ELSE "idle")
  /\ UNCHANGED <<vars, refund, refundOf, adminOn, refunded>>

\* provider.refundCharge: refused, or the captured money is returned.
ReturnMoney(a) ==
  /\ admin[a] = "charging"
  /\ LET o == refundOf[adminOn[a]]
     IN  \/ AdminAt(a, "idle") /\ UNCHANGED <<charge, hook>>
         \/ /\ charge[o] \in {"captured", "reversed"}
            /\ charge' = [charge EXCEPT ![o] = "reversed"]
            /\ Announce(o, "refunded")
            /\ AdminAt(a, "returned")
  /\ UNCHANGED <<inputs, shopVars, requestVars, orderStatus, reply, payment,
                 acked, grantVars, refund, refundOf, adminOn, refunded>>

\* markInvoiceRefunded uses the global client, not the transaction: it is
\* committed before the transaction, and stays when that rolls back.
MarkInvoices(a) ==
  /\ admin[a] = "returned"
  /\ LET o == refundOf[adminOn[a]]
     IN  invoice' = [invoice EXCEPT
                       ![o] = IF @ = "none" THEN @ ELSE "REFUNDED"]
  /\ AdminAt(a, "recording")
  /\ UNCHANGED <<inputs, shopVars, requestVars, orderStatus, chargeVars,
                 payment, hookVars, sales, licence, licenceOrder,
                 subscription, refund, refundOf, adminOn, refunded>>

\* The transaction: no statement in it looks at the refund's status again.
\* Subscriptions are canceled by user and product, licences only where they
\* were issued by this order.
RecordRefund(a) ==
  /\ admin[a] = "recording"
  /\ LET f == adminOn[a]
         o == refundOf[f]
     IN  /\ RefundAt(f, "PROCESSED")
         /\ refunded' = [refunded EXCEPT ![o] = @ + 1]
         /\ payment' = [payment EXCEPT ![o] = "REFUNDED"]
         /\ orderStatus' = [orderStatus EXCEPT ![o] = "REFUNDED"]
         /\ licence' = [x \in Possessions |->
              IF x \in LicensedBy(o) /\ licenceOrder[x] = o
              THEN "REVOKED" ELSE licence[x]]
         /\ subscription' = [x \in Possessions |->
              IF x \in SubscribedBy(o) /\ subscription[x] # "none"
              THEN "CANCELED" ELSE subscription[x]]
  /\ AdminAt(a, "idle")
  /\ UNCHANGED <<inputs, shopVars, requestVars, chargeVars, hookVars, sales,
                 invoice, licenceOrder, refundOf, adminOn>>

\* The call dies, or one of its awaited calls throws.
AdminDies(a) ==
  /\ admin[a] # "idle"
  /\ AdminAt(a, "idle")
  /\ UNCHANGED <<vars, refund, refundOf, adminOn, refunded>>

-----------------------------------------------------------------------------
RefundRequest(f) ==
  \/ \E o \in Requests : AskRefund(f, o)
  \/ CheckExisting(f) \/ CreateRefund(f)

AdminCall(a) ==
  \/ \E f \in Refunds, step \in AdminSteps : OpenRefund(a, f, step)
  \/ Reject(a) \/ CheckPayment(a) \/ ReturnMoney(a) \/ MarkInvoices(a)
  \/ RecordRefund(a) \/ AdminDies(a)

RefundNext ==
  \/ Next /\ UNCHANGED refundVars
  \/ \E f \in Refunds : RefundRequest(f)
  \/ \E a \in Admins : AdminCall(a)

RefundSpec == RefundInit /\ [][RefundNext]_allVars
-----------------------------------------------------------------------------
(* Properties.                                                             *)

\* Sellers are only debited for a sale they were credited for, and only when
\* the provider had returned the buyer's money.
DebitFollowsSale ==
  \A o \in Requests :
    refunded[o] > 0 => sales[o] = 1 /\ charge[o] = "reversed"

\* A refund takes back what its own order granted and nothing else: when two
\* orders bought one product, refunding the one that did not issue the licence
\* leaves the licence alone.
RevokedByItsRefund ==
  \A x \in Possessions :
    licence[x] = "REVOKED" =>
      \E o \in Requests : licenceOrder[x] = o /\ refunded[o] > 0

\* Every state is well typed, no debit comes without its sale and no revocation
\* without its refund.
RefundInv == RefundTypeOK /\ DebitFollowsSale /\ RevokedByItsRefund

\* A refund is final: a success event that arrives late, or a second
\* completion, neither makes the order PAID again nor revives its licences.
RefundIsFinal ==
  \A o \in Requests :
    refunded[o] > 0 =>
      /\ orderStatus[o] # "PAID"
      /\ \A x \in Possessions : licenceOrder[x] = o => licence[x] = "REVOKED"

-----------------------------------------------------------------------------
(* A sentence of the code that its behaviour contradicts.                   *)

\* approveAndProcessRefund is "idempotent against a duplicate click": an order
\* is refunded once.
RefundedAtMostOnce == \A o \in Requests : refunded[o] <= 1
=============================================================================
