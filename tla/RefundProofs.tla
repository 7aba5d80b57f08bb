---------------------------- MODULE RefundProofs ----------------------------
(***************************************************************************)
(* Refunds on top of checkout, for every set of orders, refunds and         *)
(* administrators: money, ledger and licences agree, and a refund is final, *)
(* although nothing locks the refund row and the success event of the same  *)
(* order may arrive at any time.                                           *)
(*                                                                         *)
(* The argument: the invoices of a settled order are never taken away, so  *)
(* completePaidOrder throws for it ever after; what a refund revokes is     *)
(* therefore not granted again.                                            *)
(***************************************************************************)
EXTENDS Refunds, OrdersProofs

USE OrdersAssumption

\* Whoever works on a refund works on one that was asked for a settled order;
\* from the provider's answer on, the money is back.
CallsInv ==
  /\ \A f \in Refunds : refund[f] # "idle" =>
       refundOf[f] \in Requests /\ sales[refundOf[f]] = 1
  /\ \A a \in Admins : admin[a] # "idle" =>
       /\ adminOn[a] \in Refunds /\ refund[adminOn[a]] # "idle"
       /\ admin[a] \in {"returned", "recording"} =>
            charge[refundOf[adminOn[a]]] = "reversed"

FinalInv == DebitFollowsSale /\ RevokedByItsRefund /\ RefundIsFinal

RefundIInv ==
  /\ RefundTypeOK
  /\ SettlementInv
  /\ LicenceInv
  /\ CallsInv
  /\ FinalInv
-----------------------------------------------------------------------------
LEMMA RefundStart == RefundInit => RefundIInv
  <1> SUFFICES ASSUME RefundInit
               PROVE  RefundIInv
    OBVIOUS
  <1>1. TypeOK /\ SettlementInv
    BY TypeInit, SettlementInit DEF RefundInit
  <1>2. LicenceInv /\ RevokedByItsRefund
    BY DEF RefundInit, Init, LicenceInv, LicenceTracesToSale, RevokedByItsRefund
  <1> QED
    BY <1>1, <1>2 DEF RefundInit, RefundIInv, RefundTypeOK, RefundSteps, AdminSteps,
         CallsInv, FinalInv, DebitFollowsSale, RefundIsFinal

\* A settled order has its invoices, was placed and stays settled: a step of
\* checkout, payments or webhooks neither settles it again nor changes its items.
LEMMA CheckoutKeepsRefunds ==
  ASSUME RefundIInv, Next, UNCHANGED refundVars
  PROVE  CallsInv' /\ FinalInv'
  <1> USE DEF RefundIInv, RefundTypeOK, TypeOK, refundVars, CallsInv, FinalInv,
              DebitFollowsSale, RevokedByItsRefund, RefundIsFinal
  <1>1. \A q \in Requests : charge[q] = "reversed" => charge'[q] = "reversed"
    BY GrantStep
  <1>2. CASE /\ UNCHANGED grantVars
             /\ \A q \in Requests : orderStatus'[q] = "PAID" => orderStatus[q] = "PAID"
    BY <1>1, <1>2 DEF grantVars
  <1>3. ASSUME NEW o \in Requests, invoice[o] = "none", WriteSale(o)
        PROVE  CallsInv' /\ FinalInv'
    <2>1. sales[o] = 0 /\ refunded[o] = 0
      BY <1>3 DEF SettlementInv, SaleInv
    <2>2. \A q \in Requests : q # o =>
            sales'[q] = sales[q] /\ orderStatus'[q] = orderStatus[q]
      BY <1>3 DEF WriteSale
    <2>3. \A x \in Possessions : licence[x] # "none" =>
            licence'[x] = licence[x] /\ licenceOrder'[x] = licenceOrder[x]
      BY <1>3 DEF WriteSale
    <2>4. \A x \in Possessions : licence[x] = "none" =>
            licence'[x] \in {"none", "ACTIVE"} /\ licenceOrder'[x] \in {NoOrder, o}
      BY <1>3 DEF WriteSale, LicenceInv
    <2>5. CallsInv'
      BY <1>1, <2>1, <2>2
    <2>6. DebitFollowsSale'
      BY <1>1, <2>1, <2>2
    <2>7. RevokedByItsRefund'
      <3>1. \A x \in Possessions : licence'[x] = "REVOKED" => licence[x] = "REVOKED"
        BY <2>3, <2>4
      <3> QED
        BY <2>3, <3>1
    <2>8. RefundIsFinal'
      <3>1. \A x \in Possessions, q \in Requests :
              licenceOrder'[x] = q /\ q # o => licence[x] # "none"
        BY <2>3, <2>4
      <3> QED
        BY <2>1, <2>2, <2>3, <3>1
    <2> QED
      BY <2>5, <2>6, <2>7, <2>8
  <1> QED
    BY <1>2, <1>3, GrantStep

\* A refund is asked for a settled order, because only a PAID one is taken.
LEMMA RequestsKeepRefunds ==
  ASSUME RefundIInv, NEW f \in Refunds, RefundRequest(f)
  PROVE  RefundIInv'
  <1> USE DEF RefundIInv, RefundTypeOK, RefundAt, RefundSteps, CallsInv
  <1>1. UNCHANGED <<vars, admin, adminOn, refunded>>
    BY DEF RefundRequest, AskRefund, CheckExisting, CreateRefund
  <1>2. TypeOK' /\ SettlementInv' /\ LicenceInv'
    BY <1>1, TypeStep, SettlementStep, LicenceStep DEF SettlementInv
  <1>3. FinalInv'
    BY <1>1 DEF FinalInv, DebitFollowsSale, RevokedByItsRefund, RefundIsFinal, vars,
                inputs, requestVars, chargeVars, grantVars
  <1>4. ASSUME NEW o \in Requests, AskRefund(f, o)
        PROVE  RefundIInv'
    <2>1. sales[o] = 1
      BY <1>4 DEF AskRefund, SettlementInv, SaleInv
    <2>2. UNCHANGED <<sales, charge>>
      BY <1>1 DEF vars, chargeVars, grantVars
    <2> QED
      BY <1>1, <1>2, <1>3, <1>4, <2>1, <2>2 DEF AskRefund
  <1>5. CASE CheckExisting(f)
    BY <1>1, <1>2, <1>3, <1>5 DEF CheckExisting, vars, chargeVars, grantVars
  <1>6. CASE CreateRefund(f)
    BY <1>1, <1>2, <1>3, <1>6 DEF CreateRefund, vars, chargeVars, grantVars
  <1> QED
    BY <1>4, <1>5, <1>6 DEF RefundRequest

\* The calls of administrators that change neither order nor money.
LEMMA DecisionsKeepRefunds ==
  ASSUME RefundIInv, NEW a \in Admins,
         \/ \E f \in Refunds, step \in AdminSteps : OpenRefund(a, f, step)
         \/ Reject(a) \/ CheckPayment(a) \/ AdminDies(a)
  PROVE  RefundIInv'
  <1> USE DEF RefundIInv, RefundTypeOK, RefundAt, AdminAt, RefundSteps, AdminSteps,
              CallsInv
  <1>1. UNCHANGED <<vars, refundOf, refunded>>
    BY DEF OpenRefund, Reject, CheckPayment, AdminDies
  <1>2. TypeOK' /\ SettlementInv' /\ LicenceInv'
    BY <1>1, TypeStep, SettlementStep, LicenceStep DEF SettlementInv
  <1>3. FinalInv' /\ UNCHANGED <<sales, charge>>
    BY <1>1 DEF FinalInv, DebitFollowsSale, RevokedByItsRefund, RefundIsFinal, vars,
                inputs, requestVars, chargeVars, grantVars
  <1>4. ASSUME NEW f \in Refunds, NEW step \in AdminSteps, OpenRefund(a, f, step)
        PROVE  RefundIInv'
    BY <1>1, <1>2, <1>3, <1>4 DEF OpenRefund
  <1>5. CASE Reject(a)
    BY <1>1, <1>2, <1>3, <1>5 DEF Reject
  <1>6. CASE CheckPayment(a)
    BY <1>1, <1>2, <1>3, <1>6 DEF CheckPayment
  <1>7. CASE AdminDies(a)
    BY <1>1, <1>2, <1>3, <1>7 DEF AdminDies
  <1> QED
    BY <1>4, <1>5, <1>6, <1>7

\* The provider returns the money: of a charge that was captured.
LEMMA MoneyKeepsRefunds ==
  ASSUME RefundIInv, NEW a \in Admins, ReturnMoney(a)
  PROVE  RefundIInv'
  <1> USE DEF RefundIInv, RefundTypeOK, AdminAt, AdminSteps, CallsInv, inputs,
              shopVars, requestVars, chargeVars, hookVars, grantVars
  <1> DEFINE o == refundOf[adminOn[a]]
  <1>1. o \in Requests
    BY DEF ReturnMoney
  <1>2. /\ UNCHANGED <<inputs, shopVars, requestVars, orderStatus, reply, payment, acked,
                       grantVars, refund, refundOf, adminOn, refunded>>
        /\ \/ admin' = [admin EXCEPT ![a] = "idle"] /\ UNCHANGED <<charge, hook>>
           \/ /\ charge[o] \in {"captured", "reversed"}
              /\ charge' = [charge EXCEPT ![o] = "reversed"]
              /\ Announce(o, "refunded")
              /\ admin' = [admin EXCEPT ![a] = "returned"]
    BY DEF ReturnMoney
  <1> HIDE DEF o
  <1>3. \A q \in Requests : /\ charge[q] = "reversed" => charge'[q] = "reversed"
                            /\ charge[q] # "none" <=> charge'[q] # "none"
                            /\ charge[q] = "closed" => charge'[q] = "closed"
                            /\ q \in Captured <=> (q \in Captured)'
    BY <1>1, <1>2 DEF TypeOK, Captured
  <1>4. TypeOK'
    BY <1>1, <1>2, AnnounceType DEF TypeOK, ChargeState
  <1>5. SettlementInv'
    <2>1. StepInv'
      BY <1>2, <1>3 DEF SettlementInv, StepInv, Placed
    <2>2. SaleInv'
      BY <1>2, <1>3 DEF SettlementInv, SaleInv
    <2>3. ASSUME NEW q \in Requests, NEW x \in Outcomes, hook'[<<q, x>>] # "none"
          PROVE  charge[q] # "none" /\ (x = "succeeded" => q \in Captured)
      <3>1. CASE hook[<<q, x>>] # "none"
        BY <3>1 DEF SettlementInv, ChargeInv, ChargeFacts
      <3>2. CASE hook[<<q, x>>] = "none"
        <4>1. Announce(o, "refunded") /\ charge[o] \in {"captured", "reversed"}
          BY <1>2, <2>3, <3>2
        <4>2. q = o /\ x = "refunded"
          BY <1>1, <2>3, <3>2, <4>1, AnnounceEffect
        <4> QED
          BY <4>1, <4>2
      <3> QED
        BY <3>1, <3>2
    <2>4. ChargeInv'
      BY <1>2, <1>3, <2>3 DEF SettlementInv, ChargeInv, ChargeFacts, Placed
    <2> QED
      BY <2>1, <2>2, <2>4 DEF SettlementInv
  <1>6. LicenceInv' /\ FinalInv'
    BY <1>2, <1>3 DEF LicenceInv, LicenceTracesToSale, LicensedBy, FinalInv,
         DebitFollowsSale, RevokedByItsRefund, RefundIsFinal
  <1>7. CallsInv'
    <2>1. admin'[a] = "idle" \/ charge'[o] = "reversed"
      BY <1>1, <1>2 DEF TypeOK
    <2>2. \A b \in Admins : b # a => admin'[b] = admin[b]
      BY <1>2
    <2>3. refundOf[adminOn[a]] = o /\ admin[a] # "idle"
      BY DEF o, ReturnMoney
    <2> QED
      BY <1>2, <1>3, <2>1, <2>2, <2>3
  <1> QED
    BY <1>2, <1>4, <1>5, <1>6, <1>7

\* Invoices are marked, never removed.
LEMMA InvoicesKeepRefunds ==
  ASSUME RefundIInv, NEW a \in Admins, MarkInvoices(a)
  PROVE  RefundIInv'
  <1> USE DEF RefundIInv, RefundTypeOK, AdminAt, AdminSteps, CallsInv, inputs,
              shopVars, requestVars, chargeVars, hookVars, MarkInvoices
  <1>1. refundOf[adminOn[a]] \in Requests
    OBVIOUS
  <1>2. TypeOK'
    BY <1>1 DEF TypeOK
  <1>3. SettlementInv'
    BY <1>1 DEF TypeOK, SettlementInv, StepInv, SaleInv, ChargeInv, ChargeFacts, Placed,
         Captured
  <1>4. LicenceInv' /\ FinalInv'
    BY DEF LicenceInv, LicenceTracesToSale, LicensedBy, FinalInv, DebitFollowsSale,
         RevokedByItsRefund, RefundIsFinal
  <1>5. CallsInv'
    OBVIOUS
  <1> QED
    BY <1>2, <1>3, <1>4, <1>5

\* The refund transaction finds every licence the order issued, because each
\* traces back to it.
LEMMA RecordKeepsRefunds ==
  ASSUME RefundIInv, NEW a \in Admins, RecordRefund(a)
  PROVE  RefundIInv'
  <1> USE DEF RefundIInv, RefundTypeOK, RefundAt, AdminAt, RefundSteps, AdminSteps,
              CallsInv, inputs, shopVars, requestVars, chargeVars, hookVars
  <1>1. PICK f \in Refunds, o \in Requests :
          /\ f = adminOn[a] /\ o = refundOf[f]
          /\ sales[o] = 1 /\ charge[o] = "reversed"
    BY DEF RecordRefund
  <1>2. /\ admin[a] = "recording"
        /\ refund' = [refund EXCEPT ![f] = "PROCESSED"]
        /\ refunded' = [refunded EXCEPT ![o] = @ + 1]
        /\ payment' = [payment EXCEPT ![o] = "REFUNDED"]
        /\ orderStatus' = [orderStatus EXCEPT ![o] = "REFUNDED"]
        /\ licence' = [x \in Possessions |->
             IF x \in LicensedBy(o) /\ licenceOrder[x] = o
             THEN "REVOKED" ELSE licence[x]]
        /\ subscription' = [x \in Possessions |->
             IF x \in SubscribedBy(o) /\ subscription[x] # "none"
             THEN "CANCELED" ELSE subscription[x]]
        /\ admin' = [admin EXCEPT ![a] = "idle"]
        /\ UNCHANGED <<inputs, shopVars, requestVars, chargeVars, hookVars, sales,
                       invoice, licenceOrder, refundOf, adminOn>>
    BY <1>1 DEF RecordRefund
  <1>3. RefundTypeOK'
    <2>1. licence' \in [Possessions -> {"none", "ACTIVE", "REVOKED"}]
      BY <1>2 DEF TypeOK
    <2>2. subscription' \in [Possessions -> {"none", "ACTIVE", "CANCELED"}]
      BY <1>2 DEF TypeOK
    <2> QED
      BY <1>2, <2>1, <2>2 DEF TypeOK, OrderStatus, PaymentStatus
  <1>4. SettlementInv'
    <2>1. Placed(o) /\ \A q \in Requests : Placed(q)' <=> Placed(q)
      BY <1>1, <1>2 DEF TypeOK, SettlementInv, ChargeInv, ChargeFacts, Placed
    <2>2. StepInv'
      BY <1>2, <2>1 DEF TypeOK, SettlementInv, StepInv, Placed
    <2>3. ChargeInv'
      BY <1>2, <2>1 DEF SettlementInv, ChargeInv, ChargeFacts, Captured
    <2>4. SaleInv'
      BY <1>2 DEF TypeOK, SettlementInv, SaleInv, Captured
    <2> QED
      BY <2>2, <2>3, <2>4 DEF SettlementInv
  <1>5. \A x \in Possessions : licenceOrder[x] = o => x \in LicensedBy(o)
    BY DEF LicenceInv, LicenceTracesToSale
  <1>6. LicenceInv'
    <2>1. \A x \in Possessions : licence'[x] = "none" <=> licence[x] = "none"
      BY <1>2 DEF TypeOK, LicenceInv
    <2> QED
      BY <1>2, <2>1 DEF LicenceInv, LicenceTracesToSale, LicensedBy
  <1>7. DebitFollowsSale'
    <2>1. \A q \in Requests : q # o => refunded'[q] = refunded[q]
      BY <1>2
    <2> QED
      BY <1>1, <1>2, <2>1 DEF FinalInv, DebitFollowsSale
  <1>8. RevokedByItsRefund'
    <2>1. refunded'[o] > 0 /\ \A q \in Requests : refunded[q] > 0 => refunded'[q] > 0
      BY <1>2
    <2> QED
      BY <1>2, <2>1 DEF FinalInv, RevokedByItsRefund
  <1>9. RefundIsFinal'
    <2>1. \A q \in Requests : q # o => refunded'[q] = refunded[q]
      BY <1>2
    <2> QED
      BY <1>2, <1>5, <2>1 DEF TypeOK, FinalInv, RefundIsFinal
  <1>10. CallsInv'
    BY <1>1, <1>2
  <1> QED
    BY <1>3, <1>4, <1>6, <1>7, <1>8, <1>9, <1>10 DEF FinalInv

-----------------------------------------------------------------------------
\* The invariant is inductive.
THEOREM RefundInvariant == RefundSpec => []RefundIInv
  <1>1. RefundInit => RefundIInv
    BY RefundStart
  <1>2. RefundIInv /\ [RefundNext]_allVars => RefundIInv'
    <2> SUFFICES ASSUME RefundIInv, [RefundNext]_allVars
                 PROVE  RefundIInv'
      OBVIOUS
    <2>1. CASE UNCHANGED allVars
      <3>1. TypeOK' /\ SettlementInv' /\ LicenceInv'
        BY <2>1, TypeStep, SettlementStep, LicenceStep
        DEF RefundIInv, RefundTypeOK, allVars, SettlementInv
      <3> QED
        BY <2>1, <3>1 DEF RefundIInv, RefundTypeOK, CallsInv, FinalInv,
             DebitFollowsSale, RevokedByItsRefund, RefundIsFinal, allVars, refundVars,
             vars, chargeVars, grantVars
    <2>2. CASE Next /\ UNCHANGED refundVars
      <3>1. TypeOK' /\ SettlementInv' /\ LicenceInv'
        BY <2>2, TypeStep, SettlementStep, LicenceStep
        DEF RefundIInv, RefundTypeOK, SettlementInv
      <3>2. CallsInv' /\ FinalInv'
        BY <2>2, CheckoutKeepsRefunds
      <3> QED
        BY <2>2, <3>1, <3>2 DEF RefundIInv, RefundTypeOK, refundVars
    <2>3. ASSUME NEW a \in Admins, AdminCall(a)
          PROVE  RefundIInv'
      BY <2>3, DecisionsKeepRefunds, MoneyKeepsRefunds, InvoicesKeepRefunds,
         RecordKeepsRefunds DEF AdminCall
    <2> QED
      BY <2>1, <2>2, <2>3, RequestsKeepRefunds DEF RefundNext
  <1> QED
    BY <1>1, <1>2, PTL DEF RefundSpec

\* No debit without its sale and returned money, no revocation without the refund
\* of the order that issued the licence.
THEOREM RefundsSafe == RefundSpec => []RefundInv
  <1>1. RefundIInv => RefundInv
    BY DEF RefundIInv, FinalInv, RefundInv
  <1> QED
    BY <1>1, RefundInvariant, PTL

\* A refunded order is never PAID again and its licences stay revoked.
THEOREM RefundsFinal == RefundSpec => []RefundIsFinal
  <1>1. RefundIInv => RefundIsFinal
    BY DEF RefundIInv, FinalInv
  <1> QED
    BY <1>1, RefundInvariant, PTL
=============================================================================
