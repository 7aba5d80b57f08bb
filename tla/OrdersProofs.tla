---------------------------- MODULE OrdersProofs ----------------------------
(***************************************************************************)
(* Proofs about Orders, for every set of requests, users, products, keys   *)
(* and outcomes, with and without crashes.                                 *)
(***************************************************************************)
EXTENDS Orders, TLAPS

USE OrdersAssumption

LEMMA EventPair ==
  ASSUME NEW e \in Events
  PROVE  \E o \in Requests, x \in Outcomes : e = <<o, x>>
  <1>1. e[1] \in Requests /\ e[2] \in Outcomes /\ e = <<e[1], e[2]>>
    BY SMT DEF Events
  <1>2. QED
    BY <1>1

LEMMA TypeInit == Init => TypeOK
  BY DEF Init, TypeOK, RequestSteps, OrderStatus, PaymentStatus, ChargeState,
         HookSteps, Events, Possessions

LEMMA AnnounceType ==
  ASSUME TypeOK, NEW o \in Requests, NEW x, Announce(o, x)
  PROVE  hook' \in [Events -> HookSteps]
  BY DEF TypeOK, Announce, HookSteps

LEMMA SaleType ==
  ASSUME TypeOK, NEW o \in Requests, WriteSale(o)
  PROVE  /\ orderStatus' \in [Requests -> OrderStatus]
         /\ cart' \in [Users -> SUBSET Products]
         /\ sales' \in [Requests -> Nat]
         /\ invoice' \in [Requests -> {"none", "PAID", "REFUNDED"}]
         /\ licence' \in [Possessions -> {"none", "ACTIVE", "REVOKED"}]
         /\ licenceOrder' \in [Possessions -> Requests \cup {NoOrder}]
         /\ subscription' \in [Possessions -> {"none", "ACTIVE", "CANCELED"}]
  <1>1. orderStatus' \in [Requests -> OrderStatus]
    BY DEF TypeOK, WriteSale, OrderStatus
  <1>2. cart' \in [Users -> SUBSET Products]
    BY DEF TypeOK, WriteSale
  <1>3. /\ sales' \in [Requests -> Nat]
        /\ invoice' \in [Requests -> {"none", "PAID", "REFUNDED"}]
    BY DEF TypeOK, WriteSale
  <1>4. licence' \in [Possessions -> {"none", "ACTIVE", "REVOKED"}]
    BY DEF TypeOK, WriteSale
  <1>5. licenceOrder' \in [Possessions -> Requests \cup {NoOrder}]
    BY DEF TypeOK, WriteSale
  <1>6. subscription' \in [Possessions -> {"none", "ACTIVE", "CANCELED"}]
    BY DEF TypeOK, WriteSale
  <1>7. QED
    BY <1>1, <1>2, <1>3, <1>4, <1>5, <1>6

LEMMA CompletionType ==
  ASSUME TypeOK, NEW o \in Requests,
         CompletePaidOrder(o) \/ CompletionThrows(o)
  PROVE  /\ orderStatus' \in [Requests -> OrderStatus]
         /\ cart' \in [Users -> SUBSET Products]
         /\ sales' \in [Requests -> Nat]
         /\ invoice' \in [Requests -> {"none", "PAID", "REFUNDED"}]
         /\ licence' \in [Possessions -> {"none", "ACTIVE", "REVOKED"}]
         /\ licenceOrder' \in [Possessions -> Requests \cup {NoOrder}]
         /\ subscription' \in [Possessions -> {"none", "ACTIVE", "CANCELED"}]
  <1>1. CASE WriteSale(o)
    BY <1>1, SaleType
  <1>2. CASE UNCHANGED <<orderStatus, cart, grantVars>>
    BY <1>2 DEF TypeOK, grantVars
  <1>3. QED
    BY <1>1, <1>2 DEF CompletePaidOrder, CompletionThrows, AlreadyPaid

LEMMA ShopType ==
  ASSUME TypeOK, ShopStep
  PROVE  TypeOK'
  <1>1. ASSUME NEW u \in Users, NEW p \in Products, AddToCart(u, p)
        PROVE  TypeOK'
    BY <1>1 DEF TypeOK, AddToCart, inputs, requestVars, chargeVars, hookVars,
                grantVars
  <1>2. ASSUME NEW u \in Users, NEW p \in Products, RemoveFromCart(u, p)
        PROVE  TypeOK'
    BY <1>2 DEF TypeOK, RemoveFromCart, inputs, requestVars, chargeVars,
                hookVars, grantVars
  <1>3. ASSUME NEW p \in Products, ToggleListing(p)
        PROVE  TypeOK'
    BY <1>3 DEF TypeOK, ToggleListing, inputs, requestVars, chargeVars,
                hookVars, grantVars
  <1>4. QED
    BY <1>1, <1>2, <1>3 DEF ShopStep

LEMMA CheckoutType ==
  ASSUME TypeOK, StepInv, NEW r \in Requests, CheckoutStep(r)
  PROVE  TypeOK'
  <1> USE DEF inputs, shopVars, requestVars, chargeVars, hookVars, grantVars
  <1>1. CASE LookUpKey(r)
    <2>1. /\ pc' \in [Requests -> RequestSteps]
          /\ answer' \in [Requests -> Requests \cup {NoOrder}]
      BY <1>1 DEF TypeOK, LookUpKey, Goto, WithKeyOf, RequestSteps
    <2>2. QED
      BY <1>1, <2>1 DEF TypeOK, LookUpKey
  <1>2. CASE ReadCart(r)
    <2>1. /\ pc' \in [Requests -> RequestSteps]
          /\ items' \in [Requests -> SUBSET Products]
          /\ unlisted' \in [Requests -> SUBSET Products]
      BY <1>2 DEF TypeOK, ReadCart, Goto, RequestSteps
    <2>2. QED
      BY <1>2, <2>1 DEF TypeOK, ReadCart
  <1>3. CASE ReadOwned(r)
    <2>1. /\ pc' \in [Requests -> RequestSteps]
          /\ items' \in [Requests -> SUBSET Products]
          /\ unlisted' \in [Requests -> SUBSET Products]
      BY <1>3 DEF TypeOK, ReadOwned, Goto, RequestSteps
    <2>2. QED
      BY <1>3, <2>1 DEF TypeOK, ReadOwned
  <1>4. CASE CreateOrder(r)
    <2>1. /\ pc' \in [Requests -> RequestSteps]
          /\ answer' \in [Requests -> Requests \cup {NoOrder}]
          /\ orderStatus' \in [Requests -> OrderStatus]
      BY <1>4 DEF TypeOK, CreateOrder, Goto, WithKeyOf, RequestSteps,
                  OrderStatus
    <2>2. QED
      BY <1>4, <2>1 DEF TypeOK, CreateOrder
  <1>5. CASE CreateCharge(r)
    <2>1. /\ pc' \in [Requests -> RequestSteps]
          /\ charge' \in [Requests -> ChargeState]
          /\ reply' \in [Requests ->
                           {"none", "initiated", "succeeded", "failed"}]
      BY <1>5 DEF TypeOK, CreateCharge, Goto, RequestSteps, ChargeState
    <2>2. hook' \in [Events -> HookSteps]
      BY <1>5, AnnounceType DEF TypeOK, CreateCharge
    <2>3. QED
      BY <1>5, <2>1, <2>2 DEF TypeOK, CreateCharge
  <1>6. CASE RecordPayment(r)
    <2>0. reply[r] \in {"initiated", "succeeded", "failed"}
      BY <1>6 DEF TypeOK, StepInv, RecordPayment
    <2>1. payment' \in [Requests -> PaymentStatus]
      BY <1>6, <2>0 DEF TypeOK, RecordPayment, PaymentStatus, PaymentOfReply
    <2>2. pc' \in [Requests -> RequestSteps]
      <3>1. StepAfterReply[reply[r]] \in RequestSteps
        BY <2>0 DEF StepAfterReply, RequestSteps
      <3>2. QED
        BY <1>6, <3>1 DEF TypeOK, RecordPayment, Goto
    <2>3. answer' \in [Requests -> Requests \cup {NoOrder}]
      BY <1>6 DEF TypeOK, RecordPayment
    <2>4. QED
      BY <1>6, <2>1, <2>2, <2>3 DEF TypeOK, RecordPayment
  <1>7. CASE SettleNow(r)
    <2>1. CompletePaidOrder(r) \/ CompletionThrows(r)
      BY <1>7 DEF SettleNow
    <2>2. /\ pc' \in [Requests -> RequestSteps]
          /\ answer' \in [Requests -> Requests \cup {NoOrder}]
      BY <1>7 DEF TypeOK, SettleNow, Goto, RequestSteps
    <2>3. QED
      BY <1>7, <2>1, <2>2, CompletionType DEF TypeOK, SettleNow
  <1>8. CASE FailNow(r)
    <2>1. /\ pc' \in [Requests -> RequestSteps]
          /\ answer' \in [Requests -> Requests \cup {NoOrder}]
          /\ orderStatus' \in [Requests -> OrderStatus]
      BY <1>8 DEF TypeOK, FailNow, MarkOrderFailed, Goto, RequestSteps,
                  OrderStatus
    <2>2. QED
      BY <1>8, <2>1 DEF TypeOK, FailNow
  <1>9. QED
    BY <1>1, <1>2, <1>3, <1>4, <1>5, <1>6, <1>7, <1>8 DEF CheckoutStep

LEMMA OtherType ==
  ASSUME TypeOK, NEW r \in Requests, RequestDies(r) \/ ProviderStep(r)
  PROVE  TypeOK'
  <1> USE DEF inputs, shopVars, requestVars, chargeVars, hookVars, grantVars
  <1>1. CASE RequestDies(r)
    <2>1. pc' \in [Requests -> RequestSteps]
      BY <1>1 DEF TypeOK, RequestDies, Goto, RequestSteps
    <2>2. QED
      BY <1>1, <2>1 DEF TypeOK, RequestDies
  <1>2. ASSUME NEW from, NEW to \in ChargeState, NEW x,
               ProviderMoves(r, from, to, x)
        PROVE  TypeOK'
    <2>1. hook' \in [Events -> HookSteps]
      BY <1>2, AnnounceType DEF ProviderMoves
    <2>2. charge' \in [Requests -> ChargeState]
      BY <1>2 DEF TypeOK, ProviderMoves
    <2>3. QED
      BY <1>2, <2>1, <2>2 DEF TypeOK, ProviderMoves
  <1>3. CASE ProviderStep(r)
    BY <1>2, <1>3 DEF ProviderStep, ProviderDeclines, ProviderCaptures,
                      ProviderReverses, ChargeState
  <1>4. QED
    BY <1>1, <1>3

LEMMA HookType ==
  ASSUME TypeOK, NEW e \in Events,
         HookStep(e) \/ AcknowledgeDuplicate(e) \/ HookDies(e)
  PROVE  TypeOK'
  <1> USE DEF inputs, shopVars, requestVars, chargeVars, hookVars, grantVars
  <1>0. e[1] \in Requests /\ e[2] \in Outcomes
    BY DEF Events
  <1>1. CASE ClaimEvent(e)
    BY <1>1 DEF TypeOK, ClaimEvent, HookAt, HookSteps
  <1>2. CASE AcknowledgeDuplicate(e)
    BY <1>2 DEF TypeOK, AcknowledgeDuplicate
  <1>3. CASE HookDies(e)
    BY <1>3 DEF TypeOK, HookDies, HookAt, HookSteps
  <1>4. CASE MatchPayment(e)
    <2>1. payment' \in [Requests -> PaymentStatus]
      <3>0. e[2] \in {"succeeded", "failed", "refunded"}
        BY <1>0
      <3>1. PaymentOfOutcome[e[2]] \in PaymentStatus
        BY <3>0 DEF PaymentOfOutcome, PaymentStatus
      <3>2. QED
        BY <1>4, <1>0, <3>1 DEF TypeOK, MatchPayment
    <2>2. /\ hook' \in [Events -> HookSteps]
          /\ acked' \subseteq Events
      BY <1>4 DEF TypeOK, MatchPayment, HookAt, HookSteps
    <2>3. QED
      BY <1>4, <2>1, <2>2 DEF TypeOK, MatchPayment
  <1>5. CASE ApplyEvent(e)
    <2>1. /\ hook' \in [Events -> HookSteps]
          /\ acked' \subseteq Events
      BY <1>5 DEF TypeOK, ApplyEvent, HookAt, HookSteps
    <2>2. CASE CompletePaidOrder(e[1]) \/ CompletionThrows(e[1])
      BY <1>5, <1>0, <2>1, <2>2, CompletionType DEF TypeOK, ApplyEvent
    <2>3. CASE MarkOrderFailed(e[1]) /\ UNCHANGED <<cart, grantVars>>
      <3>1. orderStatus' \in [Requests -> OrderStatus]
        BY <2>3 DEF TypeOK, MarkOrderFailed, OrderStatus
      <3>2. QED
        BY <1>5, <2>1, <2>3, <3>1 DEF TypeOK, ApplyEvent
    <2>4. CASE UNCHANGED <<orderStatus, cart, grantVars>>
      BY <1>5, <2>1, <2>4 DEF TypeOK, ApplyEvent
    <2>5. QED
      BY <1>5, <2>2, <2>3, <2>4 DEF ApplyEvent, OrderEffect
  <1>6. QED
    BY <1>1, <1>2, <1>3, <1>4, <1>5 DEF HookStep

LEMMA TypeStep ==
  ASSUME TypeOK, StepInv, [Next]_vars
  PROVE  TypeOK'
  <1>1. CASE UNCHANGED vars
    BY <1>1 DEF TypeOK, vars, inputs, shopVars, requestVars, chargeVars,
                hookVars, grantVars
  <1>2. QED
    BY <1>1, ShopType, CheckoutType, OtherType, HookType DEF Next

-----------------------------------------------------------------------------
(* SettlementInv is inductive.  What completePaidOrder and the provider do  *)
(* to one order is stated once, for the steps that call them.               *)

LEMMA CompletionEffect ==
  ASSUME TypeOK, SaleInv, NEW o \in Requests, o \in Captured,
         CompletePaidOrder(o) \/ CompletionThrows(o)
  PROVE  /\ \A q \in Requests :
              /\ orderStatus[q] = "none" /\ q # o => orderStatus'[q] = "none"
              /\ orderStatus'[q] = "none" => orderStatus[q] = "none"
         /\ \A q \in Requests :
              /\ \/ sales'[q] = 0 /\ invoice'[q] = "none"
                 \/ sales'[q] = 1 /\ invoice'[q] # "none"
              /\ orderStatus'[q] = "PAID" => sales'[q] = 1
              /\ sales'[q] = 1 => q \in Captured
  <1>1. CASE orderStatus[o] # "PAID" /\ invoice[o] = "none" /\ WriteSale(o)
    BY <1>1 DEF TypeOK, SaleInv, WriteSale
  <1>2. CASE UNCHANGED <<orderStatus, cart, grantVars>>
    BY <1>2 DEF SaleInv, grantVars
  <1>3. QED
    BY <1>1, <1>2 DEF CompletePaidOrder, CompletionThrows, AlreadyPaid

LEMMA AnnounceEffect ==
  ASSUME TypeOK, NEW r \in Requests, NEW outcome, Announce(r, outcome)
  PROVE  \A o \in Requests, x \in Outcomes :
           /\ o # r \/ x # outcome => hook'[<<o, x>>] = hook[<<o, x>>]
           /\ hook'[<<o, x>>] # "none" =>
                hook[<<o, x>>] # "none" \/ (o = r /\ x = outcome)
  BY DEF TypeOK, Announce, Events

LEMMA SettlementInit == Init => SettlementInv
  BY DEF Init, SettlementInv, StepInv, ChargeInv, ChargeFacts, SaleInv, Placed, Events

LEMMA ShopSettlement ==
  ASSUME TypeOK, SettlementInv, ShopStep
  PROVE  SettlementInv'
  <1>1. UNCHANGED <<pc, items, orderStatus, charge, reply, hook, sales,
                    invoice>>
    BY DEF ShopStep, AddToCart, RemoveFromCart, ToggleListing, requestVars,
           chargeVars, hookVars, grantVars
  <1>2. QED
    BY <1>1 DEF SettlementInv, StepInv, ChargeInv, ChargeFacts, SaleInv, Placed, Captured

LEMMA CheckoutSettlement ==
  ASSUME TypeOK, SettlementInv, NEW r \in Requests, CheckoutStep(r)
  PROVE  SettlementInv'
  <1> USE DEF SettlementInv, Placed, Captured
  <1>1. CASE LookUpKey(r)
    <2>1. StepInv'
      BY <1>1 DEF TypeOK, StepInv, LookUpKey, Goto, chargeVars
    <2>2. ChargeInv' /\ SaleInv'
      BY <1>1 DEF ChargeInv, ChargeFacts, SaleInv, LookUpKey, chargeVars, hookVars,
                  grantVars
    <2>3. QED
      BY <2>1, <2>2
  <1>2. CASE ReadCart(r)
    <2>1. StepInv'
      BY <1>2 DEF TypeOK, StepInv, ReadCart, Goto, chargeVars
    <2>2. ChargeInv' /\ SaleInv'
      BY <1>2 DEF ChargeInv, ChargeFacts, SaleInv, ReadCart, chargeVars, hookVars,
                  grantVars
    <2>3. QED
      BY <2>1, <2>2
  <1>3. CASE ReadOwned(r)
    <2>1. StepInv'
      BY <1>3 DEF TypeOK, StepInv, ReadOwned, Goto, chargeVars
    <2>2. ChargeInv' /\ SaleInv'
      BY <1>3 DEF ChargeInv, ChargeFacts, SaleInv, ReadOwned, chargeVars, hookVars,
                  grantVars
    <2>3. QED
      BY <2>1, <2>2
  <1>4. CASE CreateOrder(r)
    <2>1. StepInv'
      <3>1. /\ UNCHANGED <<items, charge, reply>>
            /\ pc[r] = "create" /\ charge[r] = "none" /\ reply[r] = "none"
            /\ \/ /\ pc' = [pc EXCEPT ![r] = "charge"]
                  /\ orderStatus' = [orderStatus EXCEPT ![r] = "PENDING"]
               \/ /\ pc' = [pc EXCEPT ![r] = "done"]
                  /\ UNCHANGED orderStatus
        BY <1>4 DEF StepInv, ChargeInv, ChargeFacts, CreateOrder, Goto, chargeVars
      <3>2. QED
        BY <3>1 DEF TypeOK, StepInv
    <2>2. ChargeInv' /\ SaleInv'
      BY <1>4 DEF TypeOK, ChargeInv, ChargeFacts, SaleInv, CreateOrder, chargeVars,
                  hookVars, grantVars
    <2>3. QED
      BY <2>1, <2>2
  <1>5. CASE CreateCharge(r)
    <2>1. StepInv'
      BY <1>5 DEF TypeOK, StepInv, CreateCharge, Goto
    <2>2. ChargeInv'
      <3>1. /\ charge[r] = "none" /\ Placed(r)
            /\ \A x \in Outcomes : hook[<<r, x>>] = "none"
        BY <1>5 DEF StepInv, ChargeInv, ChargeFacts, CreateCharge
      <3>2. \/ /\ reply' = [reply EXCEPT ![r] = "succeeded"]
               /\ charge' = [charge EXCEPT ![r] = "captured"]
               /\ Announce(r, "succeeded")
            \/ /\ reply' = [reply EXCEPT ![r] = "failed"]
               /\ charge' = [charge EXCEPT ![r] = "closed"]
               /\ Announce(r, "failed")
            \/ /\ reply' = [reply EXCEPT ![r] = "initiated"]
               /\ charge' = [charge EXCEPT ![r] = "open"]
               /\ UNCHANGED hook
        BY <1>5 DEF CreateCharge
      <3>3. UNCHANGED orderStatus
        BY <1>5 DEF CreateCharge
      <3>4. ASSUME NEW o \in Requests, o # r
            PROVE  ChargeFacts(o)'
        <4>1. \A x \in Outcomes : hook'[<<o, x>>] = hook[<<o, x>>]
          BY <3>2, <3>4, AnnounceEffect
        <4>2. UNCHANGED <<charge[o], reply[o]>>
          BY <3>2, <3>4 DEF TypeOK
        <4>3. QED
          BY <3>3, <4>1, <4>2 DEF ChargeInv, ChargeFacts
      <3>5. ChargeFacts(r)'
        <4>1. \A x \in Outcomes : hook'[<<r, x>>] # "none" =>
                /\ charge'[r] # "none"
                /\ x = "succeeded" => charge'[r] = "captured"
          BY <3>1, <3>2, AnnounceEffect DEF TypeOK
        <4>2. /\ charge'[r] \in {"captured", "closed", "open"}
              /\ reply'[r] = "succeeded" => charge'[r] = "captured"
              /\ reply'[r] = "failed" => charge'[r] = "closed"
          BY <3>2 DEF TypeOK
        <4>3. QED
          BY <3>1, <3>3, <4>1, <4>2 DEF ChargeFacts
      <3>6. QED
        BY <3>4, <3>5 DEF ChargeInv
    <2>3. SaleInv'
      BY <1>5 DEF TypeOK, StepInv, SaleInv, CreateCharge, grantVars
    <2>4. QED
      BY <2>1, <2>2, <2>3
  <1>6. CASE RecordPayment(r)
    <2>1. StepInv'
      <3>1. \/ reply[r] = "initiated" /\ StepAfterReply[reply[r]] = "done"
            \/ reply[r] = "succeeded" /\ StepAfterReply[reply[r]] = "settle"
            \/ reply[r] = "failed" /\ StepAfterReply[reply[r]] = "fail"
        BY <1>6 DEF TypeOK, StepInv, RecordPayment, StepAfterReply
      <3>2. QED
        BY <1>6, <3>1 DEF TypeOK, StepInv, RecordPayment, Goto, chargeVars
    <2>2. ChargeInv' /\ SaleInv'
      BY <1>6 DEF ChargeInv, ChargeFacts, SaleInv, RecordPayment, chargeVars, hookVars,
                  grantVars
    <2>3. QED
      BY <2>1, <2>2
  <1>7. CASE SettleNow(r)
    <2>1. r \in Captured /\ orderStatus[r] # "none"
      BY <1>7 DEF StepInv, ChargeInv, ChargeFacts, SettleNow
    <2>2. CompletePaidOrder(r) \/ CompletionThrows(r)
      BY <1>7 DEF SettleNow
    <2>3. SaleInv'
      BY <1>7, <2>1, <2>2, CompletionEffect DEF SaleInv, SettleNow, chargeVars
    <2>4. ChargeInv'
      BY <1>7, <2>1, <2>2, CompletionEffect
      DEF ChargeInv, ChargeFacts, SettleNow, chargeVars, hookVars
    <2>5. StepInv'
      BY <1>7, <2>1, <2>2, CompletionEffect
      DEF TypeOK, StepInv, SettleNow, Goto, chargeVars
    <2>6. QED
      BY <2>3, <2>4, <2>5
  <1>8. CASE FailNow(r)
    <2>1. StepInv'
      BY <1>8 DEF TypeOK, StepInv, FailNow, MarkOrderFailed, Goto, chargeVars
    <2>2. ChargeInv' /\ SaleInv'
      BY <1>8 DEF TypeOK, ChargeInv, ChargeFacts, SaleInv, FailNow, MarkOrderFailed,
                  chargeVars, hookVars, grantVars
    <2>3. QED
      BY <2>1, <2>2
  <1>9. QED
    BY <1>1, <1>2, <1>3, <1>4, <1>5, <1>6, <1>7, <1>8 DEF CheckoutStep

LEMMA OtherSettlement ==
  ASSUME TypeOK, SettlementInv, NEW r \in Requests,
         RequestDies(r) \/ ProviderStep(r)
  PROVE  SettlementInv'
  <1> USE DEF SettlementInv, Placed, Captured
  <1>1. CASE RequestDies(r)
    <2>1. StepInv'
      BY <1>1 DEF TypeOK, StepInv, RequestDies, Goto, chargeVars
    <2>2. ChargeInv' /\ SaleInv'
      BY <1>1 DEF ChargeInv, ChargeFacts, SaleInv, RequestDies, chargeVars,
                  hookVars, grantVars
    <2>3. QED
      BY <2>1, <2>2
  <1>2. CASE ProviderStep(r)
    <2>1. PICK from, to, outcome :
            /\ ProviderMoves(r, from, to, outcome)
            /\ "none" \notin from /\ "closed" \notin from
            /\ to \notin {"none", "closed"}
            /\ outcome = "succeeded" => to = "captured"
            /\ from \cap {"captured", "reversed"} # {} =>
                 to \in {"captured", "reversed"}
      BY <1>2 DEF ProviderStep, ProviderDeclines, ProviderCaptures,
                  ProviderReverses
    <2>2. /\ charge[r] \notin {"none", "closed"}
          /\ charge' = [charge EXCEPT ![r] = to]
          /\ charge'[r] = to
          /\ r \in Captured => r \in Captured'
          /\ Announce(r, outcome)
          /\ UNCHANGED <<pc, items, orderStatus, reply, sales, invoice>>
      BY <2>1 DEF TypeOK, ProviderMoves, requestVars, grantVars
    <2>3. StepInv'
      BY <2>2 DEF TypeOK, StepInv, ChargeInv, ChargeFacts
    <2>4. SaleInv'
      BY <2>2 DEF TypeOK, SaleInv
    <2>5. ASSUME NEW o \in Requests, o # r
          PROVE  ChargeFacts(o)'
      <3>1. \A x \in Outcomes : hook'[<<o, x>>] = hook[<<o, x>>]
        BY <2>2, <2>5, AnnounceEffect
      <3>2. UNCHANGED <<charge[o], reply[o]>>
        BY <2>2, <2>5 DEF TypeOK
      <3>3. QED
        BY <2>2, <3>1, <3>2 DEF ChargeInv, ChargeFacts
    <2>6. ChargeFacts(r)'
      <3>1. \A x \in Outcomes : hook'[<<r, x>>] # "none" =>
              (x = "succeeded" => r \in Captured')
        BY <2>1, <2>2, AnnounceEffect DEF ChargeInv, ChargeFacts
      <3>2. Placed(r)' /\ reply[r] # "failed"
        BY <2>2 DEF ChargeInv, ChargeFacts
      <3>3. QED
        BY <2>1, <2>2, <3>1, <3>2 DEF ChargeInv, ChargeFacts
    <2>7. QED
      BY <2>3, <2>4, <2>5, <2>6 DEF ChargeInv
  <1>3. QED
    BY <1>1, <1>2

LEMMA HookSettlement ==
  ASSUME TypeOK, SettlementInv, NEW e \in Events,
         HookStep(e) \/ AcknowledgeDuplicate(e) \/ HookDies(e)
  PROVE  SettlementInv'
  <1> USE DEF SettlementInv, Placed, Captured
  <1>0. PICK o \in Requests, x \in Outcomes : e = <<o, x>>
    BY EventPair
  <1>1. /\ \A d \in Events : hook'[d] # "none" => hook[d] # "none"
        /\ UNCHANGED <<pc, items, charge, reply>>
    BY DEF TypeOK, HookStep, ClaimEvent, MatchPayment, ApplyEvent,
           AcknowledgeDuplicate, HookDies, HookAt, requestVars, chargeVars
  <1>2. CASE UNCHANGED <<orderStatus, sales, invoice>>
    <2>1. StepInv' /\ SaleInv'
      BY <1>1, <1>2 DEF StepInv, SaleInv
    <2>2. ChargeInv'
      BY <1>1, <1>2 DEF ChargeInv, ChargeFacts, Events
    <2>3. QED
      BY <2>1, <2>2
  <1>3. CASE ApplyEvent(e) /\ e[2] = "succeeded"
    <2>1. o \in Captured /\ Placed(o)
      BY <1>0, <1>3 DEF ApplyEvent, ChargeInv, ChargeFacts
    <2>2. CompletePaidOrder(o) \/ CompletionThrows(o)
      BY <1>0, <1>3 DEF ApplyEvent, OrderEffect
    <2>3. SaleInv'
      BY <1>1, <2>1, <2>2, CompletionEffect DEF SaleInv
    <2>4. \A q \in Requests : Placed(q)' <=> Placed(q)
      BY <2>1, <2>2, CompletionEffect
    <2>5. StepInv'
      BY <1>1, <2>4 DEF StepInv
    <2>6. ChargeInv'
      BY <1>1, <2>4 DEF ChargeInv, ChargeFacts, Events
    <2>7. QED
      BY <2>3, <2>5, <2>6
  <1>4. CASE ApplyEvent(e) /\ e[2] = "failed"
    <2>1. /\ orderStatus' = [orderStatus EXCEPT ![o] = "FAILED"]
          /\ UNCHANGED <<sales, invoice>>
      BY <1>0, <1>4 DEF ApplyEvent, OrderEffect, MarkOrderFailed, grantVars
    <2>2. Placed(o)
      BY <1>0, <1>4 DEF ApplyEvent, ChargeInv, ChargeFacts
    <2>3. \A q \in Requests : Placed(q)' <=> Placed(q)
      BY <2>1, <2>2 DEF TypeOK
    <2>4. StepInv'
      BY <1>1, <2>3 DEF StepInv
    <2>5. ChargeInv'
      BY <1>1, <2>3 DEF ChargeInv, ChargeFacts, Events
    <2>6. SaleInv'
      BY <1>1, <2>1 DEF TypeOK, SaleInv
    <2>7. QED
      BY <2>4, <2>5, <2>6
  <1>5. QED
    BY <1>2, <1>3, <1>4
    DEF HookStep, ClaimEvent, MatchPayment, ApplyEvent, OrderEffect,
        AcknowledgeDuplicate, HookDies, grantVars

LEMMA SettlementStep ==
  ASSUME TypeOK, SettlementInv, [Next]_vars
  PROVE  SettlementInv'
  <1>1. CASE UNCHANGED vars
    BY <1>1 DEF SettlementInv, StepInv, ChargeInv, ChargeFacts, SaleInv, Placed,
                Captured, vars, requestVars, chargeVars, hookVars, grantVars
  <1>2. QED
    BY <1>1, ShopSettlement, CheckoutSettlement, OtherSettlement,
       HookSettlement
    DEF Next

LEMMA Invariance == Spec => [](TypeOK /\ SettlementInv)
  <1>1. Init => TypeOK /\ SettlementInv
    BY TypeInit, SettlementInit
  <1>2. TypeOK /\ SettlementInv /\ [Next]_vars => (TypeOK /\ SettlementInv)'
    BY TypeStep, SettlementStep DEF SettlementInv
  <1>3. QED
    BY <1>1, <1>2, PTL DEF Spec

\* Every reachable state is well typed.  The type invariant is inductive only
\* together with SettlementInv: the status recorded for a payment is typed
\* because a request that is about to record it has got a reply.
THEOREM TypeCorrect == Spec => []TypeOK
  BY Invariance, PTL

\* An order that its own request is about to mark FAILED has not been settled:
\* the provider closed its charge, so no webhook can have completed it.
THEOREM OwnFailure == Spec => []OwnFailureHitsPending
  <1>1. TypeOK /\ SettlementInv => OwnFailureHitsPending
    BY DEF SettlementInv, StepInv, ChargeInv, ChargeFacts, SaleInv, Captured,
           OwnFailureHitsPending
  <1>2. QED
    BY <1>1, Invariance, PTL

-----------------------------------------------------------------------------
(* One order per idempotency key.                                           *)

LEMMA KeyInit == Init => KeyInv
  BY DEF Init, KeyInv, Placed

\* Only CreateOrder places an order; nothing ever removes one.
LEMMA PlacedOnlyByCreate ==
  ASSUME TypeOK, SettlementInv, Next
  PROVE  /\ UNCHANGED idemKey
         /\ \A o \in Requests : Placed(o) => Placed(o)'
         /\ \A o \in Requests : Placed(o)' => Placed(o) \/ CreateOrder(o)
         /\ \A o \in Requests : answer'[o] # answer[o] => CheckoutStep(o)
  <1> USE DEF Placed
  <1>1. ASSUME ShopStep
        PROVE  UNCHANGED <<idemKey, orderStatus, answer>>
    BY <1>1 DEF ShopStep, AddToCart, RemoveFromCart, ToggleListing, inputs,
                requestVars
  <1>2. ASSUME NEW r \in Requests, RequestDies(r) \/ ProviderStep(r)
        PROVE  UNCHANGED <<idemKey, orderStatus, answer>>
    BY <1>2 DEF RequestDies, ProviderStep, ProviderDeclines, ProviderCaptures,
                ProviderReverses, ProviderMoves, inputs, requestVars
  <1>3. ASSUME NEW o \in Requests, Placed(o),
               \/ CompletePaidOrder(o) \/ CompletionThrows(o)
               \/ MarkOrderFailed(o) \/ UNCHANGED orderStatus
        PROVE  \A q \in Requests : Placed(q)' <=> Placed(q)
    BY <1>3 DEF TypeOK, CompletePaidOrder, CompletionThrows, AlreadyPaid,
                WriteSale, MarkOrderFailed
  <1>4. ASSUME NEW e \in Events,
               HookStep(e) \/ AcknowledgeDuplicate(e) \/ HookDies(e)
        PROVE  /\ UNCHANGED <<idemKey, answer>>
               /\ \A q \in Requests : Placed(q)' <=> Placed(q)
    <2>1. UNCHANGED <<idemKey, answer>>
      BY <1>4 DEF HookStep, ClaimEvent, MatchPayment, ApplyEvent,
                  AcknowledgeDuplicate, HookDies, inputs, requestVars
    <2>2. CASE ApplyEvent(e)
      <3>1. PICK o \in Requests, x \in Outcomes : e = <<o, x>>
        BY EventPair
      <3>2. Placed(o)
        BY <2>2, <3>1 DEF ApplyEvent, SettlementInv, ChargeInv, ChargeFacts
      <3>3. \/ CompletePaidOrder(o) \/ CompletionThrows(o)
            \/ MarkOrderFailed(o) \/ UNCHANGED orderStatus
        BY <2>2, <3>1 DEF ApplyEvent, OrderEffect
      <3>4. QED
        BY <1>3, <2>1, <3>2, <3>3
    <2>3. CASE UNCHANGED orderStatus
      BY <2>1, <2>3
    <2>4. QED
      BY <1>4, <2>2, <2>3 DEF HookStep, ClaimEvent, MatchPayment,
                              AcknowledgeDuplicate, HookDies
  <1>5. ASSUME NEW r \in Requests, CheckoutStep(r)
        PROVE  /\ UNCHANGED idemKey
               /\ \A q \in Requests : Placed(q) => Placed(q)'
               /\ \A q \in Requests : Placed(q)' => Placed(q) \/ CreateOrder(q)
               /\ \A q \in Requests : q # r => answer'[q] = answer[q]
    <2>1. UNCHANGED idemKey
      BY <1>5 DEF CheckoutStep, LookUpKey, ReadCart, ReadOwned, CreateOrder,
                  CreateCharge, RecordPayment, SettleNow, FailNow, inputs
    <2>2. \A q \in Requests : q # r => answer'[q] = answer[q]
      BY <1>5 DEF TypeOK, CheckoutStep, LookUpKey, ReadCart, ReadOwned,
                  CreateOrder, CreateCharge, RecordPayment, SettleNow, FailNow
    <2>3. CASE CreateOrder(r)
      BY <2>1, <2>2, <2>3 DEF TypeOK, CreateOrder
    <2>4. CASE SettleNow(r) \/ FailNow(r)
      BY <1>3, <2>1, <2>2, <2>4 DEF SettleNow, FailNow, SettlementInv, StepInv
    <2>5. CASE UNCHANGED orderStatus
      BY <2>1, <2>2, <2>5
    <2>6. QED
      BY <1>5, <2>3, <2>4, <2>5 DEF CheckoutStep, LookUpKey, ReadCart,
                                    ReadOwned, CreateCharge, RecordPayment
  <1>6. QED
    BY <1>1, <1>2, <1>4, <1>5 DEF Next

LEMMA KeyStep ==
  ASSUME TypeOK, SettlementInv, KeyInv, [Next]_vars
  PROVE  KeyInv'
  <1>1. CASE UNCHANGED vars
    BY <1>1 DEF KeyInv, Placed, vars, inputs, requestVars
  <1>2. CASE Next
    <2>1. ASSUME NEW o \in Requests, CreateOrder(o), ~Placed(o), Placed(o)'
          PROVE  /\ WithKeyOf(o) = {}
                 /\ \A q \in Requests : q # o => (Placed(q)' <=> Placed(q))
      BY <2>1 DEF TypeOK, CreateOrder, Placed
    <2>2. ASSUME NEW o1 \in Requests, NEW o2 \in Requests, o1 # o2,
                 Placed(o1)', Placed(o2)', idemKey'[o1] = idemKey'[o2]
          PROVE  idemKey'[o1] = NoKey
      <3>1. CASE Placed(o1) /\ Placed(o2)
        BY <1>2, <2>2, <3>1, PlacedOnlyByCreate DEF KeyInv
      <3>2. CASE ~Placed(o1)
        BY <1>2, <2>1, <2>2, <3>2, PlacedOnlyByCreate DEF WithKeyOf
      <3>3. CASE ~Placed(o2)
        BY <1>2, <2>1, <2>2, <3>3, PlacedOnlyByCreate DEF WithKeyOf
      <3>4. QED
        BY <3>1, <3>2, <3>3
    <2>3. ASSUME NEW r \in Requests, answer'[r] # NoOrder
          PROVE  (/\ Placed(answer[r])
                  /\ answer[r] = r \/ idemKey[answer[r]] = idemKey[r])'
      <3>1. CASE answer'[r] = answer[r]
        <4>1. answer[r] \in Requests /\ Placed(answer[r])
          BY <2>3, <3>1 DEF TypeOK, KeyInv
        <4>2. Placed(answer[r])'
          BY <1>2, <3>1, <4>1, PlacedOnlyByCreate DEF Placed
        <4>3. QED
          BY <1>2, <2>3, <3>1, <4>2, PlacedOnlyByCreate DEF KeyInv
      <3>2. CASE answer'[r] # answer[r]
        <4>1. CheckoutStep(r)
          BY <1>2, <3>2, PlacedOnlyByCreate
        <4>2. \/ answer'[r] \in WithKeyOf(r)
              \/ answer'[r] = r /\ Placed(r)
          BY <2>3, <3>2, <4>1
          DEF TypeOK, CheckoutStep, LookUpKey, ReadCart, ReadOwned,
              CreateOrder, CreateCharge, RecordPayment, SettleNow, FailNow,
              SettlementInv, StepInv
        <4>3. /\ answer'[r] \in Requests /\ Placed(answer'[r])
              /\ answer'[r] = r \/ idemKey[answer'[r]] = idemKey[r]
          BY <4>2 DEF WithKeyOf
        <4>4. Placed(answer[r])'
          BY <1>2, <4>3, PlacedOnlyByCreate DEF Placed
        <4>5. QED
          BY <1>2, <4>3, <4>4, PlacedOnlyByCreate
      <3>3. QED
        BY <3>1, <3>2
    <2>4. QED
      BY <2>2, <2>3 DEF KeyInv
  <1>3. QED
    BY <1>1, <1>2

\* However many requests carry one key, and however they interleave, those
\* that are answered with an order are answered with the same one.
THEOREM RetrySafe == Spec => []RetryAnswersSameOrder
  <1>1. TypeOK /\ KeyInv => RetryAnswersSameOrder
    BY DEF TypeOK, KeyInv, RetryAnswersSameOrder
  <1>2. Init => KeyInv
    BY KeyInit
  <1>3. TypeOK /\ SettlementInv /\ KeyInv /\ [Next]_vars => KeyInv'
    BY KeyStep
  <1>4. QED
    BY <1>1, <1>2, <1>3, Invariance, PTL DEF Spec

-----------------------------------------------------------------------------
(* Checkout implements Settlement.                                          *)

Shown == <<buyer, PlacedItems, Captured, sales, Granted>>

\* The transaction of completePaidOrder is the abstract Settle step.
LEMMA SaleSettles ==
  ASSUME TypeOK, SettlementInv, NEW o \in Requests, o \in Captured, Placed(o),
         UNCHANGED <<buyer, items, charge>>,
         CompletePaidOrder(o) \/ CompletionThrows(o)
  PROVE  [Promise!Next]_Shown
  <1>0. \A q \in Requests : Placed(q)' <=> Placed(q)
    BY CompletionEffect DEF SettlementInv, Placed
  <1>1. UNCHANGED <<buyer, PlacedItems, Captured>>
    BY <1>0 DEF PlacedItems, Captured
  <1>2. CASE UNCHANGED <<orderStatus, cart, grantVars>>
    BY <1>1, <1>2 DEF Shown, Granted, grantVars
  <1>3. CASE invoice[o] = "none" /\ WriteSale(o)
    <2>1. sales[o] = 0 /\ sales' = [sales EXCEPT ![o] = 1]
      <3>1. sales[o] = 0
        BY <1>3 DEF SettlementInv, SaleInv
      <3>2. QED
        BY <1>3, <3>1 DEF WriteSale
    <2>2. Granted' = Granted \cup Bought(o)
      <3>1. /\ Bought(o) \subseteq Possessions
            /\ \A x \in Bought(o) : x \in LicensedBy(o) \/ x \in SubscribedBy(o)
            /\ LicensedBy(o) \subseteq Bought(o)
            /\ SubscribedBy(o) \subseteq Bought(o)
        BY DEF TypeOK, Bought, LicensedBy, SubscribedBy, Possessions
      <3>2. \A x \in Possessions :
              /\ licence'[x] # "none" <=>
                   licence[x] # "none" \/ x \in LicensedBy(o)
              /\ subscription'[x] # "none" <=>
                   subscription[x] # "none" \/ x \in SubscribedBy(o)
        BY <1>3 DEF WriteSale
      <3>3. QED
        BY <3>1, <3>2 DEF Granted
    <2>3. PlacedItems[o] = items[o]
      BY DEF PlacedItems
    <2>4. Promise!Settle(o)
      BY <1>1, <2>1, <2>2, <2>3 DEF Promise!Settle, Bought
    <2>5. QED
      BY <2>4 DEF Promise!Next
  <1>4. QED
    BY <1>2, <1>3 DEF CompletePaidOrder, CompletionThrows, AlreadyPaid

LEMMA CheckoutRefines ==
  ASSUME TypeOK, SettlementInv, NEW r \in Requests, CheckoutStep(r)
  PROVE  [Promise!Next]_Shown
  <1> USE DEF Shown, Placed
  <1>1. CASE LookUpKey(r) \/ RecordPayment(r)
    BY <1>1 DEF LookUpKey, RecordPayment, PlacedItems, Captured, Granted,
                inputs, chargeVars, grantVars
  <1>2. CASE ReadCart(r) \/ ReadOwned(r)
    <2>1. /\ orderStatus[r] = "none"
          /\ UNCHANGED <<buyer, orderStatus, charge, grantVars>>
          /\ \A q \in Requests : q # r => items'[q] = items[q]
      BY <1>2 DEF TypeOK, SettlementInv, StepInv, ReadCart, ReadOwned, inputs,
                  chargeVars
    <2>2. UNCHANGED PlacedItems
      BY <2>1 DEF PlacedItems
    <2>3. QED
      BY <2>1, <2>2 DEF Captured, Granted, grantVars
  <1>3. CASE CreateOrder(r)
    <2>1. UNCHANGED <<buyer, items, charge, grantVars>>
      BY <1>3 DEF CreateOrder, inputs, chargeVars
    <2>2. UNCHANGED <<buyer, Captured, sales, Granted>>
      BY <2>1 DEF Captured, Granted, grantVars
    <2>3. CASE UNCHANGED orderStatus
      BY <2>1, <2>2, <2>3 DEF PlacedItems
    <2>4. CASE orderStatus' = [orderStatus EXCEPT ![r] = "PENDING"]
      <3>1. orderStatus[r] = "none" /\ items[r] # {} /\ items[r] \subseteq Products
        BY <1>3 DEF TypeOK, SettlementInv, StepInv, CreateOrder
      <3>2. PlacedItems[r] = {}
        BY <3>1 DEF PlacedItems
      <3>3. PlacedItems' = [PlacedItems EXCEPT ![r] = items[r]]
        BY <2>1, <2>4, <3>1 DEF TypeOK, PlacedItems
      <3>4. Promise!Place(r)
        BY <2>2, <3>1, <3>2, <3>3 DEF Promise!Place
      <3>5. QED
        BY <3>4 DEF Promise!Next
    <2>5. QED
      BY <1>3, <2>3, <2>4 DEF CreateOrder
  <1>4. CASE CreateCharge(r)
    <2>1. /\ charge[r] = "none" /\ Placed(r) /\ items[r] # {}
          /\ UNCHANGED <<buyer, items, orderStatus, grantVars>>
      BY <1>4 DEF SettlementInv, StepInv, CreateCharge, inputs
    <2>2. UNCHANGED <<buyer, PlacedItems, sales, Granted>>
      BY <2>1 DEF PlacedItems, Granted, grantVars
    <2>3. Captured' = Captured \cup {r} \/ Captured' = Captured
      BY <1>4, <2>1 DEF TypeOK, CreateCharge, Captured
    <2>4. PlacedItems[r] # {}
      BY <2>1 DEF PlacedItems
    <2>5. QED
      BY <2>2, <2>3, <2>4 DEF Promise!Next, Promise!Capture
  <1>5. CASE SettleNow(r)
    <2>1. /\ r \in Captured /\ Placed(r)
          /\ UNCHANGED <<buyer, items, charge>>
          /\ CompletePaidOrder(r) \/ CompletionThrows(r)
      BY <1>5 DEF SettlementInv, StepInv, ChargeInv, ChargeFacts, SettleNow,
                  inputs, chargeVars
    <2>2. QED
      BY <2>1, SaleSettles
  <1>6. CASE FailNow(r)
    <2>1. /\ Placed(r)
          /\ orderStatus' = [orderStatus EXCEPT ![r] = "FAILED"]
          /\ UNCHANGED <<buyer, items, charge, grantVars>>
      BY <1>6 DEF SettlementInv, StepInv, FailNow, MarkOrderFailed, inputs,
                  chargeVars
    <2>2. \A q \in Requests : Placed(q)' <=> Placed(q)
      BY <2>1 DEF TypeOK
    <2>3. QED
      BY <2>1, <2>2 DEF PlacedItems, Captured, Granted, grantVars
  <1>7. QED
    BY <1>1, <1>2, <1>3, <1>4, <1>5, <1>6 DEF CheckoutStep

LEMMA OtherRefines ==
  ASSUME TypeOK, SettlementInv, NEW r \in Requests,
         RequestDies(r) \/ ProviderStep(r)
  PROVE  [Promise!Next]_Shown
  <1> USE DEF Shown, Placed
  <1>1. CASE RequestDies(r)
    BY <1>1 DEF RequestDies, PlacedItems, Captured, Granted, inputs,
                chargeVars, grantVars
  <1>2. CASE ProviderStep(r)
    <2>1. /\ charge[r] # "none"
          /\ Captured' = Captured \cup {r} \/ Captured' = Captured
          /\ UNCHANGED <<buyer, items, orderStatus, grantVars>>
      BY <1>2 DEF TypeOK, ProviderStep, ProviderDeclines, ProviderCaptures,
                  ProviderReverses, ProviderMoves, Captured, inputs,
                  requestVars
    <2>2. UNCHANGED <<buyer, PlacedItems, sales, Granted>>
      BY <2>1 DEF PlacedItems, Granted, grantVars
    <2>3. PlacedItems[r] # {}
      BY <2>1 DEF PlacedItems, SettlementInv, StepInv, ChargeInv, ChargeFacts
    <2>4. QED
      BY <2>1, <2>2, <2>3 DEF Promise!Next, Promise!Capture
  <1>3. QED
    BY <1>1, <1>2

LEMMA HookRefines ==
  ASSUME TypeOK, SettlementInv, NEW e \in Events,
         HookStep(e) \/ AcknowledgeDuplicate(e) \/ HookDies(e)
  PROVE  [Promise!Next]_Shown
  <1> USE DEF Shown, Placed
  <1>1. PICK o \in Requests, x \in Outcomes : e = <<o, x>>
    BY EventPair
  <1>2. UNCHANGED <<buyer, items, charge>>
    BY DEF HookStep, ClaimEvent, MatchPayment, ApplyEvent,
           AcknowledgeDuplicate, HookDies, inputs, requestVars, chargeVars
  <1>3. CASE UNCHANGED <<orderStatus, grantVars>>
    BY <1>2, <1>3 DEF PlacedItems, Captured, Granted, grantVars
  <1>4. CASE ApplyEvent(e) /\ x = "succeeded"
    <2>1. /\ o \in Captured /\ Placed(o)
          /\ CompletePaidOrder(o) \/ CompletionThrows(o)
      BY <1>1, <1>4 DEF ApplyEvent, OrderEffect, SettlementInv, ChargeInv,
                        ChargeFacts
    <2>2. QED
      BY <1>2, <2>1, SaleSettles
  <1>5. CASE ApplyEvent(e) /\ x = "failed"
    <2>1. /\ Placed(o)
          /\ orderStatus' = [orderStatus EXCEPT ![o] = "FAILED"]
          /\ UNCHANGED grantVars
      BY <1>1, <1>5 DEF ApplyEvent, OrderEffect, MarkOrderFailed,
                        SettlementInv, ChargeInv, ChargeFacts
    <2>2. \A q \in Requests : Placed(q)' <=> Placed(q)
      BY <2>1 DEF TypeOK
    <2>3. QED
      BY <1>2, <2>1, <2>2 DEF PlacedItems, Captured, Granted, grantVars
  <1>6. QED
    BY <1>1, <1>3, <1>4, <1>5
    DEF HookStep, ClaimEvent, MatchPayment, ApplyEvent, OrderEffect,
        AcknowledgeDuplicate, HookDies

LEMMA NextRefines ==
  ASSUME TypeOK, SettlementInv, [Next]_vars
  PROVE  [Promise!Next]_Shown
  <1>1. CASE UNCHANGED vars
    BY <1>1 DEF vars, Shown, PlacedItems, Placed, Captured, Granted, inputs,
                requestVars, chargeVars, grantVars
  <1>2. CASE ShopStep
    BY <1>2 DEF ShopStep, AddToCart, RemoveFromCart, ToggleListing, Shown,
                PlacedItems, Placed, Captured, Granted, inputs, requestVars,
                chargeVars, grantVars
  <1>3. QED
    BY <1>1, <1>2, CheckoutRefines, OtherRefines, HookRefines DEF Next

\* Checkout, with every interleaving of requests, webhook deliveries and
\* crashes, implements the abstract settlement: each order is credited at most
\* once, after capture, in the step that grants the buyer all of its items.
THEOREM Refinement == Spec => KeepsPromise
  <1>1. Init => Promise!Init
    BY DEF Init, Promise!Init, PlacedItems, Placed, Captured, Granted,
           Possessions
  <1>2. TypeOK /\ SettlementInv /\ [Next]_vars =>
          [Promise!Next]_(Promise!vars)
    BY NextRefines DEF Shown, Promise!vars
  <1>3. QED
    BY <1>1, <1>2, Invariance, PTL DEF Spec, KeepsPromise, Promise!Spec

-----------------------------------------------------------------------------
(* An order is FAILED only because the provider said so.                    *)

LEMMA FailureStep ==
  ASSUME TypeOK, SettlementInv, FailureWasReported, [Next]_vars
  PROVE  FailureWasReported'
  <1>1. /\ \A d \in Events : hook[d] = "done" => hook'[d] = "done"
        /\ \A o \in Requests : reply[o] = "failed" => reply'[o] = "failed"
    <2>1. ASSUME NEW o \in Requests, NEW x, Announce(o, x)
          PROVE  \A d \in Events : hook[d] = "done" => hook'[d] = "done"
      BY <2>1 DEF Announce
    <2>2. ASSUME NEW r \in Requests, CreateCharge(r)
          PROVE  \A o \in Requests : reply[o] = "failed" => reply'[o] = "failed"
      BY <2>2 DEF TypeOK, SettlementInv, StepInv, CreateCharge
    <2>3. QED
      BY <2>1, <2>2
      DEF Next, vars, ShopStep, AddToCart, RemoveFromCart, ToggleListing,
          CheckoutStep, LookUpKey, ReadCart, ReadOwned, CreateOrder,
          CreateCharge, RecordPayment, SettleNow, FailNow, RequestDies,
          ProviderStep, ProviderDeclines, ProviderCaptures, ProviderReverses,
          ProviderMoves, HookStep, ClaimEvent, MatchPayment, ApplyEvent,
          AcknowledgeDuplicate, HookDies, HookAt, hookVars, chargeVars, TypeOK
  <1>2. ASSUME NEW o \in Requests, orderStatus'[o] = "FAILED",
               orderStatus[o] # "FAILED"
        PROVE  \/ reply'[o] = "failed"
               \/ \E e \in Events : e = <<o, "failed">> /\ hook'[e] = "done"
    <2>1. ASSUME NEW q \in Requests, WriteSale(q)
          PROVE  FALSE
      BY <1>2, <2>1 DEF TypeOK, WriteSale
    <2>2. ASSUME NEW r \in Requests, CheckoutStep(r)
          PROVE  FailNow(r) /\ r = o
      BY <1>2, <2>1, <2>2
      DEF TypeOK, CheckoutStep, LookUpKey, ReadCart, ReadOwned, CreateOrder,
          CreateCharge, RecordPayment, SettleNow, FailNow, MarkOrderFailed,
          CompletePaidOrder, CompletionThrows, AlreadyPaid
    <2>3. ASSUME NEW r \in Requests, FailNow(r), r = o
          PROVE  reply'[o] = "failed"
      BY <2>3 DEF FailNow, SettlementInv, StepInv, chargeVars
    <2>4. ASSUME NEW e \in Events,
                 HookStep(e) \/ AcknowledgeDuplicate(e) \/ HookDies(e)
          PROVE  e = <<o, "failed">> /\ hook'[e] = "done"
      <3>1. PICK q \in Requests, x \in Outcomes : e = <<q, x>>
        BY EventPair
      <3>2. ApplyEvent(e) /\ x = "failed" /\ MarkOrderFailed(q)
        BY <1>2, <2>1, <2>4, <3>1
        DEF HookStep, ClaimEvent, MatchPayment, ApplyEvent, OrderEffect,
            AcknowledgeDuplicate, HookDies, CompletePaidOrder,
            CompletionThrows, AlreadyPaid
      <3>3. q = o
        BY <1>2, <3>2 DEF TypeOK, MarkOrderFailed
      <3>4. hook'[e] = "done"
        BY <3>1, <3>2 DEF TypeOK, ApplyEvent, HookAt
      <3>5. QED
        BY <3>1, <3>2, <3>3, <3>4
    <2>5. QED
      BY <1>2, <2>2, <2>3, <2>4
      DEF Next, vars, ShopStep, AddToCart, RemoveFromCart, ToggleListing,
          RequestDies, ProviderStep, ProviderDeclines, ProviderCaptures,
          ProviderReverses, ProviderMoves
  <1>3. QED
    BY <1>1, <1>2 DEF FailureWasReported

\* No crash, pending charge or unmatched event ever marks an order FAILED.
THEOREM FailureReported == Spec => []FailureWasReported
  <1>1. Init => FailureWasReported
    BY DEF Init, FailureWasReported
  <1>2. TypeOK /\ SettlementInv /\ FailureWasReported /\ [Next]_vars =>
          FailureWasReported'
    BY FailureStep
  <1>3. QED
    BY <1>1, <1>2, Invariance, PTL DEF Spec

-----------------------------------------------------------------------------
(* Licences lead back to the order that issued them.                        *)

\* A licence that does not exist names no order; one that exists names a settled
\* order of its owner for the product.
LicenceInv ==
  /\ LicenceTracesToSale
  /\ \A x \in Possessions : licence[x] = "none" => licenceOrder[x] = NoOrder

\* What a step may do to grants: nothing, or the transaction of completePaidOrder
\* on an order that has no invoices yet.  The items of a settled order are fixed,
\* and a charge that was reversed stays so.
LEMMA GrantStep ==
  ASSUME TypeOK, SettlementInv, Next
  PROVE  /\ UNCHANGED buyer
         /\ \A q \in Requests : sales[q] = 1 => items'[q] = items[q]
         /\ \A q \in Requests : charge[q] = "reversed" => charge'[q] = "reversed"
         /\ \/ \E o \in Requests :
                 invoice[o] = "none" /\ WriteSale(o) /\ UNCHANGED items
            \/ /\ UNCHANGED grantVars
               /\ \A q \in Requests : orderStatus'[q] = "PAID" =>
                                        orderStatus[q] = "PAID"
  <1> DEFINE Fixed == /\ UNCHANGED buyer
                      /\ \A q \in Requests : sales[q] = 1 => items'[q] = items[q]
                      /\ \A q \in Requests : charge[q] = "reversed" =>
                                               charge'[q] = "reversed"
             Idle == /\ UNCHANGED grantVars
                     /\ \A q \in Requests : orderStatus'[q] = "PAID" =>
                                              orderStatus[q] = "PAID"
             Sold == \E o \in Requests :
                       invoice[o] = "none" /\ WriteSale(o) /\ UNCHANGED items
  <1>0. ASSUME NEW o \in Requests, CompletePaidOrder(o) \/ CompletionThrows(o),
               UNCHANGED items
        PROVE  Sold \/ Idle
    BY <1>0 DEF CompletePaidOrder, CompletionThrows, AlreadyPaid
  <1>1. CASE ShopStep
    BY <1>1 DEF ShopStep, AddToCart, RemoveFromCart, ToggleListing, inputs,
                requestVars, chargeVars
  <1>2. ASSUME NEW r \in Requests, RequestDies(r) \/ ProviderStep(r)
        PROVE  Fixed /\ Idle
    BY <1>2 DEF TypeOK, RequestDies, ProviderStep, ProviderDeclines, ProviderCaptures,
                ProviderReverses, ProviderMoves, inputs, requestVars, chargeVars
  <1>3. ASSUME NEW r \in Requests, CheckoutStep(r)
        PROVE  Fixed /\ (Sold \/ Idle)
    <2>1. UNCHANGED buyer
      BY <1>3 DEF CheckoutStep, LookUpKey, ReadCart, ReadOwned, CreateOrder,
                  CreateCharge, RecordPayment, SettleNow, FailNow, inputs
    <2>2. \A q \in Requests : sales[q] = 1 => items'[q] = items[q]
      <3>1. sales[r] = 1 => pc[r] \notin {"cart", "owned"}
        BY DEF SettlementInv, StepInv, ChargeInv, ChargeFacts, SaleInv, Captured, Placed
      <3>2. CASE ReadCart(r) \/ ReadOwned(r)
        BY <3>1, <3>2 DEF TypeOK, ReadCart, ReadOwned
      <3>3. CASE UNCHANGED items
        BY <3>3
      <3> QED
        BY <1>3, <3>2, <3>3 DEF CheckoutStep, LookUpKey, CreateOrder, CreateCharge,
                                RecordPayment, SettleNow, FailNow, requestVars
    <2>3. \A q \in Requests : charge[q] = "reversed" => charge'[q] = "reversed"
      <3>1. CASE CreateCharge(r)
        BY <3>1 DEF TypeOK, CreateCharge, SettlementInv, StepInv
      <3>2. CASE UNCHANGED charge
        BY <3>2
      <3> QED
        BY <1>3, <3>1, <3>2 DEF CheckoutStep, LookUpKey, ReadCart, ReadOwned,
             CreateOrder, RecordPayment, SettleNow, FailNow, chargeVars
    <2>4. CASE SettleNow(r)
      BY <1>0, <2>1, <2>2, <2>3, <2>4 DEF SettleNow
    <2>5. CASE ~SettleNow(r)
      <3>1. UNCHANGED grantVars
        BY <1>3, <2>5 DEF CheckoutStep, LookUpKey, ReadCart, ReadOwned, CreateOrder,
             CreateCharge, RecordPayment, FailNow
      <3>2. \A q \in Requests : orderStatus'[q] = "PAID" => orderStatus[q] = "PAID"
        BY <1>3, <2>5 DEF TypeOK, CheckoutStep, LookUpKey, ReadCart, ReadOwned,
             CreateOrder, CreateCharge, RecordPayment, FailNow, MarkOrderFailed
      <3> QED
        BY <2>1, <2>2, <2>3, <3>1, <3>2
    <2> QED
      BY <2>4, <2>5
  <1>4. ASSUME NEW e \in Events, HookStep(e) \/ AcknowledgeDuplicate(e) \/ HookDies(e)
        PROVE  Fixed /\ (Sold \/ Idle)
    <2>1. Fixed
      BY <1>4 DEF HookStep, ClaimEvent, MatchPayment, ApplyEvent, AcknowledgeDuplicate,
                  HookDies, inputs, requestVars, chargeVars
    <2>2. CASE ApplyEvent(e)
      <3>1. e[1] \in Requests /\ UNCHANGED items
        BY <2>2 DEF Events, ApplyEvent, requestVars
      <3>2. CASE MarkOrderFailed(e[1]) /\ UNCHANGED <<cart, grantVars>>
        <4>1. Idle
          BY <3>1, <3>2 DEF TypeOK, MarkOrderFailed
        <4> QED
          BY <2>1, <4>1
      <3>3. CASE UNCHANGED <<orderStatus, cart, grantVars>>
        <4>1. Idle
          BY <3>3
        <4> QED
          BY <2>1, <4>1
      <3>4. CASE CompletePaidOrder(e[1]) \/ CompletionThrows(e[1])
        <4> HIDE DEF Fixed, Sold, Idle
        <4> QED
          BY <1>0, <2>1, <3>1, <3>4
      <3> QED
        BY <2>2, <3>2, <3>3, <3>4 DEF ApplyEvent, OrderEffect
    <2>3. CASE ~ApplyEvent(e)
      BY <1>4, <2>1, <2>3 DEF HookStep, ClaimEvent, MatchPayment,
           AcknowledgeDuplicate, HookDies
    <2> QED
      BY <2>2, <2>3
  <1> QED
    BY <1>1, <1>2, <1>3, <1>4 DEF Next

LEMMA LicenceStep ==
  ASSUME TypeOK, SettlementInv, LicenceInv, [Next]_vars
  PROVE  LicenceInv'
  <1> USE DEF LicenceInv, LicenceTracesToSale, LicensedBy
  <1>1. CASE UNCHANGED vars
    BY <1>1 DEF vars, inputs, requestVars, grantVars
  <1>2. CASE Next
    <2>1. CASE UNCHANGED grantVars
      BY <1>2, <2>1, GrantStep DEF grantVars
    <2>2. ASSUME NEW o \in Requests, invoice[o] = "none", WriteSale(o),
                 UNCHANGED items
          PROVE  LicenceInv'
      <3>1. sales[o] = 0 /\ \A q \in Requests : sales[q] = 1 => sales'[q] = 1
        BY <2>2 DEF TypeOK, WriteSale, SettlementInv, SaleInv
      <3>2. sales'[o] = 1 /\ buyer' = buyer
        BY <1>2, <2>2, <3>1, GrantStep DEF TypeOK, WriteSale
      <3> QED
        BY <1>2, <2>2, <3>1, <3>2, GrantStep DEF TypeOK, WriteSale
    <2> QED
      BY <1>2, <2>1, <2>2, GrantStep
  <1> QED
    BY <1>1, <1>2

\* Refunds find what they revoke: every licence was issued by a settled order of
\* its owner that contains the product, whoever bought it again meanwhile.
THEOREM LicencesTraced == Spec => []LicenceTracesToSale
  <1>1. Init => LicenceInv
    BY DEF Init, LicenceInv, LicenceTracesToSale
  <1>2. TypeOK /\ SettlementInv /\ LicenceInv /\ [Next]_vars => LicenceInv'
    BY LicenceStep
  <1>3. LicenceInv => LicenceTracesToSale
    BY DEF LicenceInv
  <1> QED
    BY <1>1, <1>2, <1>3, Invariance, PTL DEF Spec
=============================================================================
