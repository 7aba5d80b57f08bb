------------------------------ MODULE Renewals ------------------------------
(***************************************************************************)
(* Product subscriptions and the renewal job                               *)
(* (services/subscriptions/renewal-service.ts).  A cron enqueues runs; two *)
(* workers may run at once, and a failed run is retried from its start.    *)
(* The order of a renewal is named by its idempotency key: the             *)
(* subscription and the end of the period it renews.  A renewal's charge,  *)
(* its payment row and the webhook of its event are steps of their own, as *)
(* in Orders; checkout and refunds appear by what they do to these rows.   *)
(***************************************************************************)
EXTENDS Naturals, FiniteSets

CONSTANTS
  Subs,       \* subscriptions: one per user and product
  Runs,       \* job workers, one run at a time each
  Period,     \* SUBSCRIPTION_PERIOD_DAYS
  MaxTime,    \* bound on the clock
  Replies,    \* what createPayment may answer
  Throwing,   \* the steps of a run at which a call may throw
  MaxThrows,  \* bound on the calls that throw, of runs and of webhooks
  NoKey

ASSUME RenewalsAssumption ==
  /\ Period \in Nat \ {0} /\ MaxTime \in Nat /\ MaxThrows \in Nat
  /\ Replies \subseteq {"succeeded", "failed", "pending"}
  /\ NoKey \notin Subs \X (0 .. MaxTime + Period)

VARIABLES
  now,
  status,    \* Subscription.status, or "none"
  end,       \* Subscription.currentPeriodEnd
  cancel,    \* Subscription.cancelAtPeriodEnd
  calls,     \* buyer's calls that read their subscription: <<"buy", s>> when it
             \* was not ACTIVE, <<"resume", s>> when it was
  order,     \* Order.status under each idempotency key, or "none"
  charge,    \* the charge of that order at the provider
  charges,   \* how many charges were made for it
  sales,     \* completions that wrote ledger entries and extended the period
  payment,   \* orders with a payment row
  hook,      \* the webhook event of each charge: sent, row inserted, handled
  run,       \* where each worker stands
  started,   \* the time its run began
  lapsing,   \* cancelled subscriptions its run found ended
  todo,      \* keys its run has yet to look at
  on,        \* the key it works on
  dropped,   \* keys whose worker ended by an error once it had their order
  throws

subVars   == <<status, end, cancel>>
orderVars == <<order, sales>>
chargeVars == <<charge, charges, payment, hook>>
runVars   == <<run, started, lapsing, todo, on, dropped>>
vars == <<now, subVars, calls, orderVars, chargeVars, runVars, throws>>

RenewalKeys == Subs \X (0 .. MaxTime + Period)
SubscriptionStatus ==
  {"none", "ACTIVE", "PAST_DUE", "CANCELED", "EXPIRED"}
RunSteps == {"idle", "lapsing", "next", "create", "charge", "recordpaid",
             "recordunpaid", "paid", "unpaid", "pastdue"}
HookSteps == {"none", "sent", "claimed", "matched", "done", "unmatched",
              "broken"}

\* The type of every variable; an order is PAID only once its charge was
\* captured, and a worker is on a key exactly between lookup and settlement.
RenewalTypeOK ==
  /\ now \in 0 .. MaxTime
  /\ status \in [Subs -> SubscriptionStatus]
  /\ end \in [Subs -> 0 .. MaxTime + Period]
  /\ cancel \in [Subs -> BOOLEAN]
  /\ calls \subseteq {"buy", "resume"} \X Subs
  /\ order \in [RenewalKeys -> {"none", "PENDING", "PAID", "FAILED"}]
  /\ charge \in [RenewalKeys -> {"none", "pending", "captured", "failed"}]
  /\ charges \in [RenewalKeys -> Nat] /\ sales \in [RenewalKeys -> Nat]
  /\ payment \subseteq RenewalKeys
  /\ hook \in [RenewalKeys -> HookSteps]
  /\ run \in [Runs -> RunSteps]
  /\ started \in [Runs -> 0 .. MaxTime]
  /\ lapsing \in [Runs -> SUBSET Subs]
  /\ todo \in [Runs -> SUBSET RenewalKeys]
  /\ on \in [Runs -> RenewalKeys \cup {NoKey}]
  /\ dropped \subseteq RenewalKeys
  /\ throws \in 0 .. MaxThrows
  /\ \A r \in Runs : on[r] # NoKey <=> run[r] \notin {"idle", "lapsing",
                 "next"}
  /\ \A k \in RenewalKeys : order[k] = "PAID" => charge[k] = "captured"

Init ==
  /\ now = 0
  /\ status = [s \in Subs |-> "none"]
  /\ end = [s \in Subs |-> 0]
  /\ cancel = [s \in Subs |-> FALSE]
  /\ calls = {}
  /\ order = [k \in RenewalKeys |-> "none"]
  /\ charge = [k \in RenewalKeys |-> "none"]
  /\ charges = [k \in RenewalKeys |-> 0]
  /\ sales = [k \in RenewalKeys |-> 0]
  /\ payment = {} /\ dropped = {} /\ throws = 0
  /\ hook = [k \in RenewalKeys |-> "none"]
  /\ run = [r \in Runs |-> "idle"]
  /\ started = [r \in Runs |-> 0]
  /\ lapsing = [r \in Runs |-> {}]
  /\ todo = [r \in Runs |-> {}]
  /\ on = [r \in Runs |-> NoKey]

Tick ==
  /\ now < MaxTime
  /\ now' = now + 1
  /\ UNCHANGED <<subVars, calls, orderVars, chargeVars, runVars, throws>>

-----------------------------------------------------------------------------
(* The buyer: checkout, cancel, resume; and a refund.                      *)

\* The subscription upsert of completePaidOrder.
Extend(s) ==
  /\ status' = [status EXCEPT ![s] = "ACTIVE"]
  /\ end' = [end EXCEPT ![s] = now + Period]
  /\ cancel' = [cancel EXCEPT ![s] = FALSE]

\* A checkout of the product: it reads the subscription, where ACTIVE counts as
\* owned, and extends it when its own charge is captured, however late.
StartBuy(s) ==
  /\ status[s] # "ACTIVE"
  /\ calls' = calls \cup {<<"buy", s>>}
  /\ UNCHANGED <<now, subVars, orderVars, chargeVars, runVars, throws>>

Buy(s) ==
  /\ <<"buy", s>> \in calls
  /\ calls' = calls \ {<<"buy", s>>}
  /\ Extend(s)
  /\ UNCHANGED <<now, orderVars, chargeVars, runVars, throws>>

\* cancelProductSubscriptionAction: whatever the status.
Cancel(s) ==
  /\ status[s] # "none"
  /\ cancel' = [cancel EXCEPT ![s] = TRUE]
  /\ UNCHANGED <<now, status, end, calls, orderVars, chargeVars, runVars,
                 throws>>

\* resumeProductSubscriptionAction: the status is read before the update.
StartResume(s) ==
  /\ status[s] = "ACTIVE"
  /\ calls' = calls \cup {<<"resume", s>>}
  /\ UNCHANGED <<now, subVars, orderVars, chargeVars, runVars, throws>>

Resume(s) ==
  /\ <<"resume", s>> \in calls
  /\ calls' = calls \ {<<"resume", s>>}
  /\ cancel' = [cancel EXCEPT ![s] = FALSE]
  /\ UNCHANGED <<now, status, end, orderVars, chargeVars, runVars, throws>>

\* The subscription update of approveAndProcessRefund.
RefundCancels(s) ==
  /\ status[s] # "none"
  /\ status' = [status EXCEPT ![s] = "CANCELED"]
  /\ cancel' = [cancel EXCEPT ![s] = TRUE]
  /\ UNCHANGED <<now, end, calls, orderVars, chargeVars, runVars, throws>>

-----------------------------------------------------------------------------
(* Orders of renewals: completePaidOrder and markOrderFailed.              *)

\* Mutant: only a PENDING order is completed.
CompletePendingOrder(k) ==
  IF order[k] # "PENDING" THEN UNCHANGED <<subVars, orderVars>>
  ELSE /\ order' = [order EXCEPT ![k] = "PAID"]
       /\ sales' = [sales EXCEPT ![k] = @ + 1]
       /\ Extend(k[1])

\* Any order that is not PAID is claimed, a FAILED one too.
CompletePaidOrder(k) ==
  IF order[k] = "PAID" THEN UNCHANGED <<subVars, orderVars>>
  ELSE /\ order' = [order EXCEPT ![k] = "PAID"]
       /\ sales' = [sales EXCEPT ![k] = @ + 1]
       /\ Extend(k[1])

MarkOrderFailed(k) ==
  /\ order' = [order EXCEPT ![k] = "FAILED"]
  /\ UNCHANGED <<subVars, sales>>

\* The provider decides a pending charge and sends an event.
Decide(k) ==
  /\ charge[k] = "pending"
  /\ \E outcome \in {"captured", "failed"} :
       charge' = [charge EXCEPT ![k] = outcome]
  /\ hook' = [hook EXCEPT ![k] = "sent"]
  /\ UNCHANGED <<now, subVars, calls, orderVars, charges, payment, runVars,
                 throws>>

HookAt(k, step) == hook' = [hook EXCEPT ![k] = step]

\* The event's row is inserted: from here on any delivery is a duplicate.  A
\* handler that fails earlier answers an error, and the event is sent again.
ClaimEvent(k) ==
  /\ hook[k] = "sent"
  /\ HookAt(k, "claimed")
  /\ UNCHANGED <<now, subVars, calls, orderVars, charge, charges, payment,
                 runVars, throws>>

\* payment.findUnique: an event that is faster than the payment row finds no
\* payment and is acknowledged all the same.
MatchPayment(k) ==
  /\ hook[k] = "claimed"
  /\ HookAt(k, IF k \in payment THEN "matched" ELSE "unmatched")
  /\ UNCHANGED <<now, subVars, calls, orderVars, charge, charges, payment,
                 runVars, throws>>

\* The route's own work on the order.
ApplyEvent(k) ==
  /\ hook[k] = "matched"
  /\ HookAt(k, "done")
  /\ \/ charge[k] = "captured" /\ CompletePaidOrder(k)
     \/ charge[k] = "failed" /\ MarkOrderFailed(k)
  /\ UNCHANGED <<now, calls, charge, charges, payment, runVars, throws>>

\* The handler dies, or one of its calls throws, after the event's row.
HookDies(k) ==
  /\ hook[k] \in {"claimed", "matched"} /\ throws < MaxThrows
  /\ throws' = throws + 1
  /\ HookAt(k, "broken")
  /\ UNCHANGED <<now, subVars, calls, orderVars, charge, charges, payment,
                 runVars>>

-----------------------------------------------------------------------------
(* runSubscriptionRenewals.                                                *)

RunAt(r, step) == run' = [run EXCEPT ![r] = step]

\* The first query, with the time the run began.
Start(r) ==
  /\ run[r] = "idle"
  /\ RunAt(r, "lapsing")
  /\ started' = [started EXCEPT ![r] = now]
  /\ lapsing' = [lapsing EXCEPT ![r] =
       {s \in Subs : status[s] = "ACTIVE" /\ cancel[s] /\ end[s] <= now}]
  /\ UNCHANGED <<now, subVars, calls, orderVars, chargeVars, todo, on,
                 dropped, throws>>

\* subscription.update by id, one row at a time.
Expire(r, s) ==
  /\ run[r] = "lapsing" /\ s \in lapsing[r]
  /\ status' = [status EXCEPT ![s] = "EXPIRED"]
  /\ lapsing' = [lapsing EXCEPT ![r] = @ \ {s}]
  /\ UNCHANGED <<now, end, cancel, calls, orderVars, chargeVars, run,
                 started, todo, on, dropped, throws>>

\* Mutant: a period that ends exactly now is never due.
DueBefore(t) ==
  {<<s, end[s]>> : s \in {x \in Subs :
     status[x] = "ACTIVE" /\ ~cancel[x] /\ end[x] < t}}

Due(t) ==
  {<<s, end[s]>> : s \in {x \in Subs :
     status[x] = "ACTIVE" /\ ~cancel[x] /\ end[x] <= t}}

FindDue(r) ==
  /\ run[r] = "lapsing" /\ lapsing[r] = {}
  /\ RunAt(r, "next")
  /\ todo' = [todo EXCEPT ![r] = Due(started[r])]
  /\ UNCHANGED <<now, subVars, calls, orderVars, chargeVars, started,
                 lapsing, on, dropped, throws>>

\* order.findUnique by key: an existing order ends the work on this key.
LookUp(r, k) ==
  /\ run[r] = "next" /\ k \in todo[r]
  /\ todo' = [todo EXCEPT ![r] = @ \ {k}]
  /\ \/ /\ order[k] # "none"
        /\ UNCHANGED <<run, on>>
     \/ /\ order[k] = "none"
        /\ RunAt(r, "create")
        /\ on' = [on EXCEPT ![r] = k]
  /\ UNCHANGED <<now, subVars, calls, orderVars, chargeVars, started,
                 lapsing, dropped, throws>>

\* The run ends, by itself or by an error: what it had found is forgotten.
EndRun(r) ==
  /\ RunAt(r, "idle")
  /\ started' = [started EXCEPT ![r] = 0]
  /\ lapsing' = [lapsing EXCEPT ![r] = {}]
  /\ todo' = [todo EXCEPT ![r] = {}]
  /\ on' = [on EXCEPT ![r] = NoKey]

\* Mutant: no unique index on Order.idempotencyKey.
CreateOrderWithoutUniqueKey(r) ==
  /\ run[r] = "create"
  /\ order' = [order EXCEPT ![on[r]] = "PENDING"]
  /\ RunAt(r, "charge")
  /\ UNCHANGED <<now, subVars, calls, sales, chargeVars, started, lapsing,
                 todo, on, dropped, throws>>

\* order.create: when another run was faster the unique index makes it throw,
\* and the error ends this run with whatever it had left to do.
CreateOrder(r) ==
  /\ run[r] = "create"
  /\ \/ /\ order[on[r]] = "none"
        /\ order' = [order EXCEPT ![on[r]] = "PENDING"]
        /\ RunAt(r, "charge")
        /\ UNCHANGED <<started, lapsing, todo, on>>
     \/ /\ order[on[r]] # "none"
        /\ EndRun(r)
        /\ UNCHANGED order
  /\ UNCHANGED <<now, subVars, calls, sales, chargeVars, dropped, throws>>

\* createPayment, first half: the provider captures or refuses the charge, and
\* says so by an event too, or leaves it pending.
Charge(r) ==
  /\ run[r] = "charge"
  /\ LET k == on[r]
     IN  /\ charges' = [charges EXCEPT ![k] = @ + 1]
         /\ \E reply \in Replies :
              /\ charge' = [charge EXCEPT ![k] =
                   IF reply = "succeeded" THEN "captured" ELSE reply]
              /\ hook' = [hook EXCEPT ![k] =
                   IF reply = "pending" THEN @ ELSE "sent"]
              /\ RunAt(r, IF reply = "succeeded" THEN "recordpaid"
                                               ELSE "recordunpaid")
  /\ UNCHANGED <<now, subVars, calls, orderVars, payment, started, lapsing,
                 todo, on, dropped, throws>>

\* createPayment, second half: payment.create with the status of the reply.
RecordPayment(r) ==
  /\ run[r] \in {"recordpaid", "recordunpaid"}
  /\ payment' = payment \cup {on[r]}
  /\ RunAt(r, IF run[r] = "recordpaid" THEN "paid" ELSE "unpaid")
  /\ UNCHANGED <<now, subVars, calls, orderVars, charge, charges, hook,
                 started, lapsing, todo, on, dropped, throws>>

\* Back to the loop over the due subscriptions.
NextKey(r) ==
  /\ RunAt(r, "next")
  /\ on' = [on EXCEPT ![r] = NoKey]

Renew(r) ==
  /\ run[r] = "paid"
  /\ CompletePaidOrder(on[r])
  /\ NextKey(r)
  /\ UNCHANGED <<now, calls, chargeVars, started, lapsing, todo, dropped,
                 throws>>

\* Anything but SUCCEEDED, a charge still pending too, counts as failed.
FailOrder(r) ==
  /\ run[r] = "unpaid"
  /\ MarkOrderFailed(on[r])
  /\ RunAt(r, "pastdue")
  /\ UNCHANGED <<now, calls, chargeVars, started, lapsing, todo, on, dropped,
                 throws>>

FailSubscription(r) ==
  /\ run[r] = "pastdue"
  /\ status' = [status EXCEPT ![on[r][1]] = "PAST_DUE"]
  /\ NextKey(r)
  /\ UNCHANGED <<now, end, cancel, calls, orderVars, chargeVars, started,
                 lapsing, todo, dropped, throws>>

Finish(r) ==
  /\ run[r] = "next" /\ todo[r] = {}
  /\ EndRun(r)
  /\ UNCHANGED <<now, subVars, calls, orderVars, chargeVars, dropped, throws>>

\* An awaited call throws, or the worker dies; the queue runs the job again,
\* which takes an order that exists for handled.
Throw(r) ==
  /\ run[r] \in Throwing /\ throws < MaxThrows
  /\ throws' = throws + 1
  /\ EndRun(r)
  /\ dropped' = IF on[r] = NoKey \/ run[r] = "create" THEN dropped
                ELSE dropped \cup {on[r]}
  /\ UNCHANGED <<now, subVars, calls, orderVars, chargeVars>>

-----------------------------------------------------------------------------
RunStep(r) ==
  \/ Start(r) \/ FindDue(r) \/ CreateOrder(r) \/ Charge(r)
  \/ RecordPayment(r) \/ Renew(r) \/ FailOrder(r) \/ FailSubscription(r)
  \/ Finish(r)
  \/ \E s \in Subs : Expire(r, s)
  \/ \E k \in RenewalKeys : LookUp(r, k)

HookStep(k) == ClaimEvent(k) \/ MatchPayment(k) \/ ApplyEvent(k)

BuyerStep(s) ==
  \/ StartBuy(s) \/ Buy(s) \/ Cancel(s) \/ StartResume(s) \/ Resume(s)
  \/ RefundCancels(s)

Next ==
  \/ Tick
  \/ \E s \in Subs : BuyerStep(s)
  \/ \E k \in RenewalKeys : Decide(k) \/ HookStep(k) \/ HookDies(k)
  \/ \E r \in Runs : RunStep(r) \/ Throw(r)

Spec == Init /\ [][Next]_vars

\* The cron keeps starting runs, a worker goes on with the run it has, and
\* the provider delivers its events until one delivery is answered; an event
\* takes three steps at most, so no other event can keep it waiting for ever.
\* Buyers and the clock may stop.
FairSpec ==
  /\ Spec
  /\ \A r \in Runs : WF_vars(RunStep(r))
  /\ WF_vars(\E k \in RenewalKeys : HookStep(k))
-----------------------------------------------------------------------------
(* Properties.                                                             *)

\* However runs overlap and are repeated, a period is charged at most once
\* and extends the subscription at most once, also when the webhook and the
\* worker both complete the order.
PeriodBilledOnce ==
  \A k \in RenewalKeys : charges[k] <= 1 /\ sales[k] <= charges[k]

\* Every state is well typed, and no period is billed twice.
RenewalInv == RenewalTypeOK /\ PeriodBilledOnce

\* Every captured renewal extends its subscription in the end, also when the
\* worker had already given the charge up as failed, with the code's two
\* exceptions: an event that was faster than the payment row, or that came to
\* a payment never recorded, and a handler that died after the event's row.
CapturedIsRenewed ==
  \A k \in RenewalKeys :
    charge[k] = "captured"
      ~> sales[k] = 1 \/ hook[k] \in {"unmatched", "broken"}

Overdue(s) == status[s] = "ACTIVE" /\ end[s] <= now

\* No cancelled subscription stays ACTIVE past its paid period for ever,
\* wherever runs throw: some run expires it.  No other one does either, it is
\* renewed or found unpaid, unless a worker ended by an error once it had
\* created the order of this very period: later runs skip that one.
NoneOverdueForever ==
  \A s \in Subs :
    /\ []<>~(Overdue(s) /\ cancel[s])
    /\ []<>~(Overdue(s) /\ ~cancel[s] /\ <<s, end[s]>> \notin dropped)

-----------------------------------------------------------------------------
(* A sentence of the code that its behaviour contradicts.                   *)

\* A run leaves a key alone because its order was "already handled by a
\* previous run of this job", or is being handled by a run that goes on.
SkippedWasHandled ==
  [][\A r \in Runs, k \in RenewalKeys :
       /\ k \in todo[r] \ todo'[r] /\ run'[r] = "next"
       /\ order[k] = "PENDING"
       => \E q \in Runs : on[q] = k]_vars
=============================================================================
