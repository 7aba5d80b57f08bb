---------------------------- MODULE ServiceProofs ----------------------------
(***************************************************************************)
(* What runs by itself, for any number of workers, subscriptions, browsers *)
(* and sockets: the renewal job and the shared market data stream.  They   *)
(* share no state.                                                         *)
(***************************************************************************)
EXTENDS Renewals, MarketStream, FiniteSetTheorems, TLAPS

(* The renewal job.                                                         *)

Working == {"charge", "recordpaid", "recordunpaid", "paid", "unpaid"}

\* The events that may still be applied.
Coming == {"sent", "claimed", "matched"}

\* What is known of a period's order and charge.  An order that was completed
\* and is not PAID any more, because the worker gave up a charge that was
\* captured later, has no event left that could complete it again.
PeriodHolds(k) ==
  /\ charges[k] = IF charge[k] = "none" THEN 0 ELSE 1
  /\ sales[k] \in {0, 1}
  /\ sales[k] = 1 => charge[k] = "captured"
  /\ order[k] = "PAID" => sales[k] = 1
  /\ sales[k] = 1 => order[k] = "PAID" \/ hook[k] \notin Coming
  /\ order[k] = "none" => charge[k] = "none"
  /\ hook[k] # "none" => charge[k] \in {"captured", "failed"}

\* One worker at most works on the order of a period: the one that created it.
\* While it is to charge, nobody has; an order it is to give up has no event on
\* its way that completed it before.
WorkerHolds(r) ==
  run[r] \in Working =>
    /\ order[on[r]] # "none"
    /\ run[r] = "charge" => charge[on[r]] = "none" /\ order[on[r]] # "PAID"
    /\ run[r] \in {"recordpaid", "paid"} =>
         charge[on[r]] = "captured" /\ (sales[on[r]] = 1 => order[on[r]] = "PAID")
    /\ run[r] \in {"recordunpaid", "unpaid"} /\ sales[on[r]] = 1 =>
         hook[on[r]] \notin Coming
    /\ \A q \in Runs : run[q] \in Working /\ on[q] = on[r] => q = r

BilledInv ==
  /\ RenewalTypeOK
  /\ \A k \in RenewalKeys : PeriodHolds(k)
  /\ \A r \in Runs : WorkerHolds(r)

LEMMA KeysTyped ==
  /\ NoKey \notin RenewalKeys
  /\ \A s \in Subs, t \in 0 .. MaxTime + Period : <<s, t>> \in RenewalKeys
  /\ \A k \in RenewalKeys : k[1] \in Subs
  /\ Period \in Nat /\ MaxTime \in Nat /\ MaxThrows \in Nat /\ 0 \in 0 .. MaxTime + Period
  /\ \A t \in 0 .. MaxTime : t + Period \in 0 .. MaxTime + Period
BY RenewalsAssumption DEF RenewalKeys

LEMMA WorkersTyped ==
  ASSUME RenewalTypeOK, NEW r \in Runs, run[r] \notin {"idle", "lapsing", "next"}
  PROVE  on[r] \in RenewalKeys /\ on[r] # NoKey /\ on[r][1] \in Subs
BY KeysTyped DEF RenewalTypeOK

\* Steps that leave orders, charges and the workers on them alone.
LEMMA QuietRuns ==
  ASSUME BilledInv, UNCHANGED <<order, sales, charge, charges, hook>>,
         \A r \in Runs : run'[r] \in Working => run'[r] = run[r] /\ on'[r] = on[r]
  PROVE  /\ \A k \in RenewalKeys : PeriodHolds(k)'
         /\ \A r \in Runs : WorkerHolds(r)'
<1>1. ASSUME NEW k \in RenewalKeys
      PROVE  PeriodHolds(k)'
  BY DEF BilledInv, PeriodHolds
<1>2. ASSUME NEW r \in Runs, run'[r] \in Working
      PROVE  WorkerHolds(r)'
  <2>1. run'[r] = run[r] /\ on'[r] = on[r] /\ WorkerHolds(r)
    BY <1>2 DEF BilledInv
  <2> QED
    BY <1>2, <2>1 DEF WorkerHolds
<1> QED
  BY <1>1, <1>2 DEF WorkerHolds

\* Steps that concern one period.
LEMMA OnePeriod ==
  ASSUME BilledInv, NEW k \in RenewalKeys,
         \A j \in RenewalKeys : j # k =>
           /\ order'[j] = order[j] /\ sales'[j] = sales[j] /\ charge'[j] = charge[j]
           /\ charges'[j] = charges[j] /\ hook'[j] = hook[j],
         PeriodHolds(k)',
         \A r \in Runs : run'[r] \in Working =>
           \/ on'[r] = k
           \/ run'[r] = run[r] /\ on'[r] = on[r],
         \A r \in Runs : run'[r] \in Working /\ on'[r] = k => WorkerHolds(r)'
  PROVE  /\ \A j \in RenewalKeys : PeriodHolds(j)'
         /\ \A r \in Runs : WorkerHolds(r)'
<1>1. ASSUME NEW j \in RenewalKeys, j # k
      PROVE  PeriodHolds(j)'
  <2>1. PeriodHolds(j)
    BY DEF BilledInv
  <2> QED
    BY <1>1, <2>1 DEF PeriodHolds
<1>2. ASSUME NEW r \in Runs, run'[r] \in Working, on'[r] # k
      PROVE  WorkerHolds(r)'
  <2>1. run'[r] = run[r] /\ on'[r] = on[r] /\ WorkerHolds(r)
    BY <1>2 DEF BilledInv
  <2>2. on[r] \in RenewalKeys /\ on[r] # k
    BY <1>2, <2>1, WorkersTyped DEF BilledInv, Working
  <2>3. PICK j \in RenewalKeys : j = on[r] /\ j # k
    BY <2>2
  <2>4. \A q \in Runs : run'[q] \in Working /\ on'[q] = j => q = r
    BY <1>2, <2>1, <2>3 DEF WorkerHolds
  <2> QED
    BY <1>2, <2>1, <2>3, <2>4 DEF WorkerHolds
<1> QED
  BY <1>1, <1>2 DEF WorkerHolds

\* Steps of the clock and the buyers leave the workers and the orders alone.
LEMMA BuyersTyped ==
  ASSUME RenewalTypeOK, Tick \/ \E s \in Subs : BuyerStep(s)
  PROVE  /\ RenewalTypeOK'
         /\ UNCHANGED <<order, sales, charge, charges, hook, run, on>>
<1>1. CASE Tick
  <2>1. now' \in 0 .. MaxTime
    BY <1>1, KeysTyped DEF RenewalTypeOK, Tick
  <2>2. UNCHANGED <<status, end, cancel, calls, order, sales, charge, charges, hook,
                    payment, run, started, lapsing, todo, on, dropped, throws>>
    BY <1>1 DEF Tick, subVars, orderVars, chargeVars, runVars
  <2> QED
    BY <2>1, <2>2 DEF RenewalTypeOK
<1>2. ASSUME NEW s \in Subs, StartBuy(s) \/ StartResume(s)
      PROVE  /\ RenewalTypeOK'
             /\ UNCHANGED <<order, sales, charge, charges, hook, run, on>>
  BY <1>2 DEF RenewalTypeOK, StartBuy, StartResume, subVars, orderVars, chargeVars, runVars
<1>3. ASSUME NEW s \in Subs, Buy(s)
      PROVE  /\ RenewalTypeOK'
             /\ UNCHANGED <<order, sales, charge, charges, hook, run, on>>
  BY <1>3, KeysTyped DEF RenewalTypeOK, Buy, Extend, SubscriptionStatus, orderVars,
     chargeVars, runVars
<1>4. ASSUME NEW s \in Subs, Cancel(s) \/ Resume(s) \/ RefundCancels(s)
      PROVE  /\ RenewalTypeOK'
             /\ UNCHANGED <<order, sales, charge, charges, hook, run, on>>
  <2>1. /\ status' \in [Subs -> SubscriptionStatus] /\ cancel' \in [Subs -> BOOLEAN]
        /\ calls' \subseteq calls
    <3>1. CASE Cancel(s)
      BY <3>1 DEF RenewalTypeOK, Cancel
    <3>2. CASE Resume(s)
      BY <3>2 DEF RenewalTypeOK, Resume
    <3>3. CASE RefundCancels(s)
      BY <3>3 DEF RenewalTypeOK, RefundCancels, SubscriptionStatus
    <3> QED
      BY <1>4, <3>1, <3>2, <3>3
  <2>2. UNCHANGED <<now, end, order, sales, charge, charges, hook, payment, run, started,
                    lapsing, todo, on, dropped, throws>>
    BY <1>4 DEF Cancel, Resume, RefundCancels, orderVars, chargeVars, runVars
  <2> QED
    BY <2>1, <2>2 DEF RenewalTypeOK
<1> QED
  BY <1>1, <1>2, <1>3, <1>4 DEF BuyerStep

\* An order is completed or left as it is.
LEMMA Completed ==
  ASSUME RenewalTypeOK, NEW k \in RenewalKeys, CompletePaidOrder(k)
  PROVE  /\ status' \in [Subs -> SubscriptionStatus]
         /\ end' \in [Subs -> 0 .. MaxTime + Period] /\ cancel' \in [Subs -> BOOLEAN]
         /\ order' \in [RenewalKeys -> {"none", "PENDING", "PAID", "FAILED"}]
         /\ sales' \in [RenewalKeys -> Nat]
         /\ order'[k] = "PAID"
         /\ sales'[k] = IF order[k] = "PAID" THEN sales[k] ELSE sales[k] + 1
         /\ \A j \in RenewalKeys : j # k => order'[j] = order[j] /\ sales'[j] = sales[j]
<1>1. CASE order[k] = "PAID"
  BY <1>1 DEF RenewalTypeOK, CompletePaidOrder, subVars, orderVars
<1>2. CASE order[k] # "PAID"
  <2>1. /\ order' = [order EXCEPT ![k] = "PAID"] /\ sales' = [sales EXCEPT ![k] = @ + 1]
        /\ status' = [status EXCEPT ![k[1]] = "ACTIVE"]
        /\ end' = [end EXCEPT ![k[1]] = now + Period]
        /\ cancel' = [cancel EXCEPT ![k[1]] = FALSE]
    BY <1>2 DEF CompletePaidOrder, Extend
  <2>2. /\ status' \in [Subs -> SubscriptionStatus]
        /\ end' \in [Subs -> 0 .. MaxTime + Period] /\ cancel' \in [Subs -> BOOLEAN]
    BY <2>1, KeysTyped DEF RenewalTypeOK, SubscriptionStatus
  <2>3. /\ order' \in [RenewalKeys -> {"none", "PENDING", "PAID", "FAILED"}]
        /\ sales' \in [RenewalKeys -> Nat]
        /\ order'[k] = "PAID" /\ sales'[k] = sales[k] + 1
        /\ \A j \in RenewalKeys : j # k => order'[j] = order[j] /\ sales'[j] = sales[j]
    BY <2>1 DEF RenewalTypeOK
  <2> QED
    BY <1>2, <2>2, <2>3
<1> QED
  BY <1>1, <1>2

\* The provider decides.
LEMMA DecideStep ==
  ASSUME BilledInv, NEW k \in RenewalKeys, Decide(k)
  PROVE  BilledInv'
<1>0. RenewalTypeOK /\ PeriodHolds(k)
  BY DEF BilledInv
<1>1. /\ charge[k] = "pending" /\ charge'[k] \in {"captured", "failed"}
      /\ charge' \in [RenewalKeys -> {"none", "pending", "captured", "failed"}]
      /\ hook' \in [RenewalKeys -> HookSteps] /\ hook'[k] = "sent"
      /\ \A j \in RenewalKeys : j # k => charge'[j] = charge[j] /\ hook'[j] = hook[j]
      /\ UNCHANGED <<now, status, end, cancel, calls, order, sales, charges, payment,
                     run, started, lapsing, todo, on, dropped, throws>>
  BY <1>0 DEF Decide, RenewalTypeOK, HookSteps, subVars, orderVars, runVars
<1>2. PeriodHolds(k)'
  BY <1>0, <1>1 DEF PeriodHolds, Coming
<1>3. \A r \in Runs : run'[r] \in Working /\ on'[r] = k => WorkerHolds(r)'
  <2> SUFFICES ASSUME NEW r \in Runs, run[r] \in Working, on[r] = k
               PROVE  WorkerHolds(r)'
    BY <1>1
  <2>1. WorkerHolds(r)
    BY DEF BilledInv
  <2>2. sales[k] # 1
    BY <1>0, <1>1 DEF PeriodHolds
  <2> QED
    BY <1>1, <2>1, <2>2 DEF WorkerHolds
<1>4. RenewalTypeOK'
  BY <1>0, <1>1 DEF RenewalTypeOK
<1>5. /\ \A j \in RenewalKeys : PeriodHolds(j)'
      /\ \A r \in Runs : WorkerHolds(r)'
  BY <1>1, <1>2, <1>3, OnePeriod
<1> QED
  BY <1>4, <1>5 DEF BilledInv

\* The webhook inserts its event's row, looks the payment up, or dies.
LEMMA HookMoves ==
  ASSUME BilledInv, NEW k \in RenewalKeys,
         ClaimEvent(k) \/ MatchPayment(k) \/ HookDies(k)
  PROVE  BilledInv'
<1>0. RenewalTypeOK /\ PeriodHolds(k)
  BY DEF BilledInv
<1>1. /\ hook[k] \in Coming /\ throws' \in 0 .. MaxThrows
      /\ hook' \in [RenewalKeys -> HookSteps]
      /\ \A j \in RenewalKeys : j # k => hook'[j] = hook[j]
      /\ UNCHANGED <<now, status, end, cancel, calls, order, sales, charge, charges, payment,
                     run, started, lapsing, todo, on, dropped>>
  <2>1. CASE ClaimEvent(k)
    BY <1>0, <2>1 DEF ClaimEvent, HookAt, RenewalTypeOK, HookSteps, Coming, subVars,
       orderVars, runVars
  <2>2. CASE MatchPayment(k)
    BY <1>0, <2>2 DEF MatchPayment, HookAt, RenewalTypeOK, HookSteps, Coming, subVars,
       orderVars, runVars
  <2>3. CASE HookDies(k)
    BY <1>0, <2>3, KeysTyped DEF HookDies, HookAt, RenewalTypeOK, HookSteps, Coming,
       subVars, orderVars, runVars
  <2> QED
    BY <2>1, <2>2, <2>3
<1>2. hook[k] # "none"
  BY <1>1 DEF Coming
<1>3. PeriodHolds(k)'
  BY <1>0, <1>1, <1>2 DEF PeriodHolds
<1>4. \A r \in Runs : run'[r] \in Working /\ on'[r] = k => WorkerHolds(r)'
  <2> SUFFICES ASSUME NEW r \in Runs, run[r] \in Working, on[r] = k
               PROVE  WorkerHolds(r)'
    BY <1>1
  <2>1. WorkerHolds(r)
    BY DEF BilledInv
  <2> QED
    BY <1>1, <2>1 DEF WorkerHolds
<1>5. RenewalTypeOK'
  BY <1>0, <1>1 DEF RenewalTypeOK
<1>6. /\ \A j \in RenewalKeys : PeriodHolds(j)'
      /\ \A r \in Runs : WorkerHolds(r)'
  BY <1>1, <1>3, <1>4, OnePeriod
<1> QED
  BY <1>5, <1>6 DEF BilledInv

\* The webhook completes the order or gives it up.
LEMMA ApplyStep ==
  ASSUME BilledInv, NEW k \in RenewalKeys, ApplyEvent(k)
  PROVE  BilledInv'
<1>0. /\ RenewalTypeOK /\ PeriodHolds(k)
      /\ order[k] \in {"none", "PENDING", "PAID", "FAILED"}
  BY DEF BilledInv, RenewalTypeOK
<1>1. /\ hook[k] = "matched" /\ hook'[k] = "done"
      /\ hook' \in [RenewalKeys -> HookSteps]
      /\ \A j \in RenewalKeys : j # k => hook'[j] = hook[j]
      /\ UNCHANGED <<now, calls, charge, charges, payment, run, started, lapsing, todo, on,
                     dropped, throws>>
      /\ \/ charge[k] = "captured" /\ CompletePaidOrder(k)
         \/ charge[k] = "failed" /\ MarkOrderFailed(k)
  BY <1>0 DEF ApplyEvent, HookAt, RenewalTypeOK, HookSteps, runVars
<1>2. /\ status' \in [Subs -> SubscriptionStatus]
      /\ end' \in [Subs -> 0 .. MaxTime + Period] /\ cancel' \in [Subs -> BOOLEAN]
      /\ order' \in [RenewalKeys -> {"none", "PENDING", "PAID", "FAILED"}]
      /\ sales' \in [RenewalKeys -> Nat]
      /\ \A j \in RenewalKeys : j # k => order'[j] = order[j] /\ sales'[j] = sales[j]
  <2>1. CASE CompletePaidOrder(k)
    BY <1>0, <2>1, Completed
  <2>2. CASE MarkOrderFailed(k)
    BY <1>0, <2>2 DEF MarkOrderFailed, RenewalTypeOK, subVars
  <2> QED
    BY <1>1, <2>1, <2>2
<1>3. \/ /\ charge[k] = "captured" /\ order'[k] = "PAID"
         /\ sales'[k] = IF order[k] = "PAID" THEN sales[k] ELSE sales[k] + 1
      \/ charge[k] = "failed" /\ order'[k] = "FAILED" /\ sales'[k] = sales[k]
  BY <1>0, <1>1, Completed DEF MarkOrderFailed, RenewalTypeOK
<1>4. sales[k] = 1 => order[k] = "PAID"
  BY <1>0, <1>1 DEF PeriodHolds, Coming
<1>5. PeriodHolds(k)'
  BY <1>0, <1>1, <1>3, <1>4 DEF PeriodHolds, Coming
<1>6. \A r \in Runs : run'[r] \in Working /\ on'[r] = k => WorkerHolds(r)'
  <2> SUFFICES ASSUME NEW r \in Runs, run[r] \in Working, on[r] = k
               PROVE  WorkerHolds(r)'
    BY <1>1
  <2>1. WorkerHolds(r)
    BY DEF BilledInv
  <2> QED
    BY <1>1, <1>3, <2>1 DEF WorkerHolds, Coming
<1>7. RenewalTypeOK'
  <2>1. \A j \in RenewalKeys : order'[j] = "PAID" => charge'[j] = "captured"
    BY <1>0, <1>1, <1>2, <1>3 DEF RenewalTypeOK
  <2> QED
    BY <1>0, <1>1, <1>2, <2>1 DEF RenewalTypeOK
<1>8. /\ \A j \in RenewalKeys : PeriodHolds(j)'
      /\ \A r \in Runs : WorkerHolds(r)'
  BY <1>1, <1>2, <1>5, <1>6, OnePeriod
<1> QED
  BY <1>7, <1>8 DEF BilledInv

\* A worker looks for work, finds it, and ends its run.
LEMMA LooksForWork ==
  ASSUME BilledInv, NEW r \in Runs,
         \/ Start(r) \/ FindDue(r) \/ Finish(r) \/ FailSubscription(r) \/ Throw(r)
         \/ \E s \in Subs : Expire(r, s)
         \/ \E k \in RenewalKeys : LookUp(r, k)
  PROVE  BilledInv'
<1>0. RenewalTypeOK
  BY DEF BilledInv
<1>1. UNCHANGED <<order, sales, charge, charges, hook, payment, end, cancel, calls, now>>
  BY DEF Start, FindDue, Finish, FailSubscription, Throw, Expire, LookUp, subVars, orderVars,
     chargeVars
<1>2. \E step \in {"idle", "lapsing", "next", "create"}, k \in RenewalKeys \cup {NoKey} :
        /\ run' = [run EXCEPT ![r] = step] /\ on' = [on EXCEPT ![r] = k]
        /\ k # NoKey <=> step = "create"
  <2>1. CASE Start(r) \/ FindDue(r) \/ \E s \in Subs : Expire(r, s)
    <3>1. PICK step \in {"lapsing", "next"} : run' = [run EXCEPT ![r] = step]
      <4>1. ASSUME NEW s \in Subs, Expire(r, s)
            PROVE  run' = [run EXCEPT ![r] = "lapsing"]
        BY <1>0, <4>1 DEF Expire, RenewalTypeOK
      <4> QED
        BY <2>1, <4>1 DEF Start, FindDue, RunAt
    <3>2. on' = on /\ on[r] = NoKey
      BY <1>0, <2>1 DEF Start, FindDue, Expire, RenewalTypeOK
    <3>3. on' = [on EXCEPT ![r] = NoKey]
      BY <1>0, <3>2 DEF RenewalTypeOK
    <3> QED
      BY <3>1, <3>3
  <2>2. CASE Finish(r) \/ FailSubscription(r) \/ Throw(r)
    BY <2>2 DEF Finish, FailSubscription, Throw, EndRun, NextKey, RunAt
  <2>3. ASSUME NEW k \in RenewalKeys, LookUp(r, k)
        PROVE  \E step \in {"idle", "lapsing", "next", "create"}, j \in RenewalKeys \cup {NoKey} :
                 /\ run' = [run EXCEPT ![r] = step] /\ on' = [on EXCEPT ![r] = j]
                 /\ j # NoKey <=> step = "create"
    <3>1. CASE run' = run /\ on' = on
      <4>1. run[r] = "next" /\ on[r] = NoKey
        BY <1>0, <2>3 DEF LookUp, RenewalTypeOK
      <4>2. run' = [run EXCEPT ![r] = "next"] /\ on' = [on EXCEPT ![r] = NoKey]
        BY <1>0, <3>1, <4>1 DEF RenewalTypeOK
      <4> QED
        BY <4>2
    <3>2. CASE RunAt(r, "create") /\ on' = [on EXCEPT ![r] = k]
      BY <3>2, KeysTyped DEF RunAt
    <3> QED
      BY <2>3, <3>1, <3>2 DEF LookUp
  <2> QED
    BY <2>1, <2>2, <2>3
<1>3. PICK step \in {"idle", "lapsing", "next", "create"}, k \in RenewalKeys \cup {NoKey} :
        /\ run' = [run EXCEPT ![r] = step] /\ on' = [on EXCEPT ![r] = k]
        /\ k # NoKey <=> step = "create"
  BY <1>2
<1>4. /\ run' \in [Runs -> RunSteps] /\ on' \in [Runs -> RenewalKeys \cup {NoKey}]
      /\ run'[r] = step /\ on'[r] = k
      /\ \A q \in Runs : q # r => run'[q] = run[q] /\ on'[q] = on[q]
  BY <1>0, <1>3 DEF RenewalTypeOK, RunSteps
<1>5. \A q \in Runs : run'[q] \in Working => run'[q] = run[q] /\ on'[q] = on[q]
  BY <1>4 DEF Working
<1>6. /\ status' \in [Subs -> SubscriptionStatus]
      /\ started' \in [Runs -> 0 .. MaxTime] /\ throws' \in 0 .. MaxThrows
      /\ lapsing' \in [Runs -> SUBSET Subs]
      /\ todo' \in [Runs -> SUBSET RenewalKeys]
      /\ dropped' \subseteq RenewalKeys
  <2>1. status' \in [Subs -> SubscriptionStatus]
    BY <1>0, WorkersTyped DEF RenewalTypeOK, Start, FindDue, Finish, FailSubscription, Throw,
       Expire, LookUp, subVars, SubscriptionStatus
  <2>2. started' \in [Runs -> 0 .. MaxTime] /\ throws' \in 0 .. MaxThrows
    BY <1>0, KeysTyped DEF RenewalTypeOK, Start, FindDue, Finish, FailSubscription, Throw,
       Expire, LookUp, EndRun
  <2>3. lapsing' \in [Runs -> SUBSET Subs]
    BY <1>0 DEF RenewalTypeOK, Start, FindDue, Finish, FailSubscription, Throw,
       Expire, LookUp, EndRun
  <2>4. todo' \in [Runs -> SUBSET RenewalKeys]
    <3>1. \A t : Due(t) \subseteq RenewalKeys
      BY <1>0, KeysTyped DEF Due, RenewalTypeOK
    <3> QED
      BY <1>0, <3>1 DEF RenewalTypeOK, Start, FindDue, Finish, FailSubscription, Throw,
         Expire, LookUp, EndRun
  <2>5. dropped' \subseteq RenewalKeys
    BY <1>0 DEF RenewalTypeOK, Start, FindDue, Finish, FailSubscription, Throw, Expire, LookUp
  <2> QED
    BY <2>1, <2>2, <2>3, <2>4, <2>5
<1>7. \A q \in Runs : on'[q] # NoKey <=> run'[q] \notin {"idle", "lapsing", "next"}
  BY <1>0, <1>3, <1>4 DEF RenewalTypeOK
<1>8. RenewalTypeOK'
  BY <1>0, <1>1, <1>4, <1>6, <1>7 DEF RenewalTypeOK
<1> QED
  BY <1>1, <1>5, <1>8, QuietRuns DEF BilledInv

\* A worker creates the order, charges it, and completes it or gives it up.
LEMMA WorksOnPeriod ==
  ASSUME BilledInv, NEW r \in Runs,
         CreateOrder(r) \/ Charge(r) \/ RecordPayment(r) \/ Renew(r) \/ FailOrder(r)
  PROVE  BilledInv'
<1>0. /\ RenewalTypeOK /\ WorkerHolds(r) /\ run[r] \in Working \cup {"create"}
      /\ on[r] \in RenewalKeys
  <2>1. RenewalTypeOK /\ WorkerHolds(r)
    BY DEF BilledInv
  <2>2. run[r] \in Working \cup {"create"}
    BY DEF CreateOrder, Charge, RecordPayment, Renew, FailOrder, Working
  <2> QED
    BY <2>1, <2>2, WorkersTyped DEF Working
<1>1. PICK k \in RenewalKeys : k = on[r]
  BY <1>0
<1>2. /\ PeriodHolds(k) /\ k # NoKey
      /\ order[k] \in {"none", "PENDING", "PAID", "FAILED"}
      /\ charges[k] \in Nat /\ sales[k] \in Nat
  BY <1>0, KeysTyped DEF BilledInv, RenewalTypeOK
<1>3. \A q \in Runs : run[q] \in Working /\ on[q] = k /\ run[r] \in Working => q = r
  BY <1>0, <1>1 DEF WorkerHolds
<1>4. CASE CreateOrder(r) /\ order[k] # "none"
  <2>1. /\ EndRun(r) /\ order' = order
        /\ UNCHANGED <<now, status, end, cancel, calls, sales, charge, charges, hook, payment,
                       dropped, throws>>
    BY <1>1, <1>4 DEF CreateOrder, subVars, chargeVars
  <2>2. /\ run' = [run EXCEPT ![r] = "idle"] /\ on' = [on EXCEPT ![r] = NoKey]
        /\ started' = [started EXCEPT ![r] = 0] /\ lapsing' = [lapsing EXCEPT ![r] = {}]
        /\ todo' = [todo EXCEPT ![r] = {}]
    BY <2>1 DEF EndRun, RunAt
  <2>3. \A q \in Runs : run'[q] \in Working => run'[q] = run[q] /\ on'[q] = on[q]
    BY <1>0, <2>2 DEF Working, RenewalTypeOK
  <2>4. RenewalTypeOK'
    BY <1>0, <2>1, <2>2, KeysTyped DEF RenewalTypeOK, RunSteps
  <2> QED
    BY <2>1, <2>3, <2>4, QuietRuns DEF BilledInv
<1>5. CASE CreateOrder(r) /\ order[k] = "none"
  <2>1. /\ order' = [order EXCEPT ![k] = "PENDING"] /\ run' = [run EXCEPT ![r] = "charge"]
        /\ UNCHANGED <<now, status, end, cancel, calls, sales, charge, charges, hook, payment,
                       throws, started, lapsing, todo, on, dropped>>
    BY <1>1, <1>5 DEF CreateOrder, RunAt, subVars, chargeVars
  <2>2. /\ order' \in [RenewalKeys -> {"none", "PENDING", "PAID", "FAILED"}]
        /\ order'[k] = "PENDING" /\ \A j \in RenewalKeys : j # k => order'[j] = order[j]
    BY <1>0, <2>1 DEF RenewalTypeOK
  <2>3. /\ run' \in [Runs -> RunSteps] /\ run'[r] = "charge"
        /\ \A q \in Runs : q # r => run'[q] = run[q]
    BY <1>0, <2>1 DEF RenewalTypeOK, RunSteps
  <2>4. charge[k] = "none" /\ sales[k] # 1 /\ hook[k] = "none"
    BY <1>2, <1>5 DEF PeriodHolds
  <2>5. PeriodHolds(k)'
    BY <1>2, <2>1, <2>2, <2>4 DEF PeriodHolds
  <2>6. \A q \in Runs : run[q] \in Working => on[q] # k
    BY <1>5 DEF BilledInv, WorkerHolds
  <2>7. \A q \in Runs : run'[q] \in Working /\ on'[q] = k => WorkerHolds(q)'
    <3>1. \A q \in Runs : run'[q] \in Working /\ on'[q] = k => q = r
      BY <2>1, <2>3, <2>6
    <3>2. WorkerHolds(r)'
      BY <1>1, <2>1, <2>2, <2>3, <2>4, <3>1 DEF WorkerHolds
    <3> QED
      BY <3>1, <3>2
  <2>8. RenewalTypeOK'
    <3>1. \A q \in Runs : on'[q] # NoKey <=> run'[q] \notin {"idle", "lapsing", "next"}
      BY <1>0, <1>1, <1>2, <2>1, <2>3 DEF RenewalTypeOK
    <3> QED
      BY <1>0, <2>1, <2>2, <2>3, <3>1 DEF RenewalTypeOK
  <2>9. /\ \A j \in RenewalKeys : PeriodHolds(j)'
        /\ \A q \in Runs : WorkerHolds(q)'
    <3>1. \A q \in Runs : run'[q] \in Working =>
            on'[q] = k \/ (run'[q] = run[q] /\ on'[q] = on[q])
      BY <1>1, <2>1, <2>3
    <3> QED
      BY <2>1, <2>2, <2>5, <2>7, <3>1, OnePeriod
  <2> QED
    BY <2>8, <2>9 DEF BilledInv
<1>6. CASE Charge(r)
  <2>1. PICK reply \in {"succeeded", "failed", "pending"} :
          /\ charges' = [charges EXCEPT ![k] = @ + 1]
          /\ charge' = [charge EXCEPT ![k] = IF reply = "succeeded" THEN "captured" ELSE reply]
          /\ hook' = [hook EXCEPT ![k] = IF reply = "pending" THEN @ ELSE "sent"]
          /\ run' = [run EXCEPT ![r] = IF reply = "succeeded" THEN "recordpaid"
                                                           ELSE "recordunpaid"]
          /\ UNCHANGED <<now, status, end, cancel, calls, order, sales, payment, started,
                         lapsing, todo, on, dropped, throws>>
    BY <1>1, <1>6, RenewalsAssumption DEF Charge, RunAt, subVars, orderVars
  <2>2. PICK got \in {"captured", "failed", "pending"},
                step \in {"recordpaid", "recordunpaid"} :
          /\ charge' = [charge EXCEPT ![k] = got] /\ run' = [run EXCEPT ![r] = step]
          /\ step = "recordpaid" => got = "captured"
          /\ hook' = [hook EXCEPT ![k] = IF got = "pending" THEN @ ELSE "sent"]
    <3>1. CASE reply = "succeeded"
      BY <2>1, <3>1
    <3>2. CASE reply = "failed"
      BY <2>1, <3>2
    <3>3. CASE reply = "pending"
      BY <2>1, <3>3
    <3> QED
      BY <3>1, <3>2, <3>3
  <2>3. /\ run[r] = "charge" /\ charge[k] = "none" /\ charges[k] = 0 /\ sales[k] # 1
        /\ order[k] \notin {"none", "PAID"} /\ hook[k] = "none"
    BY <1>0, <1>1, <1>2, <1>6 DEF Charge, WorkerHolds, PeriodHolds, Working
  <2>4. /\ charge' \in [RenewalKeys -> {"none", "pending", "captured", "failed"}]
        /\ charges' \in [RenewalKeys -> Nat]
        /\ charge'[k] = got /\ charges'[k] = charges[k] + 1
        /\ hook' \in [RenewalKeys -> HookSteps]
        /\ hook'[k] # "none" => got # "pending"
        /\ \A j \in RenewalKeys : j # k =>
             charge'[j] = charge[j] /\ charges'[j] = charges[j] /\ hook'[j] = hook[j]
    BY <1>0, <2>1, <2>2, <2>3 DEF RenewalTypeOK, HookSteps
  <2>5. /\ run' \in [Runs -> RunSteps] /\ run'[r] = step
        /\ \A q \in Runs : q # r => run'[q] = run[q]
    BY <1>0, <2>2 DEF RenewalTypeOK, RunSteps
  <2>6. PeriodHolds(k)'
    BY <1>2, <2>1, <2>2, <2>3, <2>4 DEF PeriodHolds
  <2>7. \A q \in Runs : run'[q] \in Working /\ on'[q] = k => WorkerHolds(q)'
    <3>1. \A q \in Runs : run'[q] \in Working /\ on'[q] = k => q = r
      BY <1>3, <2>1, <2>5, <2>3 DEF Working
    <3>2. WorkerHolds(r)'
      BY <1>1, <2>1, <2>2, <2>4, <2>5, <2>3, <3>1 DEF WorkerHolds
    <3> QED
      BY <3>1, <3>2
  <2>8. RenewalTypeOK'
    <3>1. \A q \in Runs : on'[q] # NoKey <=> run'[q] \notin {"idle", "lapsing", "next"}
      BY <1>0, <1>1, <1>2, <2>1, <2>5 DEF RenewalTypeOK
    <3>2. \A j \in RenewalKeys : order'[j] = "PAID" => charge'[j] = "captured"
      BY <1>0, <2>1, <2>4, <2>3 DEF RenewalTypeOK
    <3> QED
      BY <1>0, <2>1, <2>4, <2>5, <3>1, <3>2 DEF RenewalTypeOK
  <2>9. /\ \A j \in RenewalKeys : PeriodHolds(j)'
        /\ \A q \in Runs : WorkerHolds(q)'
    <3>1. \A q \in Runs : run'[q] \in Working =>
            on'[q] = k \/ (run'[q] = run[q] /\ on'[q] = on[q])
      BY <1>1, <2>1, <2>5
    <3> QED
      BY <2>1, <2>4, <2>6, <2>7, <3>1, OnePeriod
  <2> QED
    BY <2>8, <2>9 DEF BilledInv
<1>7. CASE Renew(r) \/ FailOrder(r)
  <2>1. /\ \/ run[r] = "paid" /\ CompletePaidOrder(k)
              /\ run' = [run EXCEPT ![r] = "next"] /\ on' = [on EXCEPT ![r] = NoKey]
           \/ run[r] = "unpaid" /\ MarkOrderFailed(k)
              /\ run' = [run EXCEPT ![r] = "pastdue"] /\ on' = on
        /\ UNCHANGED <<now, calls, charge, charges, hook, payment, started, lapsing, todo,
                       dropped, throws>>
    BY <1>1, <1>7 DEF Renew, FailOrder, NextKey, RunAt, chargeVars
  <2>2. /\ status' \in [Subs -> SubscriptionStatus]
        /\ end' \in [Subs -> 0 .. MaxTime + Period] /\ cancel' \in [Subs -> BOOLEAN]
        /\ order' \in [RenewalKeys -> {"none", "PENDING", "PAID", "FAILED"}]
        /\ sales' \in [RenewalKeys -> Nat]
        /\ \A j \in RenewalKeys : j # k => order'[j] = order[j] /\ sales'[j] = sales[j]
    <3>1. CASE CompletePaidOrder(k)
      BY <1>0, <3>1, Completed
    <3>2. CASE MarkOrderFailed(k)
      BY <1>0, <3>2 DEF MarkOrderFailed, RenewalTypeOK, subVars
    <3> QED
      BY <2>1, <3>1, <3>2
  <2>3. \/ /\ run[r] = "paid" /\ charge[k] = "captured" /\ order'[k] = "PAID"
           /\ sales'[k] = 1
        \/ run[r] = "unpaid" /\ order'[k] = "FAILED" /\ sales'[k] = sales[k]
           /\ (sales[k] = 1 => hook[k] \notin Coming)
    <3>1. CASE run[r] = "paid" /\ CompletePaidOrder(k)
      <4>1. charge[k] = "captured" /\ (sales[k] = 1 => order[k] = "PAID")
        BY <1>0, <1>1, <3>1 DEF WorkerHolds, Working
      <4>2. /\ order'[k] = "PAID"
            /\ sales'[k] = IF order[k] = "PAID" THEN sales[k] ELSE sales[k] + 1
        BY <1>0, <3>1, Completed
      <4>3. order[k] = "PAID" => sales[k] = 1
        BY <1>2 DEF PeriodHolds
      <4> QED
        BY <1>2, <3>1, <4>1, <4>2, <4>3 DEF PeriodHolds
    <3>2. CASE run[r] = "unpaid" /\ MarkOrderFailed(k)
      BY <1>0, <1>1, <3>2 DEF WorkerHolds, Working, MarkOrderFailed, RenewalTypeOK
    <3> QED
      BY <2>1, <3>1, <3>2
  <2>4. PeriodHolds(k)'
    BY <1>2, <2>1, <2>3 DEF PeriodHolds
  <2>5. /\ run' \in [Runs -> RunSteps] /\ run'[r] \in {"next", "pastdue"}
        /\ on' \in [Runs -> RenewalKeys \cup {NoKey}]
        /\ \A q \in Runs : q # r => run'[q] = run[q] /\ on'[q] = on[q]
        /\ on'[r] # NoKey <=> run'[r] = "pastdue"
    BY <1>0, <1>1, <1>2, <2>1 DEF RenewalTypeOK, RunSteps
  <2>6. \A q \in Runs : run'[q] \in Working => q # r /\ on'[q] # k
    BY <1>3, <2>3, <2>5 DEF Working
  <2>7. RenewalTypeOK'
    <3>1. \A q \in Runs : on'[q] # NoKey <=> run'[q] \notin {"idle", "lapsing", "next"}
      BY <1>0, <2>5 DEF RenewalTypeOK
    <3>2. \A j \in RenewalKeys : order'[j] = "PAID" => charge'[j] = "captured"
      BY <1>0, <2>1, <2>2, <2>3 DEF RenewalTypeOK
    <3> QED
      BY <1>0, <2>1, <2>2, <2>5, <3>1, <3>2 DEF RenewalTypeOK
  <2>8. /\ \A j \in RenewalKeys : PeriodHolds(j)'
        /\ \A q \in Runs : WorkerHolds(q)'
    BY <2>1, <2>2, <2>4, <2>5, <2>6, OnePeriod
  <2> QED
    BY <2>7, <2>8 DEF BilledInv
<1>8. CASE RecordPayment(r)
  <2>1. PICK step \in {"paid", "unpaid"} :
          /\ run[r] = IF step = "paid" THEN "recordpaid" ELSE "recordunpaid"
          /\ run' = [run EXCEPT ![r] = step]
          /\ payment' = payment \cup {k}
          /\ UNCHANGED <<now, status, end, cancel, calls, order, sales, charge, charges, hook,
                         started, lapsing, todo, on, dropped, throws>>
    <3>1. run[r] = "recordpaid" \/ run[r] = "recordunpaid"
      BY <1>8 DEF RecordPayment
    <3> QED
      BY <1>1, <1>8, <3>1 DEF RecordPayment, RunAt, subVars, orderVars
  <2>2. /\ run' \in [Runs -> RunSteps] /\ run'[r] = step
        /\ \A q \in Runs : q # r => run'[q] = run[q]
    BY <1>0, <2>1 DEF RenewalTypeOK, RunSteps
  <2>3. PeriodHolds(k)'
    BY <1>2, <2>1 DEF PeriodHolds
  <2>4. run[r] \in Working
    BY <2>1 DEF Working
  <2>5. \A q \in Runs : run'[q] \in Working /\ on'[q] = k => WorkerHolds(q)'
    <3>1. \A q \in Runs : run'[q] \in Working /\ on'[q] = k => q = r
      BY <1>3, <2>1, <2>2, <2>4
    <3>2. /\ order[k] # "none"
          /\ step = "paid" => charge[k] = "captured" /\ (sales[k] = 1 => order[k] = "PAID")
          /\ step = "unpaid" /\ sales[k] = 1 => hook[k] \notin Coming
      BY <1>0, <1>1, <2>1, <2>4 DEF WorkerHolds
    <3>3. WorkerHolds(r)'
      BY <1>1, <2>1, <2>2, <3>1, <3>2 DEF WorkerHolds
    <3> QED
      BY <3>1, <3>3
  <2>6. RenewalTypeOK'
    <3>1. \A q \in Runs : on'[q] # NoKey <=> run'[q] \notin {"idle", "lapsing", "next"}
      BY <1>0, <1>1, <1>2, <2>1, <2>2 DEF RenewalTypeOK
    <3>2. payment' \subseteq RenewalKeys
      BY <1>0, <2>1 DEF RenewalTypeOK
    <3> QED
      BY <1>0, <2>1, <2>2, <3>1, <3>2 DEF RenewalTypeOK
  <2>7. /\ \A j \in RenewalKeys : PeriodHolds(j)'
        /\ \A q \in Runs : WorkerHolds(q)'
    <3>1. \A q \in Runs : run'[q] \in Working =>
            on'[q] = k \/ (run'[q] = run[q] /\ on'[q] = on[q])
      BY <1>1, <2>1, <2>2
    <3> QED
      BY <2>1, <2>3, <2>5, <3>1, OnePeriod
  <2> QED
    BY <2>6, <2>7 DEF BilledInv
<1> QED
  BY <1>4, <1>5, <1>6, <1>7, <1>8

LEMMA BilledStep ==
  ASSUME BilledInv, [Next]_vars
  PROVE  BilledInv'
<1>0. RenewalTypeOK
  BY DEF BilledInv
<1>1. CASE Tick \/ \E s \in Subs : BuyerStep(s)
  <2>1. RenewalTypeOK' /\ UNCHANGED <<order, sales, charge, charges, hook, run, on>>
    BY <1>0, <1>1, BuyersTyped
  <2>2. /\ \A k \in RenewalKeys : PeriodHolds(k)'
        /\ \A r \in Runs : WorkerHolds(r)'
    BY <2>1, QuietRuns
  <2> QED
    BY <2>1, <2>2 DEF BilledInv
<1>2. ASSUME NEW k \in RenewalKeys, Decide(k) \/ HookStep(k) \/ HookDies(k)
      PROVE  BilledInv'
  BY <1>2, DecideStep, HookMoves, ApplyStep DEF HookStep
<1>3. ASSUME NEW r \in Runs, RunStep(r) \/ Throw(r)
      PROVE  BilledInv'
  <2>1. CASE CreateOrder(r) \/ Charge(r) \/ RecordPayment(r) \/ Renew(r) \/ FailOrder(r)
    BY <2>1, WorksOnPeriod
  <2>2. CASE \/ Start(r) \/ FindDue(r) \/ Finish(r) \/ FailSubscription(r) \/ Throw(r)
             \/ \E s \in Subs : Expire(r, s)
             \/ \E k \in RenewalKeys : LookUp(r, k)
    BY <2>2, LooksForWork
  <2> QED
    BY <1>3, <2>1, <2>2 DEF RunStep
<1>4. CASE UNCHANGED vars
  <2>1. /\ UNCHANGED <<now, status, end, cancel, calls, started, lapsing, todo, throws,
                       payment, dropped>>
        /\ UNCHANGED <<order, sales, charge, charges, hook, run, on>>
    BY <1>4 DEF vars, subVars, orderVars, chargeVars, runVars
  <2>2. RenewalTypeOK'
    BY <1>0, <2>1 DEF RenewalTypeOK
  <2>3. /\ \A k \in RenewalKeys : PeriodHolds(k)'
        /\ \A r \in Runs : WorkerHolds(r)'
    BY <2>1, QuietRuns
  <2> QED
    BY <2>2, <2>3 DEF BilledInv
<1> QED
  BY <1>1, <1>2, <1>3, <1>4 DEF Next

\* RenewalInv: however many workers run at once, throw and start again, and
\* whatever the provider's events arrive in between (runSubscriptionRenewals
\* against completePaidOrder of the webhook), a period of a subscription is
\* charged once at most and extends it once at most, and only if charged.
THEOREM PeriodsBilledOnce == Spec => []RenewalInv
<1>1. Init => BilledInv
  <2> SUFFICES ASSUME Init
               PROVE  BilledInv
    OBVIOUS
  <2>1. RenewalTypeOK
    BY KeysTyped DEF Init, RenewalTypeOK, SubscriptionStatus, RunSteps, HookSteps
  <2> QED
    BY <2>1 DEF Init, BilledInv, PeriodHolds, WorkerHolds, Working, Coming
<1>2. BilledInv /\ [Next]_vars => BilledInv'
  BY BilledStep
<1>3. BilledInv => RenewalInv
  BY DEF BilledInv, PeriodHolds, RenewalInv, PeriodBilledOnce
<1> QED
  BY <1>1, <1>2, <1>3, PTL DEF Spec

-----------------------------------------------------------------------------
(* The market data stream.                                                  *)

\* The intervals of a symbol that somebody watches; refCount is their number,
\* which says something of them because they are finitely many.
Held(y) == {i \in Intervals : Watching(<<y, i>>) # {}}

\* A socket that has yet to open carries nothing.
FreshSockets ==
  \A s \in Sockets : socket[s] \in {"closed", "connecting"} => upstream[s] = {}

CarriedInv == StreamInv /\ FreshSockets /\ \A y \in Symbols : IsFiniteSet(Held(y))

LEMMA CountsTyped ==
  ASSUME CarriedInv, NEW y \in Symbols
  PROVE  /\ refCount[y] = Cardinality(Held(y)) /\ refCount[y] \in Nat
         /\ refCount[y] > 0 <=> y \in Retained
         /\ refCount[y] > 0 <=> Held(y) # {}
<1>1. refCount[y] = Cardinality(Held(y)) /\ IsFiniteSet(Held(y))
  BY DEF CarriedInv, StreamInv, StreamTypeOK, Held
<1>2. refCount[y] \in Nat /\ (refCount[y] = 0 <=> Held(y) = {})
  BY <1>1, FS_CardinalityType, FS_EmptySet
<1> QED
  BY <1>1, <1>2 DEF Retained

\* Nobody else holds a symbol when no browser changes what it watches.
LEMMA SameCounts ==
  ASSUME CarriedInv, UNCHANGED <<watched, refCount>>
  PROVE  /\ \A y \in Symbols : Held(y)' = Held(y) /\ IsFiniteSet(Held(y)')
         /\ refCount' = [y \in Symbols |-> Cardinality(Held(y)')]
         /\ Retained' = Retained
  BY DEF CarriedInv, StreamInv, StreamTypeOK, Held, Watching, Retained

\* The first browser of a bar key, or another one.
LEMMA WatchCounts ==
  ASSUME CarriedInv, NEW b \in Browsers, NEW k \in BarKeys, Watch(b, k)
  PROVE  /\ watched' \in [Browsers -> BarKeys \cup {None}]
         /\ \A y \in Symbols : IsFiniteSet(Held(y)')
         /\ refCount' = [y \in Symbols |-> Cardinality(Held(y)')]
         /\ Retained' = Retained \cup {k[1]}
<1>1. /\ watched \in [Browsers -> BarKeys \cup {None}] /\ watched[b] = None
      /\ watched' = [watched EXCEPT ![b] = k]
      /\ refCount = [y \in Symbols |-> Cardinality(Held(y))]
  BY DEF CarriedInv, StreamInv, StreamTypeOK, Held, Watch
<1>2. PICK x \in Symbols, i \in Intervals : k = <<x, i>> /\ k[1] = x
  BY DEF BarKeys
<1>3. \A j \in BarKeys : Watching(j)' = IF j = k THEN Watching(j) \cup {b} ELSE Watching(j)
  BY <1>1, StreamAssumption DEF Watching
<1>4. \A y \in Symbols : Held(y)' = IF y = x THEN Held(y) \cup {i} ELSE Held(y)
  <2>1. ASSUME NEW y \in Symbols, NEW j \in Intervals
        PROVE  Watching(<<y, j>>)' # {} <=> (Watching(<<y, j>>) # {} \/ (y = x /\ j = i))
    BY <1>2, <1>3 DEF BarKeys
  <2> QED
    BY <2>1 DEF Held
<1>5. /\ IsFiniteSet(Held(x) \cup {i})
      /\ Cardinality(Held(x) \cup {i}) =
           IF i \in Held(x) THEN Cardinality(Held(x)) ELSE Cardinality(Held(x)) + 1
  BY FS_AddElement DEF CarriedInv
<1>6. \A y \in Symbols : IsFiniteSet(Held(y)')
  BY <1>4, <1>5 DEF CarriedInv
<1>7. i \in Held(x) <=> Watching(k) # {}
  BY <1>2 DEF Held
<1>8. refCount' = IF Watching(k) # {} THEN refCount ELSE [refCount EXCEPT ![x] = @ + 1]
  BY <1>2 DEF Watch
<1>9. \A y \in Symbols : refCount[y] \in Nat /\ (refCount[y] > 0 <=> Held(y) # {})
  BY CountsTyped
<1>10. refCount' = [y \in Symbols |-> Cardinality(Held(y)')]
  BY <1>1, <1>4, <1>5, <1>7, <1>8
<1>11. Retained' = Retained \cup {x}
  <2>1. CASE Watching(k) # {}
    BY <1>7, <1>8, <1>9, <2>1 DEF Retained
  <2>2. CASE Watching(k) = {}
    BY <1>1, <1>8, <1>9, <2>2 DEF Retained
  <2> QED
    BY <2>1, <2>2
<1> QED
  BY <1>1, <1>2, <1>6, <1>10, <1>11

\* The last browser of a bar key, or one of several.
LEMMA LeaveCounts ==
  ASSUME CarriedInv, NEW b \in Browsers, Leave(b)
  PROVE  /\ watched[b] \in BarKeys /\ watched[b][1] \in Retained
         /\ watched' \in [Browsers -> BarKeys \cup {None}]
         /\ \A y \in Symbols : IsFiniteSet(Held(y)')
         /\ refCount' = [y \in Symbols |-> Cardinality(Held(y)')]
         /\ Retained' =
              IF Watching(watched[b]) = {b} /\ refCount[watched[b][1]] <= 1
              THEN Retained \ {watched[b][1]} ELSE Retained
<1>1. /\ watched \in [Browsers -> BarKeys \cup {None}] /\ watched[b] # None
      /\ watched' = [watched EXCEPT ![b] = None]
      /\ refCount = [y \in Symbols |-> Cardinality(Held(y))]
  BY DEF CarriedInv, StreamInv, StreamTypeOK, Held, Leave
<1>2. PICK k \in BarKeys : k = watched[b]
  BY <1>1
<1>3. PICK x \in Symbols, i \in Intervals : k = <<x, i>> /\ k[1] = x
  BY DEF BarKeys
<1>4. \A j \in BarKeys : Watching(j)' = Watching(j) \ {b}
  BY <1>1, StreamAssumption DEF Watching
<1>5. \A j \in BarKeys : j # k => b \notin Watching(j)
  BY <1>2 DEF Watching
<1>6. b \in Watching(k)
  BY <1>2 DEF Watching
<1>7. i \in Held(x)
  BY <1>3, <1>6 DEF Held
<1>8. \A y \in Symbols :
        Held(y)' = IF y = x /\ Watching(k) = {b} THEN Held(y) \ {i} ELSE Held(y)
  <2>1. ASSUME NEW y \in Symbols, NEW j \in Intervals
        PROVE  Watching(<<y, j>>)' # {} <=>
                 Watching(<<y, j>>) # {} /\ ~(y = x /\ j = i /\ Watching(k) = {b})
    <3>1. CASE <<y, j>> = k
      BY <1>3, <1>4, <1>6, <3>1 DEF BarKeys
    <3>2. CASE <<y, j>> # k
      BY <1>3, <1>4, <1>5, <3>2 DEF BarKeys
    <3> QED
      BY <3>1, <3>2
  <2> QED
    BY <2>1 DEF Held
<1>9. IsFiniteSet(Held(x) \ {i}) /\ Cardinality(Held(x) \ {i}) = Cardinality(Held(x)) - 1
  BY <1>7, FS_RemoveElement DEF CarriedInv
<1>10. \A y \in Symbols : IsFiniteSet(Held(y)')
  BY <1>8, <1>9 DEF CarriedInv
<1>11. refCount' = IF Watching(k) # {b} THEN refCount ELSE [refCount EXCEPT ![x] = @ - 1]
  BY <1>2, <1>3 DEF Leave
<1>12. \A y \in Symbols : refCount[y] \in Nat /\ (refCount[y] > 0 <=> Held(y) # {})
  BY CountsTyped
<1>13. refCount' = [y \in Symbols |-> Cardinality(Held(y)')]
  BY <1>1, <1>8, <1>9, <1>11
<1>14. Retained' = IF Watching(k) = {b} /\ refCount[x] <= 1 THEN Retained \ {x} ELSE Retained
  <2>1. CASE Watching(k) # {b}
    BY <1>11, <2>1 DEF Retained
  <2>2. CASE Watching(k) = {b}
    BY <1>1, <1>11, <1>12, <2>2 DEF Retained
  <2> QED
    BY <2>1, <2>2
<1>15. x \in Retained
  BY <1>7, <1>12 DEF Retained
<1>16. watched' \in [Browsers -> BarKeys \cup {None}]
  BY <1>1
<1> QED
  BY <1>2, <1>3, <1>10, <1>13, <1>14, <1>15, <1>16

\* The sockets: each step, and what becomes of the connection in use.
SocketsHold ==
  /\ ws \in Sockets \cup {None}
  /\ socket \in [Sockets -> {"closed", "connecting", "open", "closing"}]
  /\ upstream \in [Sockets -> SUBSET Symbols]
  /\ heartbeat \in Sockets \cup {None} /\ reconnect \in BOOLEAN
  /\ reconnect => Retained # {}
  /\ ws # None => socket[ws] \in {"connecting", "open"}
  /\ CarriesWhatIsWatched /\ FreshSockets

LEMMA WatchSockets ==
  ASSUME SocketsHold, NEW b, NEW k \in BarKeys, Watch(b, k), Retained' = Retained \cup {k[1]},
         k[1] \in Symbols, refCount[k[1]] > 0 <=> k[1] \in Retained,
         Watching(k) # {} => k[1] \in Retained
  PROVE  SocketsHold'
<1>1. Retained \subseteq Symbols
  BY DEF Retained
<1>2. CASE UNCHANGED <<ws, socket, upstream>> /\ k[1] \in Retained
  <2>1. Retained' = Retained
    BY <1>2
  <2> QED
    BY <1>2, <2>1 DEF Watch, SocketsHold, FreshSockets, CarriesWhatIsWatched
<1>3. CASE EnsureConnected /\ Send({k[1]}, {})
  <2>1. CASE ws = None
    <3>1. PICK s \in Sockets :
            /\ ws' = s /\ socket' = [socket EXCEPT ![s] = "connecting"]
            /\ upstream' = upstream /\ socket[s] = "closed"
      BY <1>3, <2>1 DEF EnsureConnected, Send
    <3>2. socket'[s] = "connecting"
      BY <3>1 DEF SocketsHold
    <3>3. FreshSockets'
      BY <3>1 DEF SocketsHold, FreshSockets
    <3> QED
      BY <3>1, <3>2, <3>3 DEF Watch, SocketsHold, CarriesWhatIsWatched
  <2>2. CASE ws # None /\ socket[ws] = "open"
    <3>1. ws' = ws /\ socket' = socket /\ upstream' = [upstream EXCEPT ![ws] = Retained']
      BY <1>3, <2>2 DEF EnsureConnected, Send, SocketsHold, CarriesWhatIsWatched
    <3> QED
      BY <1>1, <2>2, <3>1 DEF Watch, SocketsHold, FreshSockets, CarriesWhatIsWatched
  <2>3. CASE ws # None /\ socket[ws] # "open"
    <3>1. ws' = ws /\ socket' = socket /\ upstream' = upstream
      BY <1>3, <2>3 DEF EnsureConnected, Send
    <3> QED
      BY <2>3, <3>1 DEF Watch, SocketsHold, FreshSockets, CarriesWhatIsWatched
  <2> QED
    BY <2>1, <2>2, <2>3
<1> QED
  BY <1>2, <1>3 DEF Watch

LEMMA LeaveSockets ==
  ASSUME SocketsHold, NEW b, NEW k, k = watched[b], Leave(b), k[1] \in Retained,
         Retained' = IF Watching(k) = {b} /\ refCount[k[1]] <= 1
                     THEN Retained \ {k[1]} ELSE Retained,
         refCount[k[1]] \in Nat
  PROVE  SocketsHold'
<1>1. Retained \subseteq Symbols
  BY DEF Retained
<1>2. CASE Watching(k) # {b} \/ refCount[k[1]] > 1
  <2>1. Retained' = Retained /\ UNCHANGED <<ws, socket, upstream, reconnect, heartbeat>>
    BY <1>2 DEF Leave
  <2> QED
    BY <2>1 DEF SocketsHold, FreshSockets, CarriesWhatIsWatched
<1>3. CASE Watching(k) = {b} /\ ~(refCount[k[1]] > 1)
  <2>1. /\ Retained' = Retained \ {k[1]} /\ Send({}, {k[1]})
        /\ IF Retained = {k[1]} THEN Disconnect
           ELSE UNCHANGED <<ws, socket, reconnect, heartbeat>>
    BY <1>3 DEF Leave
  <2>2. /\ upstream' \in [Sockets -> SUBSET Symbols]
        /\ ws # None /\ socket[ws] = "open" => upstream'[ws] = Retained'
    BY <1>1, <2>1 DEF Send, SocketsHold, CarriesWhatIsWatched
  <2>5. FreshSockets'
    <3>1. SUFFICES ASSUME NEW s \in Sockets, socket'[s] \in {"closed", "connecting"}
                   PROVE  upstream'[s] = {}
      BY DEF FreshSockets
    <3>2. socket'[s] = socket[s]
      BY <2>1, <3>1 DEF Disconnect, SocketsHold
    <3>3. upstream'[s] = upstream[s]
      BY <2>1, <3>1, <3>2 DEF Send, SocketsHold
    <3> QED
      BY <3>1, <3>2, <3>3 DEF SocketsHold, FreshSockets
  <2>3. CASE Retained = {k[1]}
    BY <2>1, <2>2, <2>3, <2>5 DEF Disconnect, SocketsHold, CarriesWhatIsWatched
  <2>4. CASE Retained # {k[1]}
    <3>1. Retained' # {}
      BY <2>1, <2>4
    <3> QED
      BY <2>1, <2>2, <2>4, <2>5, <3>1 DEF SocketsHold, CarriesWhatIsWatched
  <2> QED
    BY <2>3, <2>4
<1> QED
  BY <1>2, <1>3

\* "open", "close" and the reconnect timer.
LEMMA EventSockets ==
  ASSUME SocketsHold, Retained' = Retained,
         Reconnect \/ \E s \in Sockets : Opened(s) \/ Closed(s)
  PROVE  SocketsHold'
<1>1. Retained \subseteq Symbols
  BY DEF Retained
<1>2. ASSUME NEW s \in Sockets, Opened(s)
      PROVE  SocketsHold'
  <2>1. /\ socket' \in [Sockets -> {"closed", "connecting", "open", "closing"}]
        /\ socket'[s] = "open" /\ \A x \in Sockets : x # s => socket'[x] = socket[x]
        /\ ws' = ws /\ reconnect' = reconnect /\ heartbeat' = s
    BY <1>2 DEF Opened, SocketsHold
  <2>2. upstream' = IF ws # None /\ socket'[ws] = "open"
                    THEN [upstream EXCEPT ![ws] = @ \cup Retained] ELSE upstream
    BY <1>2 DEF Opened
  <2>3. /\ upstream' \in [Sockets -> SUBSET Symbols]
        /\ ws # None /\ socket'[ws] = "open" => upstream'[ws] = Retained
    <3>1. ws # None /\ socket'[ws] = "open" => upstream[ws] \subseteq Retained
      BY <1>2, <2>1 DEF Opened, SocketsHold, FreshSockets, CarriesWhatIsWatched
    <3>2. CASE ws # None /\ socket'[ws] = "open"
      BY <1>1, <2>2, <3>1, <3>2 DEF SocketsHold
    <3>3. CASE ~(ws # None /\ socket'[ws] = "open")
      BY <2>2, <3>3 DEF SocketsHold
    <3> QED
      BY <3>2, <3>3
  <2>4. FreshSockets'
    <3>1. SUFFICES ASSUME NEW x \in Sockets, socket'[x] \in {"closed", "connecting"}
                   PROVE  upstream'[x] = {}
      BY DEF FreshSockets
    <3>2. x # s /\ socket'[x] = socket[x] /\ (ws # None /\ socket'[ws] = "open" => x # ws)
      BY <2>1, <3>1
    <3>3. upstream'[x] = upstream[x]
      BY <2>2, <3>2 DEF SocketsHold
    <3> QED
      BY <3>1, <3>2, <3>3 DEF SocketsHold, FreshSockets
  <2> QED
    BY <2>1, <2>3, <2>4 DEF SocketsHold, CarriesWhatIsWatched
<1>3. ASSUME NEW s \in Sockets, Closed(s)
      PROVE  SocketsHold'
  BY <1>3 DEF Closed, SocketsHold, FreshSockets, CarriesWhatIsWatched
<1>4. CASE Reconnect
  <2>1. reconnect' = FALSE /\ upstream' = upstream /\ heartbeat' = heartbeat
    BY <1>4 DEF Reconnect
  <2>2. CASE UNCHANGED <<ws, socket>>
    BY <2>1, <2>2 DEF SocketsHold, FreshSockets, CarriesWhatIsWatched
  <2>3. CASE ~UNCHANGED <<ws, socket>>
    <3>1. PICK s \in Sockets : /\ ws' = s /\ socket' = [socket EXCEPT ![s] = "connecting"]
                              /\ socket[s] = "closed"
      BY <1>4, <2>3 DEF Reconnect, EnsureConnected
    <3>2. socket'[s] = "connecting"
      BY <3>1 DEF SocketsHold
    <3>3. FreshSockets'
      BY <2>1, <3>1 DEF SocketsHold, FreshSockets
    <3> QED
      BY <2>1, <3>1, <3>2, <3>3 DEF SocketsHold, CarriesWhatIsWatched
  <2> QED
    BY <2>2, <2>3
<1> QED
  BY <1>2, <1>3, <1>4

LEMMA CarriedParts ==
  CarriedInv <=>
    /\ watched \in [Browsers -> BarKeys \cup {None}]
    /\ refCount = [y \in Symbols |-> Cardinality(Held(y))]
    /\ \A y \in Symbols : IsFiniteSet(Held(y))
    /\ SocketsHold
BY DEF CarriedInv, StreamInv, StreamTypeOK, SocketsHold, Held

LEMMA CarriedPartsAfter ==
  ASSUME watched' \in [Browsers -> BarKeys \cup {None}],
         refCount' = [y \in Symbols |-> Cardinality(Held(y)')],
         \A y \in Symbols : IsFiniteSet(Held(y)'), SocketsHold'
  PROVE  CarriedInv'
BY DEF CarriedInv, StreamInv, StreamTypeOK, SocketsHold, Held

LEMMA CarriedStep ==
  ASSUME CarriedInv, [StreamNext]_streamVars
  PROVE  CarriedInv'
<1>0. SocketsHold /\ watched \in [Browsers -> BarKeys \cup {None}]
  BY CarriedParts
<1>1. ASSUME NEW b \in Browsers, NEW k \in BarKeys, Watch(b, k)
      PROVE  CarriedInv'
  <2>1. k[1] \in Symbols /\ k = <<k[1], k[2]>> /\ k[2] \in Intervals
    BY DEF BarKeys
  <2>2. Watching(k) # {} => k[2] \in Held(k[1])
    BY <2>1 DEF Held
  <2>3. SocketsHold'
    BY <1>0, <1>1, <2>1, <2>2, WatchCounts, WatchSockets, CountsTyped
  <2> QED
    BY <1>1, <2>3, WatchCounts, CarriedPartsAfter
<1>2. ASSUME NEW b \in Browsers, Leave(b)
      PROVE  CarriedInv'
  <2>1. PICK k : k = watched[b]
    OBVIOUS
  <2>2. k \in BarKeys /\ k[1] \in Symbols
    BY <1>2, <2>1, LeaveCounts DEF Retained
  <2>3. SocketsHold'
    BY <1>0, <1>2, <2>1, <2>2, LeaveCounts, LeaveSockets, CountsTyped
  <2> QED
    BY <1>2, <2>3, LeaveCounts, CarriedPartsAfter
<1>3. CASE Reconnect \/ \E s \in Sockets : Opened(s) \/ Closed(s)
  <2>1. UNCHANGED <<watched, refCount>>
    BY <1>3 DEF Reconnect, Opened, Closed
  <2>2. SocketsHold'
    BY <1>0, <1>3, <2>1, SameCounts, EventSockets
  <2> QED
    BY <1>0, <2>1, <2>2, SameCounts, CarriedPartsAfter
<1>4. CASE UNCHANGED streamVars
  <2>1. SocketsHold'
    BY <1>0, <1>4 DEF streamVars, SocketsHold, FreshSockets, CarriesWhatIsWatched, Retained
  <2> QED
    BY <1>0, <1>4, <2>1, SameCounts, CarriedPartsAfter DEF streamVars
<1> QED
  BY <1>1, <1>2, <1>3, <1>4 DEF StreamNext

LEMMA CarriedAtFirst ==
  ASSUME StreamInit
  PROVE  CarriedInv
<1>1. \A k \in BarKeys : Watching(k) = {}
  BY StreamAssumption DEF StreamInit, Watching
<1>2. \A y \in Symbols : Held(y) = {}
  BY <1>1 DEF Held, BarKeys
<1>3. \A y \in Symbols : IsFiniteSet(Held(y)) /\ Cardinality(Held(y)) = 0
  BY <1>2, FS_EmptySet
<1>4. watched \in [Browsers -> BarKeys \cup {None}] /\ SocketsHold
  BY DEF StreamInit, SocketsHold, FreshSockets, CarriesWhatIsWatched
<1> QED
  BY <1>3, <1>4, CarriedParts DEF StreamInit

\* The invariant is inductive: counts, buffers, sockets and browsers agree after
\* every subscription, release and socket event.
THEOREM CarriedInvariant == StreamSpec => []CarriedInv
<1>1. StreamInit => CarriedInv
  BY CarriedAtFirst
<1>2. CarriedInv /\ [StreamNext]_streamVars => CarriedInv'
  BY CarriedStep
<1> QED
  BY <1>1, <1>2, PTL DEF StreamSpec

\* StreamInv: in whatever order browsers come and go and sockets open, fail and
\* answer close() (TwelveDataProvider against subscribeBars), a symbol is counted
\* once per bar key somebody watches, and the connection in use carries exactly
\* the symbols that are counted.
THEOREM StreamCarries == StreamSpec => []StreamInv
<1>1. CarriedInv => StreamInv
  BY DEF CarriedInv
<1> QED
  BY <1>1, CarriedInvariant, PTL

\* StrayNeedsLateClose: only the "close" event of a socket that is not this.ws
\* any more (handleClose) can leave a live connection behind that nobody uses.
THEOREM StraysNeedLateClose == StreamSpec => StrayNeedsLateClose
<1> DEFINE Late == \/ Strays' \subseteq Strays
                   \/ \E s \in Sockets \ {ws} : socket[s] # "closed" /\ socket'[s] = "closed"
<1>1. CarriedInv /\ [StreamNext]_streamVars => [Late]_streamVars
  <2> SUFFICES ASSUME CarriedInv, StreamNext
               PROVE  Late
    OBVIOUS
  <2>0. /\ ws \in Sockets \cup {None} /\ None \notin Sockets
        /\ socket \in [Sockets -> {"closed", "connecting", "open", "closing"}]
    BY StreamAssumption DEF CarriedInv, StreamInv, StreamTypeOK
  <2>1. CASE UNCHANGED <<ws, socket>>
    BY <2>1 DEF Strays
  <2>2. CASE EnsureConnected /\ ~UNCHANGED <<ws, socket>>
    <3>1. ws = None
      BY <2>2 DEF EnsureConnected
    <3>2. PICK s \in Sockets : ws' = s /\ socket' = [socket EXCEPT ![s] = "connecting"]
      BY <2>2 DEF EnsureConnected
    <3> QED
      BY <2>0, <3>1, <3>2 DEF Strays
  <2>3. CASE Disconnect
    <3>1. ws' = None
      BY <2>3 DEF Disconnect
    <3>2. \A x \in Sockets : x # ws => socket'[x] = socket[x]
      BY <2>0, <2>3 DEF Disconnect
    <3>3. ws # None => socket'[ws] = "closing"
      BY <2>0, <2>3 DEF Disconnect
    <3> QED
      BY <2>0, <3>1, <3>2, <3>3 DEF Strays
  <2>4. ASSUME NEW s \in Sockets, Opened(s)
        PROVE  Late
    BY <2>0, <2>4 DEF Opened, Strays
  <2>5. ASSUME NEW s \in Sockets, Closed(s)
        PROVE  Late
    BY <2>0, <2>5 DEF Closed, Strays
  <2> QED
    BY <2>1, <2>2, <2>3, <2>4, <2>5 DEF StreamNext, Watch, Leave, Reconnect
<1> QED
  BY <1>1, CarriedInvariant, PTL DEF StreamSpec, StrayNeedsLateClose
=============================================================================
