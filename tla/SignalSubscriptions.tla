------------------------ MODULE SignalSubscriptions -------------------------
(***************************************************************************)
(* One member's subscriptions to signal providers                          *)
(* (signals/subscription-service.ts).                                      *)
(*                                                                         *)
(* Each server action is a call of its own; members have several tabs and  *)
(* pages whose buttons show an old status.  Prices and dates are left out. *)
(***************************************************************************)
CONSTANTS
  SubscribeCalls,       \* calls of subscribeToProvider
  Providers,
  Free         \* the providers that charge nothing

ASSUME SubscriptionAssumption ==
  Free \subseteq Providers /\ "none" \notin SubscribeCalls

VARIABLES
  sub,         \* SignalSubscription.status per provider, or "none"
  subCall,     \* where each subscription call stands
  charged,     \* calls whose charge succeeded
  renewedBy    \* the call that last activated each row, or "none"

signalVars == <<sub, subCall, charged, renewedBy>>

SubStatus == {"none", "ACTIVE", "PAUSED", "CANCELED"}
NotCalled == [at |-> "idle"]

SubscriptionTypeOK ==
  /\ sub \in [Providers -> SubStatus]
  /\ charged \subseteq SubscribeCalls
  /\ renewedBy \in [Providers -> SubscribeCalls \cup {"none"}]
  /\ \A p \in Providers : sub[p] # "none" => renewedBy[p] # "none"

SubscriptionsInit ==
  /\ sub = [p \in Providers |-> "none"]
  /\ subCall = [c \in SubscribeCalls |-> NotCalled]
  /\ charged = {}
  /\ renewedBy = [p \in Providers |-> "none"]

Becomes(c, to) == subCall' = [subCall EXCEPT ![c] = to]
-----------------------------------------------------------------------------
(* subscribeToProvider.                                                    *)

\* Mutant: the status is not looked at.
MayCharge(p) == TRUE

MaySubscribe(p) == sub[p] # "ACTIVE"

ReadSubscription(c, p) ==
  /\ subCall[c] = NotCalled
  /\ MaySubscribe(p)
  /\ Becomes(c, [at |-> IF p \in Free THEN "activate" ELSE "charge", of |-> p,
                 sees |-> [status |-> sub[p], by |-> renewedBy[p]]])
  /\ UNCHANGED <<sub, charged, renewedBy>>

\* Mutant: a pending charge is as good as a captured one.
ChargeOrPending(c) ==
  /\ subCall[c].at = "charge"
  /\ Becomes(c, [subCall[c] EXCEPT !.at = "activate"])
  /\ charged' \in {charged, charged \cup {c}}
  /\ UNCHANGED <<sub, renewedBy>>

\* The provider captures the charge, or leaves it pending (and no row), or
\* refuses it.
Charge(c) ==
  /\ subCall[c].at = "charge"
  /\ \/ charged' = charged \cup {c}
        /\ Becomes(c, [subCall[c] EXCEPT !.at = "activate"])
     \/ Becomes(c, [at |-> "done"]) /\ UNCHANGED charged
  /\ UNCHANGED <<sub, renewedBy>>

\* The row is made or renewed whatever became of it meanwhile.
Activate(c) ==
  /\ subCall[c].at = "activate"
  /\ sub' = [sub EXCEPT ![subCall[c].of] = "ACTIVE"]
  /\ renewedBy' = [renewedBy EXCEPT ![subCall[c].of] = c]
  /\ Becomes(c, [at |-> "done"])
  /\ UNCHANGED <<charged>>

\* The process dies, or the database fails, after the charge.
Lost(c) ==
  /\ subCall[c].at = "activate"
  /\ Becomes(c, [at |-> "done"])
  /\ UNCHANGED <<sub, charged, renewedBy>>

\* cancelSubscription and pauseSubscription write over any status,
\* resumeSubscription only over PAUSED.
Cancel(p) ==
  /\ sub[p] # "none"
  /\ sub' = [sub EXCEPT ![p] = "CANCELED"]
  /\ UNCHANGED <<subCall, charged, renewedBy>>

Pause(p) ==
  /\ sub[p] # "none"
  /\ sub' = [sub EXCEPT ![p] = "PAUSED"]
  /\ UNCHANGED <<subCall, charged, renewedBy>>

Resumable(p) == sub[p] = "PAUSED"

Resume(p) ==
  /\ Resumable(p)
  /\ sub' = [sub EXCEPT ![p] = "ACTIVE"]
  /\ UNCHANGED <<subCall, charged, renewedBy>>
-----------------------------------------------------------------------------
SubscriptionsNext ==
  \/ \E c \in SubscribeCalls :
       \/ \E p \in Providers : ReadSubscription(c, p)
       \/ Charge(c) \/ Activate(c) \/ Lost(c)
  \/ \E p \in Providers : Cancel(p) \/ Pause(p) \/ Resume(p)

SubscriptionsSpec == SubscriptionsInit /\ [][SubscriptionsNext]_signalVars
-----------------------------------------------------------------------------
(* Properties.                                                             *)

\* An ACTIVE subscription of a provider that charges was paid for: the call
\* that last made it ACTIVE captured its charge.  It may since have been
\* paused and resumed, and even cancelled in between.
ActiveWasCharged ==
  \A p \in Providers \ Free : sub[p] = "ACTIVE" => renewedBy[p] \in charged

\* Every state is well typed, and nobody is subscribed for free by accident.
SubscriptionInv == SubscriptionTypeOK /\ ActiveWasCharged

\* A member is charged while the subscription is ACTIVE only by a call that
\* looked before another call activated the row, or that saw a paused or
\* cancelled row, which a resumption made ACTIVE since.
ChargedTwiceNeedsOverlap ==
  [][\A c \in charged' \ charged :
       LET p == subCall[c].of
           sees == subCall[c].sees
       IN  sub[p] = "ACTIVE" =>
             renewedBy[p] # sees.by \/ sees.status \in {"PAUSED", "CANCELED"}
     ]_signalVars
=============================================================================
