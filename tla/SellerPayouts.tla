--------------------------- MODULE SellerPayouts ----------------------------
(***************************************************************************)
(* Payouts of one seller's ledger balance (payouts/payout-service.ts).     *)
(* A payout row is named by the requestPayout call that creates it.  The   *)
(* balance is the sum of the seller's ledger entries; sales credit it at   *)
(* any time.  Refund debits are left out: they may take a balance below    *)
(* zero on purpose, a payout must not.                                     *)
(***************************************************************************)
EXTENDS Integers

CONSTANTS
  PayoutCalls,  \* requestPayout calls, and so the payout rows
  PayoutAdmins, \* administrator sessions, one call at a time each
  Credits,      \* the net amounts a sale may credit
  MinPayout,    \* MIN_PAYOUT_CENTS
  MaxCredit,    \* bound on all credits together
  NoCall

ASSUME PayoutsAssumption ==
  /\ Credits \subseteq Nat
  /\ MinPayout \in Nat \ {0}
  /\ MaxCredit \in Nat
  /\ NoCall \notin PayoutCalls

VARIABLES
  credited,        \* everything sales have credited so far
  balance,         \* SUM(amountCents) of the seller's ledger entries
  payoutStatus,    \* where a call stands, then Payout.status of its row
  amount,          \* the balance a call read, then Payout.amountCents
  sawProgress,     \* did the call find a payout in progress?
  entries,         \* PAYOUT ledger entries written for each row
  job, jobOn,      \* each administrator's target status and payout row
  contested        \* rows that two sessions worked on at once (no part of
                   \* the code: what the property excuses)

requestVars == <<payoutStatus, amount, sawProgress>>
adminVars   == <<job, jobOn, contested>>
sellerVars  == <<credited, balance, requestVars, entries, adminVars>>

Targets == {"PROCESSING", "PAID", "FAILED"}
Statuses == {"idle", "reading", "refused", "PENDING"} \cup Targets

PayoutTypeOK ==
  /\ credited \in Nat
  /\ balance \in Int
  /\ payoutStatus \in [PayoutCalls -> Statuses]
  /\ amount \in [PayoutCalls -> Int]
  /\ sawProgress \in [PayoutCalls -> {"unread", "yes", "no"}]
  /\ entries \in [PayoutCalls -> Nat]
  /\ job \in [PayoutAdmins -> Targets \cup {"idle"}]
  /\ jobOn \in [PayoutAdmins -> PayoutCalls \cup {NoCall}]
  /\ contested \subseteq PayoutCalls
  /\ \A c \in PayoutCalls :
       payoutStatus[c] \in Targets \cup {"PENDING"} => amount[c] >= MinPayout

PayoutInit ==
  /\ credited = 0
  /\ balance = 0
  /\ payoutStatus = [c \in PayoutCalls |-> "idle"]
  /\ amount = [c \in PayoutCalls |-> -1]
  /\ sawProgress = [c \in PayoutCalls |-> "unread"]
  /\ entries = [c \in PayoutCalls |-> 0]
  /\ job = [a \in PayoutAdmins |-> "idle"]
  /\ jobOn = [a \in PayoutAdmins |-> NoCall]
  /\ contested = {}

\* completePaidOrder writes SALE and COMMISSION entries.
Sell(n) ==
  /\ credited + n <= MaxCredit
  /\ credited' = credited + n
  /\ balance' = balance + n
  /\ UNCHANGED <<requestVars, entries, adminVars>>

-----------------------------------------------------------------------------
(* requestPayout: two reads started together, in either order, then a       *)
(* check of both and payout.create.                                         *)

ReadBalance(c) ==
  /\ payoutStatus[c] = "idle"
  /\ payoutStatus' = [payoutStatus EXCEPT ![c] = "reading"]
  /\ amount' = [amount EXCEPT ![c] = balance]
  /\ UNCHANGED <<credited, balance, sawProgress, entries, adminVars>>

InProgress == {c \in PayoutCalls : payoutStatus[c] \in {"PENDING", "PROCESSING"}}

ReadInProgress(c) ==
  /\ payoutStatus[c] \in {"idle", "reading"}
  /\ sawProgress[c] = "unread"
  /\ sawProgress' =
       [sawProgress EXCEPT ![c] = IF InProgress = {} THEN "no" ELSE "yes"]
  /\ UNCHANGED <<credited, balance, payoutStatus, amount, entries, adminVars>>

CreatePayout(c) ==
  /\ payoutStatus[c] = "reading" /\ sawProgress[c] # "unread"
  /\ payoutStatus' = [payoutStatus EXCEPT ![c] =
       IF sawProgress[c] = "no" /\ amount[c] >= MinPayout THEN "PENDING"
                                                          ELSE "refused"]
  /\ UNCHANGED <<credited, balance, amount, sawProgress, entries, adminVars>>

-----------------------------------------------------------------------------
(* updatePayoutStatus: the row is read and checked, and then changed in a   *)
(* transaction that does not look at its status again.                      *)

\* Mutant: only a FAILED payout is closed.
CanTransitionUnlessFailed(c, to) ==
  payoutStatus[c] \in {"PENDING", "PROCESSING", "PAID"}

CanTransition(c, to) ==
  \/ payoutStatus[c] = "PENDING"
  \/ payoutStatus[c] = "PROCESSING" /\ to # "PROCESSING"

OpenPayout(a, c, to) ==
  /\ job[a] = "idle"
  /\ CanTransition(c, to)
  /\ job' = [job EXCEPT ![a] = to]
  /\ jobOn' = [jobOn EXCEPT ![a] = c]
  /\ contested' = IF \E b \in PayoutAdmins : jobOn[b] = c THEN contested \cup {c}
                                                          ELSE contested
  /\ UNCHANGED <<credited, balance, requestVars, entries>>

\* The transaction; PAID also debits the ledger by the payout's amount.
UpdatePayout(a) ==
  /\ job[a] # "idle"
  /\ LET c == jobOn[a]
     IN  /\ payoutStatus' = [payoutStatus EXCEPT ![c] = job[a]]
         /\ \/ /\ job[a] = "PAID"
               /\ entries' = [entries EXCEPT ![c] = @ + 1]
               /\ balance' = balance - amount[c]
            \/ /\ job[a] # "PAID"
               /\ UNCHANGED <<entries, balance>>
  /\ job' = [job EXCEPT ![a] = "idle"]
  /\ jobOn' = [jobOn EXCEPT ![a] = NoCall]
  /\ UNCHANGED <<credited, amount, sawProgress, contested>>

\* The call dies before its transaction commits.
AdminDies(a) ==
  /\ job[a] # "idle"
  /\ job' = [job EXCEPT ![a] = "idle"]
  /\ jobOn' = [jobOn EXCEPT ![a] = NoCall]
  /\ UNCHANGED <<credited, balance, requestVars, entries, contested>>

PayoutNext ==
  \/ \E n \in Credits : Sell(n)
  \/ \E c \in PayoutCalls : ReadBalance(c) \/ ReadInProgress(c) \/ CreatePayout(c)
  \/ \E a \in PayoutAdmins :
       \/ \E c \in PayoutCalls, to \in Targets : OpenPayout(a, c, to)
       \/ UpdatePayout(a) \/ AdminDies(a)

PayoutSpec == PayoutInit /\ [][PayoutNext]_sellerVars
-----------------------------------------------------------------------------
(* Properties.                                                             *)

\* The ledger is debited once for a payout that was paid and never for one
\* that was not, although status and ledger are kept in different tables and
\* the check of the status is outside the transaction.  It takes two
\* administrators who work on one payout at once to break it.
DebitedOncePaid ==
  \A c \in PayoutCalls \ contested :
    entries[c] = IF payoutStatus[c] = "PAID" THEN 1 ELSE 0

\* Every state is well typed, and debits and paid payouts agree.
PayoutInv == PayoutTypeOK /\ DebitedOncePaid

\* The seller is paid "their current balance": never more than the sales have
\* credited.  A balance read before a payout is marked PAID, together with an
\* in-progress check made after it, breaks it.
BalanceNeverNegative == balance >= 0
=============================================================================
