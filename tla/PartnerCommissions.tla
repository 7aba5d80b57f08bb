------------------------- MODULE PartnerCommissions -------------------------
(***************************************************************************)
(* The partnership programme's commission ledger and payouts               *)
(* (partnership/commission-service.ts, partnership/payout-service.ts), for *)
(* one Partner and one currency.  Each order earns one commission, named   *)
(* by the order; PENDING commissions are released after a holding period,  *)
(* reserved by a payout request, and paid or reversed.                     *)
(*                                                                         *)
(* A call that has read and not yet written is a member of a set with what *)
(* it read.  The amount of a payout is the set of commissions it counts    *)
(* (counted[q]), so that equal sums are equal sets.  The minimum payout is *)
(* any amount above zero.                                                  *)
(*                                                                         *)
(* Transactions run at READ COMMITTED.  One that updates a commission and  *)
(* then recomputes its payout is two steps: the row it has changed stays   *)
(* locked and its new value hidden until the transaction commits, so two   *)
(* such transactions add up the payout from each other's old rows.         *)
(***************************************************************************)
EXTENDS Naturals

CONSTANTS
  Orders,
  Payouts,       \* payout requests, and so the payout rows
  NoPayout

ASSUME CommissionsAssumption == NoPayout \notin Payouts

VARIABLES
  order,         \* Order.status
  payment,       \* is the order's payment still SUCCEEDED?
  refundOpen,    \* orders with a refund in status REQUESTED
  commission,    \* PartnerCommission.status, or "none"
  attached,      \* PartnerCommission.payoutId
  payout,        \* where a request stands, then PartnerPayout.status
  planned,       \* the commissions a request read as its balance
  counted,       \* the commissions PartnerPayout.amountCents adds up
  creating,      \* creation calls that read the order as commissionable
  approving,     \* early approvals that read the order as PAID
  rejecting,     \* <<commission, payoutId read>> of rejections in progress
  marking,       \* <<payout, commissions summed>> of markPaid calls
  due,           \* orders whose reversal was started
  reversing,     \* <<order, payoutId read>> of planned reversals
  writing,       \* transactions about to commit: the row and its new status
                 \* (or "none"), the payout to update and the rows left in it
  flagged        \* orders reported to administrators

orderVars  == <<order, payment, refundOpen>>
ledgerVars == <<commission, attached>>
payoutVars == <<payout, planned, counted>>
decisionVars  == <<creating, approving, rejecting, marking, writing>>
reverseVars == <<due, reversing, flagged>>
commissionVars == <<orderVars, ledgerVars, payoutVars, decisionVars, reverseVars>>

CommissionStatus ==
  {"none", "PENDING", "APPROVED", "PAID", "REVERSED", "REJECTED"}
PayoutStatus == {"idle", "counted", "planned", "refused",
                 "REQUESTED", "APPROVED", "REJECTED", "PAID"}

Open == {q \in Payouts : payout[q] \in {"REQUESTED", "APPROVED"}}

\* The type of every variable; an open payout has an amount above zero.
CommissionTypeOK ==
  /\ order \in [Orders -> {"PENDING", "PAID", "REFUNDED"}]
  /\ payment \in [Orders -> BOOLEAN]
  /\ refundOpen \subseteq Orders
  /\ commission \in [Orders -> CommissionStatus]
  /\ attached \in [Orders -> Payouts \cup {NoPayout}]
  /\ payout \in [Payouts -> PayoutStatus]
  /\ planned \in [Payouts -> SUBSET Orders]
  /\ counted \in [Payouts -> SUBSET Orders]
  /\ creating \subseteq Orders /\ approving \subseteq Orders
  /\ rejecting \subseteq Orders \X (Payouts \cup {NoPayout})
  /\ marking \subseteq Payouts \X SUBSET Orders
  /\ due \subseteq Orders
  /\ reversing \subseteq Orders \X (Payouts \cup {NoPayout})
  /\ writing \subseteq
       [row : Orders, payout : Payouts \cup {NoPayout}, left : SUBSET Orders,
        status : {"none", "REVERSED", "REJECTED"}]
  /\ flagged \subseteq Orders
  /\ \A q \in Open : counted[q] # {}

CommissionInit ==
  /\ order = [o \in Orders |-> "PENDING"]
  /\ payment = [o \in Orders |-> FALSE]
  /\ refundOpen = {}
  /\ commission = [o \in Orders |-> "none"]
  /\ attached = [o \in Orders |-> NoPayout]
  /\ payout = [q \in Payouts |-> "idle"]
  /\ planned = [q \in Payouts |-> {}]
  /\ counted = [q \in Payouts |-> {}]
  /\ creating = {} /\ approving = {} /\ rejecting = {} /\ marking = {} /\ writing = {}
  /\ due = {} /\ reversing = {} /\ flagged = {}

-----------------------------------------------------------------------------
(* The order, as checkout and refunds change it.                           *)

PayOrder(o) ==
  /\ order[o] = "PENDING"
  /\ order' = [order EXCEPT ![o] = "PAID"]
  /\ payment' = [payment EXCEPT ![o] = TRUE]
  /\ UNCHANGED <<refundOpen, ledgerVars, payoutVars, decisionVars, reverseVars>>

RequestRefund(o) ==
  /\ order[o] = "PAID" /\ payment[o]
  /\ refundOpen' = refundOpen \cup {o}
  /\ UNCHANGED <<order, payment, ledgerVars, payoutVars, decisionVars, reverseVars>>

RejectRefund(o) ==
  /\ o \in refundOpen
  /\ refundOpen' = refundOpen \ {o}
  /\ UNCHANGED <<order, payment, ledgerVars, payoutVars, decisionVars, reverseVars>>

\* The refund transaction; the reversal of commissions follows it.  The payment
\* was SUCCEEDED when the refund was opened, and is read once after that.
ProcessRefund(o) ==
  /\ o \in refundOpen
  /\ refundOpen' = refundOpen \ {o}
  /\ order' = [order EXCEPT ![o] = "REFUNDED"]
  /\ payment' = [payment EXCEPT ![o] = FALSE]
  /\ due' = due \cup {o}
  /\ UNCHANGED <<ledgerVars, payoutVars, decisionVars, reversing, flagged>>

\* A "refunded" webhook changes the payment, not the order.
ChargeBack(o) ==
  /\ payment[o]
  /\ payment' = [payment EXCEPT ![o] = FALSE]
  /\ due' = due \cup {o}
  /\ UNCHANGED <<order, refundOpen, ledgerVars, payoutVars, decisionVars,
                 reversing, flagged>>

-----------------------------------------------------------------------------
(* Creation, release and review of commissions.                            *)

\* createCommissionsForOrder reads the order (isCommissionableOrder) ...
StartCreation(o) ==
  /\ order[o] = "PAID" /\ payment[o]
  /\ creating' = creating \cup {o}
  /\ UNCHANGED <<orderVars, ledgerVars, payoutVars, approving, rejecting,
                 marking, writing, reverseVars>>

\* ... and inserts; a row for the same item and type is skipped.
InsertCommission(o) ==
  /\ o \in creating
  /\ creating' = creating \ {o}
  /\ commission' =
       [commission EXCEPT ![o] = IF @ = "none" THEN "PENDING" ELSE @]
  /\ UNCHANGED <<orderVars, attached, payoutVars, approving, rejecting,
                 marking, writing, reverseVars>>

Unpaid == {"PENDING", "APPROVED"}

\* Rows that an open transaction has changed: another write waits for it.
Locked == {w.row : w \in {v \in writing : v.status # "none"}}

\* Mutant: the release only looks at the holding period.
ReleasableByAge ==
  {o \in Orders : commission[o] = "PENDING"}

\* releaseMaturedCommissions: one statement.
Releasable ==
  {o \in Orders : /\ commission[o] = "PENDING"
                  /\ order[o] = "PAID"
                  /\ o \notin refundOpen}

\* S is the part of them whose holding period has ended.
ReleaseMatured(S) ==
  /\ S # {} /\ S \subseteq Releasable \ Locked
  /\ commission' = [o \in Orders |-> IF o \in S THEN "APPROVED"
                                               ELSE commission[o]]
  /\ UNCHANGED <<orderVars, attached, payoutVars, decisionVars, reverseVars>>

StartApproval(o) ==
  /\ commission[o] # "none"
  /\ order[o] = "PAID"
  /\ approving' = approving \cup {o}
  /\ UNCHANGED <<orderVars, ledgerVars, payoutVars, creating, rejecting,
                 marking, writing, reverseVars>>

\* The conditional update of approveCommissionEarly.
ApproveEarly(o) ==
  /\ o \in approving /\ o \notin Locked
  /\ approving' = approving \ {o}
  /\ commission' =
       [commission EXCEPT ![o] = IF @ = "PENDING" THEN "APPROVED" ELSE @]
  /\ UNCHANGED <<orderVars, attached, payoutVars, creating, rejecting,
                 marking, writing, reverseVars>>

\* The rows recomputePayout adds up in a transaction that detaches o from q:
\* the payout is left alone unless it is open.
Detaching(o, q, status) ==
  LET rows == {x \in Orders : attached[x] = q}
  IN  IF q \in Open
      THEN [row |-> o, payout |-> q, status |-> status,
            left |-> IF status = "none" THEN rows ELSE rows \ {o}]
      ELSE [row |-> o, payout |-> NoPayout, status |-> status, left |-> {}]

\* The update of recomputePayout: the new amount, or a rejection if it is zero.
UpdateSharePayout(q, left) ==
  IF q = NoPayout THEN UNCHANGED <<counted, payout>>
  ELSE /\ counted' = [counted EXCEPT ![q] = left]
       /\ payout' = [payout EXCEPT ![q] = IF left = {} THEN "REJECTED" ELSE @]

\* rejectCommission: read, check, and remember the payout.
StartRejection(o) ==
  /\ commission[o] \in Unpaid
  /\ rejecting' = rejecting \cup {<<o, attached[o]>>}
  /\ UNCHANGED <<orderVars, ledgerVars, payoutVars, creating, approving,
                 marking, writing, reverseVars>>

\* Its transaction rolls back when the commission has changed.
RejectCommission(o, q) ==
  /\ <<o, q>> \in rejecting /\ o \notin Locked
  /\ rejecting' = rejecting \ {<<o, q>>}
  /\ writing' = IF commission[o] \in Unpaid
                THEN writing \cup {Detaching(o, q, "REJECTED")}
                ELSE writing
  /\ UNCHANGED <<orderVars, ledgerVars, payoutVars, creating, approving,
                 marking, reverseVars>>

-----------------------------------------------------------------------------
(* reverseCommissionsForOrder.                                             *)

\* The rows of the order are read once: nothing there ends the call, a paid
\* one is flagged, an unpaid one is planned with the payout it is in.
PlanReversal(o) ==
  /\ o \in due
  /\ due' = due \ {o}
  /\ IF commission[o] \in Unpaid
     THEN /\ reversing' = reversing \cup {<<o, attached[o]>>}
          /\ UNCHANGED flagged
     ELSE /\ flagged' = IF commission[o] = "PAID" THEN flagged \cup {o}
                                                 ELSE flagged
          /\ UNCHANGED reversing
  /\ UNCHANGED <<orderVars, ledgerVars, payoutVars, decisionVars>>

\* Mutant: the update trusts the plan instead of the row's status.
ReverseWhateverPlanned(o, q) ==
  /\ <<o, q>> \in reversing /\ o \notin Locked
  /\ reversing' = reversing \ {<<o, q>>}
  /\ writing' = writing \cup {Detaching(o, q, "REVERSED")}
  /\ UNCHANGED <<orderVars, ledgerVars, payoutVars, creating, approving,
                 rejecting, marking, due, flagged>>

\* The transaction changes the row only while it is unpaid, and recomputes
\* the payout it was in when it was read.
ReverseCommission(o, q) ==
  /\ <<o, q>> \in reversing /\ o \notin Locked
  /\ reversing' = reversing \ {<<o, q>>}
  /\ writing' = writing \cup
       {Detaching(o, q, IF commission[o] \in Unpaid THEN "REVERSED" ELSE "none")}
  /\ UNCHANGED <<orderVars, ledgerVars, payoutVars, creating, approving,
                 rejecting, marking, due, flagged>>

\* The commit of either transaction w.
Commit(w) ==
  /\ w \in writing
  /\ writing' = writing \ {w}
  /\ IF w.status = "none" THEN UNCHANGED ledgerVars
     ELSE /\ commission' = [commission EXCEPT ![w.row] = w.status]
          /\ attached' = [attached EXCEPT ![w.row] = NoPayout]
  /\ UpdateSharePayout(w.payout, w.left)
  /\ UNCHANGED <<orderVars, planned, creating, approving, rejecting, marking,
                 due, reversing, flagged>>

\* The transaction fails (as the victim of a deadlock with a decision on the
\* payout, say): the fail-soft wrapper reports the reversal.
Abort(w) ==
  /\ w \in writing
  /\ writing' = writing \ {w}
  /\ flagged' = IF w.status = "REJECTED" THEN flagged ELSE flagged \cup {w.row}
  /\ UNCHANGED <<orderVars, ledgerVars, payoutVars, creating, approving,
                 rejecting, marking, due, reversing>>

-----------------------------------------------------------------------------
(* requestPartnerPayout.                                                   *)

\* Inside the transaction, at READ COMMITTED, each query sees what is
\* committed when it runs: the open payouts are counted first ...
CountOpen(q) ==
  /\ payout[q] = "idle"
  /\ payout' = [payout EXCEPT ![q] = IF Open = {} THEN "counted" ELSE "refused"]
  /\ UNCHANGED <<orderVars, ledgerVars, planned, counted, decisionVars,
                 reverseVars>>

Available ==
  {o \in Orders : /\ commission[o] = "APPROVED"
                  /\ attached[o] = NoPayout
                  /\ order[o] = "PAID"}

\* ... then the balance is read (planPayout) ...
PlanPayout(q) ==
  /\ payout[q] = "counted"
  /\ planned' = [planned EXCEPT ![q] = Available]
  /\ payout' =
       [payout EXCEPT ![q] = IF Available = {} THEN "refused" ELSE "planned"]
  /\ UNCHANGED <<orderVars, ledgerVars, counted, decisionVars, reverseVars>>

Reservable(q) ==
  {o \in planned[q] : commission[o] = "APPROVED" /\ attached[o] = NoPayout}

\* ... and the row is created and linked, or everything is rolled back when
\* not all planned rows could be linked.
Reserve(q) ==
  /\ payout[q] = "planned" /\ planned[q] \cap Locked = {}
  /\ \/ /\ Reservable(q) = planned[q]
        /\ payout' = [payout EXCEPT ![q] = "REQUESTED"]
        /\ counted' = [counted EXCEPT ![q] = planned[q]]
        /\ attached' = [o \in Orders |-> IF o \in planned[q] THEN q
                                                             ELSE attached[o]]
     \/ /\ Reservable(q) # planned[q]
        /\ payout' = [payout EXCEPT ![q] = "refused"]
        /\ UNCHANGED <<counted, attached>>
  /\ UNCHANGED <<orderVars, commission, planned, decisionVars, reverseVars>>

-----------------------------------------------------------------------------
(* Decisions on a payout.                                                  *)

\* approvePartnerPayout: one conditional update.
ApprovePayout(q) ==
  /\ payout[q] = "REQUESTED" /\ counted[q] # {}
  /\ payout' = [payout EXCEPT ![q] = "APPROVED"]
  /\ UNCHANGED <<orderVars, ledgerVars, planned, counted, decisionVars,
                 reverseVars>>

Payable(q) ==
  {o \in Orders : attached[o] = q /\ commission[o] = "APPROVED"}

\* rejectPartnerPayout: the commissions go back to the balance.
RejectPayout(q) ==
  /\ q \in Open /\ Payable(q) \cap Locked = {}
  /\ payout' = [payout EXCEPT ![q] = "REJECTED"]
  /\ attached' = [o \in Orders |-> IF o \in Payable(q) THEN NoPayout
                                                        ELSE attached[o]]
  /\ UNCHANGED <<orderVars, commission, planned, counted, decisionVars,
                 reverseVars>>

\* markPartnerPayoutPaid reads the payout and sums its commissions ...
SumPayout(q) ==
  /\ payout[q] = "APPROVED"
  /\ Payable(q) # {}
  /\ marking' = marking \cup {<<q, Payable(q)>>}
  /\ UNCHANGED <<orderVars, ledgerVars, payoutVars, creating, approving,
                 rejecting, writing, reverseVars>>

\* ... then marks the payout, if it still is APPROVED, with that sum, however
\* old, and the commissions that are still attached as PAID.  It may be the
\* victim of a deadlock with a transaction about to recompute this payout.
MarkPaid(q, sum) ==
  /\ <<q, sum>> \in marking
  /\ marking' = marking \ {<<q, sum>>}
  /\ \/ /\ payout[q] = "APPROVED" /\ Payable(q) \cap Locked = {}
        /\ payout' = [payout EXCEPT ![q] = "PAID"]
        /\ counted' = [counted EXCEPT ![q] = sum]
        /\ commission' = [o \in Orders |-> IF o \in Payable(q) THEN "PAID"
                                                              ELSE commission[o]]
     \/ /\ payout[q] # "APPROVED" \/ \E w \in writing : w.payout = q
        /\ UNCHANGED <<payout, counted, commission>>
  /\ UNCHANGED <<orderVars, attached, planned, creating, approving, rejecting,
                 writing, reverseVars>>

-----------------------------------------------------------------------------
OrderStep(o) ==
  \/ PayOrder(o) \/ RequestRefund(o) \/ RejectRefund(o) \/ ProcessRefund(o)
  \/ ChargeBack(o)

LedgerStep(o) ==
  \/ StartCreation(o) \/ InsertCommission(o)
  \/ StartApproval(o) \/ ApproveEarly(o) \/ StartRejection(o)
  \/ PlanReversal(o)
  \/ \E q \in Payouts \cup {NoPayout} :
       RejectCommission(o, q) \/ ReverseCommission(o, q)

PayoutStep(q) ==
  \/ CountOpen(q) \/ PlanPayout(q) \/ Reserve(q)
  \/ ApprovePayout(q) \/ RejectPayout(q) \/ SumPayout(q)
  \/ \E sum \in SUBSET Orders : MarkPaid(q, sum)

CommissionNext ==
  \/ \E o \in Orders : OrderStep(o) \/ LedgerStep(o)
  \/ \E S \in SUBSET Orders : ReleaseMatured(S)
  \/ \E q \in Payouts : PayoutStep(q)
  \/ \E w \in writing : Commit(w) \/ Abort(w)

CommissionSpec == CommissionInit /\ [][CommissionNext]_commissionVars
-----------------------------------------------------------------------------
(* Properties.                                                             *)

Live == {q \in Payouts : payout[q] \in {"REQUESTED", "APPROVED", "PAID"}}

\* No commission is counted by two payouts that are open or paid, although
\* concurrent requests may both pass the check for an open payout.
PaidOutOnce ==
  \A q1, q2 \in Live : q1 # q2 => counted[q1] \cap counted[q2] = {}

\* A commission is reserved by a payout exactly while that payout can pay it
\* or has paid it; in particular it is PAID only through a PAID payout.
ReservationsHold ==
  \A o \in Orders :
    /\ attached[o] # NoPayout =>
         \/ commission[o] = "APPROVED" /\ attached[o] \in Open
         \/ commission[o] = "PAID" /\ payout[attached[o]] = "PAID"
    /\ commission[o] = "PAID" => attached[o] # NoPayout

\* The amount of an open or paid payout covers every commission it holds, and
\* beyond those it counts only commissions that were reversed or rejected:
\* such a row may leave after the amount was read, also the amount a payout is
\* marked PAID with, which is never less than what the payout pays.
AmountsCover ==
  \A q \in Live, o \in Orders :
    /\ attached[o] = q => o \in counted[q]
    /\ o \in counted[q] =>
         attached[o] = q \/ commission[o] \in {"REVERSED", "REJECTED"}

\* Payouts hold what they may pay, amount to no less, and share nothing.
PayoutsHold == ReservationsHold /\ PaidOutOnce /\ AmountsCover

\* What was paid stays paid: a reversal or rejection that was planned from an
\* earlier read never takes it back.
PaidIsFinal ==
  [][\A o \in Orders :
       commission[o] = "PAID" =>
         commission'[o] = "PAID" /\ attached'[o] = attached[o]]_commissionVars

\* Once the reversal that follows a refund has run, nothing of the refunded
\* order is payable: neither a commission that was created late, nor an early
\* approval that read the order while it was PAID, nor a payout request that
\* read its balance before the refund.
RefundedNotPayable ==
  \A o \in Orders :
    /\ order[o] = "REFUNDED"
    /\ o \notin due /\ o \notin flagged
    /\ \A x \in reversing : x[1] # o
    /\ \A w \in writing : w.row # o
    => commission[o] # "APPROVED"

\* Every state is well typed, nothing that was refunded is payable, and payouts
\* hold what they may pay and amount to no less.
CommissionInv == CommissionTypeOK /\ RefundedNotPayable /\ PayoutsHold

=============================================================================
