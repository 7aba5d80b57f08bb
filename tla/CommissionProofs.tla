-------------------------- MODULE CommissionProofs --------------------------
(***************************************************************************)
(* The partner ledger, for every set of orders and payout requests: what   *)
(* was paid stays paid, payouts hold what they may pay, amount to no less  *)
(* and share nothing, and nothing of a refunded order is payable.          *)
(*                                                                         *)
(* The difficulty are transactions about to commit, which write what they  *)
(* read earlier.  The invariant says of each what it relies on (the row is *)
(* locked and unpaid, the rows it left in its payout are all that may      *)
(* still be attached), and says of commissions not only which payout       *)
(* counts them but which one may yet come to count them.                   *)
(*                                                                         *)
(* At the end, what one order earns, for all Partners, rates and calls.    *)
(***************************************************************************)
EXTENDS PartnerCommissions, Earnings, TLAPS

\* Statuses nothing leads out of, and payouts that reserved their rows.
Terminal == {"REVERSED", "REJECTED"}
Issued == {"REQUESTED", "APPROVED", "REJECTED", "PAID"}

\* A transaction about to change a row has it locked, and unpaid; one that
\* changes none found it paid or ended.  What is attached to the payout it
\* recomputes is among the rows it found.
WriteHolds(w) ==
  /\ IF w.status = "none" THEN commission[w.row] \in Terminal \cup {"PAID"}
                          ELSE commission[w.row] \in Unpaid
  /\ \A v \in writing : w.status # "none" /\ v.row = w.row => v = w
  /\ w.payout # NoPayout =>
       /\ payout[w.payout] \in Issued
       /\ \A o \in Orders : attached[o] = w.payout =>
            o \in w.left \/ (w.status # "none" /\ o = w.row)

WritesHold == \A w \in writing : WriteHolds(w)

\* Only payouts that were requested are summed up, and only of something.
RequestsHold ==
  /\ \A m \in marking : payout[m[1]] \in Issued
  /\ \A q \in Payouts : payout[q] = "planned" => planned[q] # {}

\* q counts o, or a call under way may make it do so.
Claims(q, o) ==
  \/ attached[o] = q
  \/ o \in counted[q]
  \/ \E w \in writing : w.payout = q /\ o \in w.left
  \/ \E m \in marking : m[1] = q /\ o \in m[2]

\* A live payout claims what is attached to it and what has ended since, and no
\* two claim one commission.
ClaimsHold ==
  \A q \in Live, o \in Orders : Claims(q, o) =>
    /\ attached[o] = q \/ commission[o] \in Terminal
    /\ \A r \in Live : Claims(r, o) => r = q

\* The amount of a payout, and every sum read to mark one paid, covers what is
\* attached to it: rows leave a payout, but none joins one that was requested.
CoversHold ==
  /\ \A o \in Orders : attached[o] # NoPayout => o \in counted[attached[o]]
  /\ \A m \in marking, o \in Orders : attached[o] = m[1] => o \in m[2]

\* A commission under way to be reversed or approved exists.
CallsKnowRow ==
  /\ \A o \in approving : commission[o] # "none"
  /\ \A x \in reversing : commission[x[1]] # "none"

\* The reversal that a refund calls for is still to come, or was reported.
ReversalPending(o) ==
  \/ o \in due \cup flagged
  \/ \E x \in reversing : x[1] = o
  \/ \E w \in writing : w.row = o /\ w.status # "REJECTED"

\* After it, a commission of the order is at most PENDING, and stays so.
RefundsHold ==
  \A o \in Orders : order[o] = "REFUNDED" /\ ~ReversalPending(o) =>
    /\ commission[o] # "APPROVED"
    /\ commission[o] = "PENDING" => o \notin approving

LedgerInv ==
  /\ CommissionTypeOK
  /\ ReservationsHold
  /\ WritesHold
  /\ RequestsHold
  /\ ClaimsHold
  /\ CoversHold
  /\ CallsKnowRow
  /\ RefundsHold
-----------------------------------------------------------------------------
LEMMA StartsHold == CommissionInit => LedgerInv
BY CommissionsAssumption
DEF CommissionInit, LedgerInv, CommissionTypeOK, CommissionStatus, PayoutStatus,
    Open, ReservationsHold, WritesHold, RequestsHold, ClaimsHold, Live,
    CoversHold, CallsKnowRow, RefundsHold

\* The rows a recomputation finds, and what it writes.
LEMMA DetachingTyped ==
  ASSUME NEW o \in Orders, NEW q \in Payouts \cup {NoPayout},
         NEW into \in {"none", "REVERSED", "REJECTED"}
  PROVE  /\ Detaching(o, q, into) \in
              [row : Orders, payout : Payouts \cup {NoPayout}, left : SUBSET Orders,
               status : {"none", "REVERSED", "REJECTED"}]
         /\ Detaching(o, q, into).row = o /\ Detaching(o, q, into).status = into
         /\ Detaching(o, q, into).payout # NoPayout =>
              /\ Detaching(o, q, into).payout = q /\ q \in Open
              /\ Detaching(o, q, into).left = {x \in Orders : attached[x] = q} \
                   (IF into = "none" THEN {} ELSE {o})
         /\ Detaching(o, q, into).payout = NoPayout =>
              Detaching(o, q, into).left = {}
BY CommissionsAssumption DEF Detaching, Open

\* Every step is well typed.
LEMMA LedgerTyped ==
  ASSUME LedgerInv, CommissionNext
  PROVE  CommissionTypeOK'
<1> USE DEF LedgerInv, CommissionTypeOK, orderVars, ledgerVars, payoutVars,
            decisionVars, reverseVars
<1>1. ASSUME NEW o \in Orders, OrderStep(o)
      PROVE  CommissionTypeOK'
  BY <1>1 DEF OrderStep, PayOrder, RequestRefund, RejectRefund, ProcessRefund,
              ChargeBack, Open
<1>2. ASSUME NEW o \in Orders, LedgerStep(o)
      PROVE  CommissionTypeOK'
  <2>1. CASE StartCreation(o) \/ InsertCommission(o) \/ StartApproval(o) \/ ApproveEarly(o)
    BY <2>1 DEF StartCreation, InsertCommission, StartApproval, ApproveEarly,
                CommissionStatus, Open
  <2>2. CASE StartRejection(o) \/ PlanReversal(o)
    BY <2>2 DEF StartRejection, PlanReversal, Open
  <2>3. ASSUME NEW q \in Payouts \cup {NoPayout},
               RejectCommission(o, q) \/ ReverseCommission(o, q)
        PROVE  CommissionTypeOK'
    BY <2>3, DetachingTyped DEF RejectCommission, ReverseCommission, Open
  <2> QED
    BY <1>2, <2>1, <2>2, <2>3 DEF LedgerStep
<1>3. ASSUME NEW S \in SUBSET Orders, ReleaseMatured(S)
      PROVE  CommissionTypeOK'
  BY <1>3 DEF ReleaseMatured, CommissionStatus, Open
<1>4. ASSUME NEW q \in Payouts, PayoutStep(q)
      PROVE  CommissionTypeOK'
  <2>1. CASE CountOpen(q) \/ PlanPayout(q)
    BY <2>1 DEF CountOpen, PlanPayout, Available, Open, PayoutStatus
  <2>2. CASE Reserve(q)
    BY <2>2 DEF Reserve, RequestsHold, Open, PayoutStatus
  <2>3. CASE ApprovePayout(q) \/ SumPayout(q)
    BY <2>3 DEF ApprovePayout, SumPayout, Payable, Open, PayoutStatus
  <2>4. CASE RejectPayout(q)
    BY <2>4 DEF RejectPayout, Open, PayoutStatus
  <2>5. ASSUME NEW sum \in SUBSET Orders, MarkPaid(q, sum)
        PROVE  CommissionTypeOK'
    BY <2>5 DEF MarkPaid, Open, PayoutStatus, CommissionStatus
  <2> QED
    BY <1>4, <2>1, <2>2, <2>3, <2>4, <2>5 DEF PayoutStep
<1>5. ASSUME NEW w \in writing, Commit(w)
      PROVE  CommissionTypeOK'
  BY <1>5 DEF Commit, UpdateSharePayout, Open, PayoutStatus, CommissionStatus
<1>6. ASSUME NEW w \in writing, Abort(w)
      PROVE  CommissionTypeOK'
  BY <1>6 DEF Abort, Open
<1> QED
  BY <1>1, <1>2, <1>3, <1>4, <1>5, <1>6 DEF CommissionNext

\* The steps of CommissionNext, each with its parameters.
LEMMA LedgerSteps ==
  ASSUME CommissionNext
  PROVE  \/ \E o \in Orders : OrderStep(o)
         \/ \E o \in Orders :
              StartCreation(o) \/ StartApproval(o) \/ StartRejection(o) \/ PlanReversal(o)
         \/ \E o \in Orders : InsertCommission(o) \/ ApproveEarly(o)
         \/ \E S \in SUBSET Orders : ReleaseMatured(S)
         \/ \E o \in Orders, q \in Payouts \cup {NoPayout} :
              RejectCommission(o, q) \/ ReverseCommission(o, q)
         \/ \E q \in Payouts :
              CountOpen(q) \/ PlanPayout(q) \/ ApprovePayout(q) \/ SumPayout(q)
         \/ \E q \in Payouts : Reserve(q)
         \/ \E q \in Payouts : RejectPayout(q)
         \/ \E q \in Payouts, sum \in SUBSET Orders : MarkPaid(q, sum)
         \/ \E w \in writing : Commit(w)
         \/ \E w \in writing : Abort(w)
BY DEF CommissionNext, LedgerStep, PayoutStep

\* What is reserved is payable, and what is paid was reserved: a commit that
\* rejects a payout leaves nothing attached to it.
LEMMA ReservationsKept ==
  ASSUME LedgerInv, CommissionNext
  PROVE  ReservationsHold'
<1> USE DEF LedgerInv, CommissionTypeOK, ReservationsHold, Open,
            orderVars, ledgerVars, payoutVars, decisionVars, reverseVars
<1>1. ASSUME NEW o \in Orders, OrderStep(o)
      PROVE  ReservationsHold'
  BY <1>1 DEF OrderStep, PayOrder, RequestRefund, RejectRefund, ProcessRefund,
              ChargeBack
<1>2. ASSUME NEW o \in Orders,
             StartCreation(o) \/ StartApproval(o) \/ StartRejection(o) \/ PlanReversal(o)
      PROVE  ReservationsHold'
  BY <1>2 DEF StartCreation, StartApproval, StartRejection, PlanReversal
<1>3. ASSUME NEW o \in Orders, InsertCommission(o) \/ ApproveEarly(o)
      PROVE  ReservationsHold'
  BY <1>3 DEF InsertCommission, ApproveEarly
<1>4. ASSUME NEW S \in SUBSET Orders, ReleaseMatured(S)
      PROVE  ReservationsHold'
  BY <1>4 DEF ReleaseMatured, Releasable
<1>5. ASSUME NEW o \in Orders, NEW q \in Payouts \cup {NoPayout},
             RejectCommission(o, q) \/ ReverseCommission(o, q)
      PROVE  ReservationsHold'
  BY <1>5 DEF RejectCommission, ReverseCommission
<1>6. ASSUME NEW q \in Payouts,
             CountOpen(q) \/ PlanPayout(q) \/ ApprovePayout(q) \/ SumPayout(q)
      PROVE  ReservationsHold'
  BY <1>6 DEF CountOpen, PlanPayout, ApprovePayout, SumPayout
<1>7. ASSUME NEW q \in Payouts, Reserve(q)
      PROVE  ReservationsHold'
  BY <1>7 DEF Reserve, Reservable
<1>8. ASSUME NEW q \in Payouts, RejectPayout(q)
      PROVE  ReservationsHold'
  BY <1>8 DEF RejectPayout, Payable
<1>9. ASSUME NEW q \in Payouts, NEW sum \in SUBSET Orders, MarkPaid(q, sum)
      PROVE  ReservationsHold'
  BY <1>9, CommissionsAssumption DEF MarkPaid, Payable
<1>10. ASSUME NEW w \in writing, Commit(w)
       PROVE  ReservationsHold'
  <2> USE DEF Commit, WritesHold, WriteHolds
  <2>1. CASE w.payout = NoPayout
    BY <1>10, <2>1 DEF UpdateSharePayout, Unpaid
  <2>2. CASE w.payout # NoPayout
    <3>1. \A o \in Orders : attached'[o] = w.payout => o \in w.left
      BY <1>10, <2>2
    <3>2. \A o \in Orders : attached'[o] # NoPayout =>
            attached'[o] = attached[o] /\ commission'[o] = commission[o]
      BY <1>10
    <3>3. \A q \in Payouts : q # w.payout \/ w.left # {} => payout'[q] = payout[q]
      BY <1>10, <2>2 DEF UpdateSharePayout
    <3>4. \A o \in Orders : commission'[o] = "PAID" =>
            commission[o] = "PAID" /\ attached'[o] = attached[o]
      BY <1>10 DEF Unpaid
    <3> QED
      BY <1>10, <3>1, <3>2, <3>3, <3>4
  <2> QED
    BY <2>1, <2>2
<1>11. ASSUME NEW w \in writing, Abort(w)
       PROVE  ReservationsHold'
  BY <1>11 DEF Abort
<1> QED
  BY LedgerSteps, <1>1, <1>2, <1>3, <1>4, <1>5, <1>6, <1>7, <1>8, <1>9, <1>10, <1>11

\* Requests and payments only ever belong to payouts that got that far.
LEMMA RequestsKept ==
  ASSUME LedgerInv, CommissionNext
  PROVE  RequestsHold'
<1> USE DEF LedgerInv, CommissionTypeOK, RequestsHold, Issued,
            orderVars, ledgerVars, payoutVars, decisionVars, reverseVars
<1>1. ASSUME NEW o \in Orders, OrderStep(o)
      PROVE  RequestsHold'
  BY <1>1 DEF OrderStep, PayOrder, RequestRefund, RejectRefund, ProcessRefund,
              ChargeBack
<1>2. ASSUME NEW o \in Orders,
             StartCreation(o) \/ StartApproval(o) \/ StartRejection(o) \/ PlanReversal(o)
      PROVE  RequestsHold'
  BY <1>2 DEF StartCreation, StartApproval, StartRejection, PlanReversal
<1>3. ASSUME NEW o \in Orders, InsertCommission(o) \/ ApproveEarly(o)
      PROVE  RequestsHold'
  BY <1>3 DEF InsertCommission, ApproveEarly
<1>4. ASSUME NEW S \in SUBSET Orders, ReleaseMatured(S)
      PROVE  RequestsHold'
  BY <1>4 DEF ReleaseMatured
<1>5. ASSUME NEW o \in Orders, NEW q \in Payouts \cup {NoPayout},
             RejectCommission(o, q) \/ ReverseCommission(o, q)
      PROVE  RequestsHold'
  BY <1>5 DEF RejectCommission, ReverseCommission
<1>6. ASSUME NEW q \in Payouts,
             CountOpen(q) \/ PlanPayout(q) \/ ApprovePayout(q) \/ SumPayout(q)
      PROVE  RequestsHold'
  BY <1>6 DEF CountOpen, PlanPayout, ApprovePayout, SumPayout
<1>7. ASSUME NEW q \in Payouts, Reserve(q) \/ RejectPayout(q)
      PROVE  RequestsHold'
  BY <1>7 DEF Reserve, RejectPayout, Open
<1>8. ASSUME NEW q \in Payouts, NEW sum \in SUBSET Orders, MarkPaid(q, sum)
      PROVE  RequestsHold'
  BY <1>8 DEF MarkPaid
<1>9. ASSUME NEW w \in writing, Commit(w) \/ Abort(w)
      PROVE  RequestsHold'
  BY <1>9 DEF Commit, Abort, UpdateSharePayout, WritesHold, WriteHolds
<1> QED
  BY LedgerSteps, <1>1, <1>2, <1>3, <1>4, <1>5, <1>6, <1>7, <1>8, <1>9

\* The transactions about to commit: nothing but the transaction itself moves
\* the row it has locked, and nothing is attached to a payout once requested.
LEMMA WritesKept ==
  ASSUME LedgerInv, CommissionNext
  PROVE  WritesHold'
<1> USE CommissionsAssumption
    DEF LedgerInv, CommissionTypeOK, WritesHold, WriteHolds, Terminal, Unpaid,
        Issued, Locked, orderVars, ledgerVars, payoutVars, decisionVars, reverseVars
<1>1. ASSUME NEW o \in Orders, OrderStep(o)
      PROVE  WritesHold'
  BY <1>1 DEF OrderStep, PayOrder, RequestRefund, RejectRefund, ProcessRefund,
              ChargeBack
<1>2. ASSUME NEW o \in Orders,
             StartCreation(o) \/ StartApproval(o) \/ StartRejection(o) \/ PlanReversal(o)
      PROVE  WritesHold'
  BY <1>2 DEF StartCreation, StartApproval, StartRejection, PlanReversal
<1>3. ASSUME NEW o \in Orders, InsertCommission(o) \/ ApproveEarly(o)
      PROVE  WritesHold'
  BY <1>3 DEF InsertCommission, ApproveEarly
<1>4. ASSUME NEW S \in SUBSET Orders, ReleaseMatured(S)
      PROVE  WritesHold'
  BY <1>4 DEF ReleaseMatured, Releasable
<1>5. ASSUME NEW o \in Orders, NEW q \in Payouts \cup {NoPayout},
             NEW into \in {"none", "REVERSED", "REJECTED"},
             writing' = writing \cup {Detaching(o, q, into)}, o \notin Locked,
             IF into = "none" THEN commission[o] \in Terminal \cup {"PAID"}
                              ELSE commission[o] \in Unpaid,
             UNCHANGED <<ledgerVars, payoutVars>>
      PROVE  WritesHold'
  <2>1. PICK n : n = Detaching(o, q, into)
    OBVIOUS
  <2>2. /\ n.row = o /\ n.status = into
        /\ n.payout # NoPayout =>
             /\ n.payout = q /\ q \in Open
             /\ n.left = {x \in Orders : attached[x] = q} \
                           (IF into = "none" THEN {} ELSE {o})
    BY <2>1, DetachingTyped
  <2>3. \A w \in writing : w.row = o => w.status = "none" /\ into = "none"
    BY <1>5
  <2>4. writing' = writing \cup {n}
    BY <1>5, <2>1
  <2>5. ASSUME NEW w \in writing'
        PROVE  WriteHolds(w)'
    <3>1. CASE w = n
      BY <1>5, <2>2, <2>3, <2>4, <3>1 DEF Open
    <3>2. CASE w # n
      BY <1>5, <2>2, <2>3, <2>4, <2>5, <3>2
    <3> QED
      BY <3>1, <3>2
  <2> QED
    BY <2>5
<1>6. ASSUME NEW o \in Orders, NEW q \in Payouts \cup {NoPayout},
             RejectCommission(o, q) \/ ReverseCommission(o, q)
      PROVE  WritesHold'
  <2>1. CASE RejectCommission(o, q) /\ commission[o] \notin Unpaid
    BY <2>1 DEF RejectCommission
  <2>2. CASE RejectCommission(o, q) /\ commission[o] \in Unpaid
    BY <1>5, <2>2 DEF RejectCommission
  <2>3. CASE ReverseCommission(o, q) /\ commission[o] \in Unpaid
    BY <1>5, <2>3 DEF ReverseCommission
  <2>4. CASE ReverseCommission(o, q) /\ commission[o] \notin Unpaid
    BY <1>5, <2>4 DEF ReverseCommission, CallsKnowRow, CommissionStatus
  <2> QED
    BY <1>6, <2>1, <2>2, <2>3, <2>4
<1>7. ASSUME NEW q \in Payouts,
             CountOpen(q) \/ PlanPayout(q) \/ ApprovePayout(q) \/ SumPayout(q)
      PROVE  WritesHold'
  BY <1>7 DEF CountOpen, PlanPayout, ApprovePayout, SumPayout
<1>8. ASSUME NEW q \in Payouts, Reserve(q)
      PROVE  WritesHold'
  BY <1>8 DEF Reserve
<1>9. ASSUME NEW q \in Payouts, RejectPayout(q)
      PROVE  WritesHold'
  BY <1>9 DEF RejectPayout, Open
<1>10. ASSUME NEW q \in Payouts, NEW sum \in SUBSET Orders, MarkPaid(q, sum)
      PROVE  WritesHold'
  BY <1>10 DEF MarkPaid, Payable
<1>11. ASSUME NEW w \in writing, Commit(w)
       PROVE  WritesHold'
  <2>1. CASE w.status = "none"
    BY <1>11, <2>1 DEF Commit, UpdateSharePayout
  <2>2. CASE w.status # "none"
    <3>1. \A v \in writing' : v.row # w.row
      BY <1>11, <2>2 DEF Commit
    <3>2. \A o \in Orders : attached'[o] = attached[o] \/ attached'[o] = NoPayout
      BY <1>11 DEF Commit
    <3>3. \A q \in Payouts : payout[q] \in Issued => payout'[q] \in Issued
      BY <1>11 DEF Commit, UpdateSharePayout
    <3>4. \A o \in Orders : o # w.row => commission'[o] = commission[o]
      BY <1>11 DEF Commit
    <3> QED
      BY <1>11, <3>1, <3>2, <3>3, <3>4 DEF Commit
  <2> QED
    BY <2>1, <2>2
<1>12. ASSUME NEW w \in writing, Abort(w)
       PROVE  WritesHold'
  BY <1>12 DEF Abort
<1> QED
  BY LedgerSteps, <1>1, <1>2, <1>3, <1>4, <1>6, <1>7, <1>8, <1>9, <1>10, <1>11, <1>12

\* A payout comes to claim a commission only when it is requested: every other
\* step leaves it the claims it had, or fewer.
LEMMA FewerClaims ==
  ASSUME ClaimsHold, Live' \subseteq Live,
         \A q \in Live', o \in Orders : Claims(q, o)' => Claims(q, o),
         \A q \in Live', o \in Orders : attached[o] = q =>
           attached'[o] = q \/ commission'[o] \in Terminal,
         \A o \in Orders : commission[o] \in Terminal => commission'[o] \in Terminal
  PROVE  ClaimsHold'
BY DEF ClaimsHold

\* No two payouts claim one commission.
LEMMA ClaimsKept ==
  ASSUME LedgerInv, CommissionNext
  PROVE  ClaimsHold'
<1> USE CommissionsAssumption, FewerClaims
    DEF LedgerInv, CommissionTypeOK, Live, Claims, Terminal, orderVars, ledgerVars,
        payoutVars, decisionVars, reverseVars
<1>1. ASSUME NEW o \in Orders, OrderStep(o)
      PROVE  ClaimsHold'
  BY <1>1 DEF OrderStep, PayOrder, RequestRefund, RejectRefund, ProcessRefund,
              ChargeBack
<1>2. ASSUME NEW o \in Orders,
             StartCreation(o) \/ StartApproval(o) \/ StartRejection(o) \/ PlanReversal(o)
      PROVE  ClaimsHold'
  BY <1>2 DEF StartCreation, StartApproval, StartRejection, PlanReversal
<1>3. ASSUME NEW o \in Orders, InsertCommission(o) \/ ApproveEarly(o)
      PROVE  ClaimsHold'
  BY <1>3 DEF InsertCommission, ApproveEarly
<1>4. ASSUME NEW S \in SUBSET Orders, ReleaseMatured(S)
      PROVE  ClaimsHold'
  BY <1>4 DEF ReleaseMatured, Releasable
<1>5. ASSUME NEW o \in Orders, NEW q \in Payouts \cup {NoPayout},
             RejectCommission(o, q) \/ ReverseCommission(o, q)
      PROVE  ClaimsHold'
  <2>1. UNCHANGED <<commission, attached, payout, counted, marking>>
    BY <1>5 DEF RejectCommission, ReverseCommission
  <2>2. ASSUME NEW w \in writing', w \notin writing, w.payout # NoPayout
        PROVE  \A x \in w.left : attached[x] = w.payout
    BY <1>5, <2>2, DetachingTyped DEF RejectCommission, ReverseCommission
  <2>3. \A r \in Live', x \in Orders : Claims(r, x)' => Claims(r, x)
    BY <2>1, <2>2
  <2> QED
    BY <2>1, <2>3
<1>6. ASSUME NEW q \in Payouts,
             CountOpen(q) \/ PlanPayout(q) \/ ApprovePayout(q)
      PROVE  ClaimsHold'
  BY <1>6 DEF CountOpen, PlanPayout, ApprovePayout
<1>7. ASSUME NEW q \in Payouts, SumPayout(q)
      PROVE  ClaimsHold'
  BY <1>7 DEF SumPayout, Payable
<1>8. ASSUME NEW q \in Payouts, Reserve(q)
      PROVE  ClaimsHold'
  <2>1. CASE payout'[q] = "refused"
    BY <1>8, <2>1 DEF Reserve
  <2>2. CASE payout'[q] # "refused"
    <3>1. /\ payout[q] = "planned"
          /\ \A o \in planned[q] : commission[o] = "APPROVED" /\ attached[o] = NoPayout
          /\ payout' = [payout EXCEPT ![q] = "REQUESTED"]
          /\ counted' = [counted EXCEPT ![q] = planned[q]]
          /\ attached' = [o \in Orders |-> IF o \in planned[q] THEN q
                                                               ELSE attached[o]]
          /\ UNCHANGED <<commission, marking, writing>>
      BY <1>8, <2>2 DEF Reserve, Reservable
    <3>2. \A o \in Orders : Claims(q, o)' => o \in planned[q]
      BY <3>1 DEF RequestsHold, WritesHold, WriteHolds, Issued, ReservationsHold, Open
    <3>3. \A r \in Live', o \in Orders : r # q /\ Claims(r, o)' =>
            r \in Live /\ Claims(r, o)
      BY <3>1
    <3>4. \A r \in Live, o \in Orders : Claims(r, o) => o \notin planned[q]
      BY <3>1 DEF ClaimsHold
    <3>5. ASSUME NEW r \in Live', NEW o \in Orders, Claims(r, o)'
          PROVE  /\ attached'[o] = r \/ commission'[o] \in Terminal
                 /\ \A t \in Live' : Claims(t, o)' => t = r
      <4>1. CASE r = q
        <5>1. o \in planned[q]
          BY <3>2, <3>5, <4>1
        <5> HIDE DEF Claims, Live
        <5> QED
          BY <3>1, <3>3, <3>4, <4>1, <5>1
      <4>2. CASE r # q
        <5> HIDE DEF Claims, Live
        <5>1. r \in Live /\ Claims(r, o) /\ o \notin planned[q]
          BY <3>3, <3>4, <3>5, <4>2
        <5>2. attached'[o] = r \/ commission'[o] \in Terminal
          BY <3>1, <5>1 DEF ClaimsHold
        <5>3. \A t \in Live' : Claims(t, o)' => t = r
          BY <3>2, <3>3, <5>1 DEF ClaimsHold
        <5> QED
          BY <5>2, <5>3
      <4> QED
        BY <4>1, <4>2
    <3> QED
      BY <3>5 DEF ClaimsHold
  <2> QED
    BY <2>1, <2>2
<1>9. ASSUME NEW q \in Payouts, RejectPayout(q)
      PROVE  ClaimsHold'
  BY <1>9 DEF RejectPayout, Payable
<1>10. ASSUME NEW q \in Payouts, NEW sum \in SUBSET Orders, MarkPaid(q, sum)
       PROVE  ClaimsHold'
  BY <1>10 DEF MarkPaid, Payable
<1>11. ASSUME NEW w \in writing, Commit(w)
       PROVE  ClaimsHold'
  BY <1>11 DEF Commit, UpdateSharePayout, WritesHold, WriteHolds
<1>12. ASSUME NEW w \in writing, Abort(w)
       PROVE  ClaimsHold'
  BY <1>12 DEF Abort
<1> QED
  BY LedgerSteps, <1>1, <1>2, <1>3, <1>4, <1>5, <1>6, <1>7, <1>8, <1>9, <1>10, <1>11, <1>12

\* Amounts and sums cover what is attached, also those written late.
LEMMA CoversKept ==
  ASSUME LedgerInv, CommissionNext
  PROVE  CoversHold'
<1> USE CommissionsAssumption
    DEF LedgerInv, CommissionTypeOK, CoversHold, orderVars, ledgerVars, payoutVars,
        decisionVars, reverseVars
<1>1. ASSUME NEW o \in Orders, OrderStep(o)
      PROVE  CoversHold'
  BY <1>1 DEF OrderStep, PayOrder, RequestRefund, RejectRefund, ProcessRefund,
              ChargeBack
<1>2. ASSUME NEW o \in Orders,
             StartCreation(o) \/ StartApproval(o) \/ StartRejection(o) \/ PlanReversal(o)
      PROVE  CoversHold'
  BY <1>2 DEF StartCreation, StartApproval, StartRejection, PlanReversal
<1>3. ASSUME NEW o \in Orders, InsertCommission(o) \/ ApproveEarly(o)
      PROVE  CoversHold'
  BY <1>3 DEF InsertCommission, ApproveEarly
<1>4. ASSUME NEW S \in SUBSET Orders, ReleaseMatured(S)
      PROVE  CoversHold'
  BY <1>4 DEF ReleaseMatured
<1>5. ASSUME NEW o \in Orders, NEW q \in Payouts \cup {NoPayout},
             RejectCommission(o, q) \/ ReverseCommission(o, q)
      PROVE  CoversHold'
  BY <1>5 DEF RejectCommission, ReverseCommission
<1>6. ASSUME NEW q \in Payouts,
             CountOpen(q) \/ PlanPayout(q) \/ ApprovePayout(q)
      PROVE  CoversHold'
  BY <1>6 DEF CountOpen, PlanPayout, ApprovePayout
<1>7. ASSUME NEW q \in Payouts, SumPayout(q)
      PROVE  CoversHold'
  <2>1. \A o \in Orders : attached[o] = q => o \in Payable(q)
    BY <1>7 DEF SumPayout, Payable, ReservationsHold
  <2> QED
    BY <1>7, <2>1 DEF SumPayout
<1>8. ASSUME NEW q \in Payouts, Reserve(q)
      PROVE  CoversHold'
  <2>1. payout[q] = "planned" /\ marking' = marking
    BY <1>8 DEF Reserve
  <2>2. \A o \in Orders : attached[o] # q
    BY <2>1 DEF ReservationsHold, Open
  <2>3. \A m \in marking : m[1] # q
    BY <2>1 DEF RequestsHold, Issued
  <2> QED
    BY <1>8, <2>1, <2>2, <2>3 DEF Reserve
<1>9. ASSUME NEW q \in Payouts, RejectPayout(q)
      PROVE  CoversHold'
  BY <1>9 DEF RejectPayout
<1>10. ASSUME NEW q \in Payouts, NEW sum \in SUBSET Orders, MarkPaid(q, sum)
       PROVE  CoversHold'
  BY <1>10 DEF MarkPaid
<1>11. ASSUME NEW w \in writing, Commit(w)
       PROVE  CoversHold'
  BY <1>11 DEF Commit, UpdateSharePayout, WritesHold, WriteHolds
<1>12. ASSUME NEW w \in writing, Abort(w)
       PROVE  CoversHold'
  BY <1>12 DEF Abort
<1> QED
  BY LedgerSteps, <1>1, <1>2, <1>3, <1>4, <1>5, <1>6, <1>7, <1>8, <1>9, <1>10, <1>11, <1>12

\* A commission never ceases to exist.
LEMMA CallsKept ==
  ASSUME LedgerInv, CommissionNext
  PROVE  CallsKnowRow'
<1> USE DEF LedgerInv, CommissionTypeOK, CallsKnowRow, Unpaid, orderVars, ledgerVars,
            payoutVars, decisionVars, reverseVars
<1>1. ASSUME NEW o \in Orders, OrderStep(o)
      PROVE  CallsKnowRow'
  BY <1>1 DEF OrderStep, PayOrder, RequestRefund, RejectRefund, ProcessRefund,
              ChargeBack
<1>2. ASSUME NEW o \in Orders,
             StartCreation(o) \/ StartApproval(o) \/ StartRejection(o) \/ PlanReversal(o)
      PROVE  CallsKnowRow'
  BY <1>2 DEF StartCreation, StartApproval, StartRejection, PlanReversal
<1>3. ASSUME NEW o \in Orders, InsertCommission(o) \/ ApproveEarly(o)
      PROVE  CallsKnowRow'
  BY <1>3 DEF InsertCommission, ApproveEarly
<1>4. ASSUME NEW S \in SUBSET Orders, ReleaseMatured(S)
      PROVE  CallsKnowRow'
  BY <1>4 DEF ReleaseMatured
<1>5. ASSUME NEW o \in Orders, NEW q \in Payouts \cup {NoPayout},
             RejectCommission(o, q) \/ ReverseCommission(o, q)
      PROVE  CallsKnowRow'
  BY <1>5 DEF RejectCommission, ReverseCommission
<1>6. ASSUME NEW q \in Payouts, CountOpen(q) \/ PlanPayout(q) \/ ApprovePayout(q)
               \/ SumPayout(q) \/ Reserve(q) \/ RejectPayout(q)
      PROVE  CallsKnowRow'
  BY <1>6 DEF CountOpen, PlanPayout, ApprovePayout, SumPayout, Reserve, RejectPayout
<1>7. ASSUME NEW q \in Payouts, NEW sum \in SUBSET Orders, MarkPaid(q, sum)
      PROVE  CallsKnowRow'
  BY <1>7 DEF MarkPaid
<1>8. ASSUME NEW w \in writing, Commit(w) \/ Abort(w)
      PROVE  CallsKnowRow'
  BY <1>8 DEF Commit, Abort
<1> QED
  BY LedgerSteps, <1>1, <1>2, <1>3, <1>4, <1>5, <1>6, <1>7, <1>8

\* After the reversal of a refunded order, nothing makes its commission payable.
LEMMA RefundsKept ==
  ASSUME LedgerInv, CommissionNext
  PROVE  RefundsHold'
<1> USE DEF LedgerInv, CommissionTypeOK, RefundsHold, ReversalPending, orderVars,
            ledgerVars, payoutVars, decisionVars, reverseVars
<1>1. ASSUME NEW o \in Orders, OrderStep(o)
      PROVE  RefundsHold'
  BY <1>1 DEF OrderStep, PayOrder, RequestRefund, RejectRefund, ProcessRefund,
              ChargeBack
<1>2. ASSUME NEW o \in Orders, StartCreation(o) \/ StartApproval(o) \/ StartRejection(o)
      PROVE  RefundsHold'
  BY <1>2 DEF StartCreation, StartApproval, StartRejection
<1>3. ASSUME NEW o \in Orders, PlanReversal(o)
      PROVE  RefundsHold'
  <2>1. UNCHANGED <<order, commission, approving, writing>>
    BY <1>3 DEF PlanReversal
  <2>2. \A x \in Orders : x # o /\ ReversalPending(x) => ReversalPending(x)'
    BY <1>3, <2>1 DEF PlanReversal
  <2>3. commission[o] \in Unpaid => <<o, attached[o]>> \in reversing'
    BY <1>3 DEF PlanReversal
  <2>4. commission[o] \in Unpaid => ReversalPending(o)'
    BY <2>3
  <2> QED
    BY <2>1, <2>2, <2>4 DEF Unpaid
<1>4. ASSUME NEW o \in Orders, InsertCommission(o) \/ ApproveEarly(o)
      PROVE  RefundsHold'
  BY <1>4 DEF InsertCommission, ApproveEarly, CallsKnowRow
<1>5. ASSUME NEW S \in SUBSET Orders, ReleaseMatured(S)
      PROVE  RefundsHold'
  BY <1>5 DEF ReleaseMatured, Releasable
<1>6. ASSUME NEW o \in Orders, NEW q \in Payouts \cup {NoPayout},
             RejectCommission(o, q)
      PROVE  RefundsHold'
  <2>1. \A x \in Orders : ReversalPending(x) => ReversalPending(x)'
    BY <1>6 DEF RejectCommission
  <2> QED
    BY <1>6, <2>1 DEF RejectCommission
<1>7. ASSUME NEW o \in Orders, NEW q \in Payouts \cup {NoPayout},
             ReverseCommission(o, q)
      PROVE  RefundsHold'
  <2>1. \A x \in Orders : x # o /\ ReversalPending(x) => ReversalPending(x)'
    BY <1>7 DEF ReverseCommission
  <2>2. ReversalPending(o)'
    BY <1>7, DetachingTyped DEF ReverseCommission
  <2> QED
    BY <1>7, <2>1, <2>2 DEF ReverseCommission
<1>8. ASSUME NEW q \in Payouts, CountOpen(q) \/ PlanPayout(q) \/ ApprovePayout(q)
               \/ SumPayout(q) \/ Reserve(q) \/ RejectPayout(q)
      PROVE  RefundsHold'
  BY <1>8 DEF CountOpen, PlanPayout, ApprovePayout, SumPayout, Reserve, RejectPayout
<1>9. ASSUME NEW q \in Payouts, NEW sum \in SUBSET Orders, MarkPaid(q, sum)
      PROVE  RefundsHold'
  BY <1>9 DEF MarkPaid
<1>10. ASSUME NEW w \in writing, Commit(w)
       PROVE  RefundsHold'
  <2>1. \A x \in Orders : x # w.row /\ ReversalPending(x) => ReversalPending(x)'
    BY <1>10 DEF Commit
  <2>2. commission'[w.row] \notin {"PENDING", "APPROVED"}
    BY <1>10 DEF Commit, WritesHold, WriteHolds, Terminal
  <2>3. UNCHANGED <<order, approving>>
        /\ \A x \in Orders : x # w.row => commission'[x] = commission[x]
    BY <1>10 DEF Commit
  <2> QED
    BY <2>1, <2>2, <2>3
<1>11. ASSUME NEW w \in writing, Abort(w)
       PROVE  RefundsHold'
  <2>1. \A x \in Orders : ReversalPending(x) => ReversalPending(x)'
    BY <1>11 DEF Abort
  <2> QED
    BY <1>11, <2>1 DEF Abort
<1> QED
  BY LedgerSteps, <1>1, <1>2, <1>3, <1>4, <1>5, <1>6, <1>7, <1>8, <1>9, <1>10, <1>11

-----------------------------------------------------------------------------
\* The invariant is inductive.
THEOREM LedgerInvariant == CommissionSpec => []LedgerInv
<1>1. CommissionInit => LedgerInv
  BY StartsHold
<1>2. LedgerInv /\ [CommissionNext]_commissionVars => LedgerInv'
  <2>1. CASE LedgerInv /\ CommissionNext
    BY <2>1, LedgerTyped, ReservationsKept, WritesKept, RequestsKept, ClaimsKept,
       CoversKept, CallsKept, RefundsKept DEF LedgerInv
  <2>2. CASE LedgerInv /\ UNCHANGED commissionVars
    BY <2>2
    DEF LedgerInv, commissionVars, orderVars, ledgerVars, payoutVars, decisionVars,
        reverseVars, CommissionTypeOK, Open, ReservationsHold, WritesHold, WriteHolds,
        RequestsHold, ClaimsHold, Claims, Live, CoversHold, CallsKnowRow, RefundsHold,
        ReversalPending
  <2> QED
    BY <2>1, <2>2
<1> QED
  BY <1>1, <1>2, PTL DEF CommissionSpec

\* Nothing that was refunded is payable once its reversal has run, payouts hold
\* what they may pay, no commission counts in two payouts, and the amount of an
\* open or paid payout, also one that was marked paid with an old sum, covers
\* what it holds and beyond that only what was reversed or rejected.
THEOREM CommissionsSafe == CommissionSpec => []CommissionInv
<1>1. LedgerInv => CommissionInv
  <2> SUFFICES ASSUME LedgerInv
               PROVE  CommissionInv
    OBVIOUS
  <2>1. RefundedNotPayable
    BY DEF LedgerInv, RefundsHold, ReversalPending, RefundedNotPayable
  <2>2. PaidOutOnce
    BY DEF LedgerInv, CommissionTypeOK, ClaimsHold, Claims, PaidOutOnce, Live
  <2>3. AmountsCover
    <3> SUFFICES ASSUME NEW q \in Live, NEW o \in Orders
                 PROVE  /\ attached[o] = q => o \in counted[q]
                        /\ o \in counted[q] => attached[o] = q \/ commission[o] \in Terminal
      BY DEF AmountsCover, Terminal
    <3>1. attached[o] = q => o \in counted[q]
      BY CommissionsAssumption DEF LedgerInv, CoversHold, Live
    <3>2. o \in counted[q] => attached[o] = q \/ commission[o] \in Terminal
      BY DEF LedgerInv, ClaimsHold, Claims
    <3> QED
      BY <3>1, <3>2
  <2> QED
    BY <2>1, <2>2, <2>3 DEF LedgerInv, CommissionInv, PayoutsHold
<1> QED
  BY <1>1, LedgerInvariant, PTL

\* What was paid stays paid, and paid by the same payout.
THEOREM PaidStaysPaid == CommissionSpec => PaidIsFinal
<1> DEFINE Kept == \A o \in Orders : commission[o] = "PAID" =>
                     commission'[o] = "PAID" /\ attached'[o] = attached[o]
<1>1. ASSUME LedgerInv, CommissionNext
      PROVE  Kept
  <2> USE DEF LedgerInv, CommissionTypeOK, orderVars, ledgerVars, payoutVars,
              decisionVars, reverseVars
  <2>1. ASSUME NEW o \in Orders, OrderStep(o)
        PROVE  Kept
    BY <2>1 DEF OrderStep, PayOrder, RequestRefund, RejectRefund, ProcessRefund,
                ChargeBack
  <2>2. ASSUME NEW o \in Orders, StartCreation(o) \/ StartApproval(o)
                 \/ StartRejection(o) \/ PlanReversal(o)
        PROVE  Kept
    BY <2>2 DEF StartCreation, StartApproval, StartRejection, PlanReversal
  <2>3. ASSUME NEW o \in Orders, InsertCommission(o) \/ ApproveEarly(o)
        PROVE  Kept
    BY <1>1, <2>3 DEF InsertCommission, ApproveEarly
  <2>4. ASSUME NEW S \in SUBSET Orders, ReleaseMatured(S)
        PROVE  Kept
    BY <2>4 DEF ReleaseMatured, Releasable
  <2>5. ASSUME NEW o \in Orders, NEW q \in Payouts \cup {NoPayout},
               RejectCommission(o, q) \/ ReverseCommission(o, q)
        PROVE  Kept
    BY <2>5 DEF RejectCommission, ReverseCommission
  <2>6. ASSUME NEW q \in Payouts,
               CountOpen(q) \/ PlanPayout(q) \/ ApprovePayout(q) \/ SumPayout(q)
        PROVE  Kept
    BY <2>6 DEF CountOpen, PlanPayout, ApprovePayout, SumPayout
  <2>7. ASSUME NEW q \in Payouts, Reserve(q) \/ RejectPayout(q)
        PROVE  Kept
    BY <2>7 DEF Reserve, Reservable, RejectPayout, Payable
  <2>8. ASSUME NEW q \in Payouts, NEW sum \in SUBSET Orders, MarkPaid(q, sum)
        PROVE  Kept
    BY <2>8 DEF MarkPaid
  <2>9. ASSUME NEW w \in writing, Commit(w) \/ Abort(w)
        PROVE  Kept
    BY <1>1, <2>9 DEF Commit, Abort, WritesHold, WriteHolds, Unpaid
  <2> HIDE DEF Kept
  <2> QED
    BY LedgerSteps, <1>1, <2>1, <2>2, <2>3, <2>4, <2>5, <2>6, <2>7, <2>8, <2>9
<1>2. LedgerInv /\ [CommissionNext]_commissionVars => [Kept]_commissionVars
  BY <1>1
<1> QED
  BY <1>2, LedgerInvariant, PTL DEF CommissionSpec, PaidIsFinal
-----------------------------------------------------------------------------
(* What one order earns (Earnings).  A row is inserted two steps after the  *)
(* recruiter was read, so the invariant says of a row that is planned what  *)
(* the property says of one that is there.  That a recruiter is written     *)
(* once keeps the two in agreement.                                         *)

WithinRate(r) ==
  \E rate \in Rates :
    10000 * r.amount <= Basis * (IF r.tier = "PARTNER" THEN rate.partner ELSE rate.master)

\* A row that the order may earn.
MayEarn(r) ==
  /\ r.to # Buyer /\ WithinRate(r)
  /\ r.tier = "PARTNER" => r.to = creditedTo
  /\ r.tier = "MASTER_PARTNER" => r.to = recruitedBy[creditedTo]

OnePerTier(rows) == \A r, s \in rows : r.tier = s.tier => r = s

\* The Partner's row names the recruiter who earns.
NamesMaster(rows) ==
  \A r, s \in rows : r.tier = "PARTNER" /\ s.tier = "MASTER_PARTNER" => r.master = s.to

PlanTyped ==
  plan \in [Creations -> [at : {"idle", "settings", "insert"},
                          recruiter : Partners \cup {NoPartner}, rows : SUBSET Rows]]

\* The recruiter that a creation read is the one there is, and not the buyer.
ReadersHold ==
  \A c \in Creations : plan[c].recruiter # NoPartner =>
    plan[c].recruiter = recruitedBy[creditedTo] /\ plan[c].recruiter # Buyer

PlansHold ==
  \A c \in Creations : OnePerTier(plan[c].rows) /\ \A r \in plan[c].rows : MayEarn(r)

RowsHold ==
  /\ OnePerTier(earned) /\ \A r \in earned : MayEarn(r)
  /\ NamesMaster(first)

\* Until something changes all rows are those that were planned first.
FirstHolds ==
  ~changed => /\ earned \subseteq first
              /\ \A c \in Creations : plan[c].rows \in {{}, first}

EarnedInv ==
  /\ EarningsTypeOK /\ changed \in BOOLEAN
  /\ PlanTyped /\ ReadersHold /\ PlansHold /\ RowsHold /\ FirstHolds

\* An amount is rounded down.
LEMMA AmountWithin ==
  ASSUME NEW bps \in Nat
  PROVE  CommissionAmount(bps) \in Nat /\ 10000 * CommissionAmount(bps) <= Basis * bps
<1> DEFINE gross == Basis * bps
<1>1. gross \in Nat
  BY EarningsAssumption
<1> HIDE DEF gross
<1>2. (gross \div 10000) \in Nat /\ 10000 * (gross \div 10000) <= gross
  BY <1>1
<1> QED
  BY <1>2 DEF gross, CommissionAmount

\* What planOrderCommissions returns for a recruiter that was read.
LEMMA PlansMayEarn ==
  ASSUME EarnedInv, NEW m \in Partners \cup {NoPartner},
         m # NoPartner => m = recruitedBy[creditedTo] /\ m # Buyer
  PROVE  /\ PlannedRows(m) \subseteq Rows
         /\ OnePerTier(PlannedRows(m)) /\ NamesMaster(PlannedRows(m))
         /\ \A r \in PlannedRows(m) : MayEarn(r)
<1> DEFINE n == IF rates.master > 0 THEN m ELSE NoPartner
           P == Row("PARTNER", creditedTo, rates.partner, n)
           M == IF n = NoPartner THEN {} ELSE Row("MASTER_PARTNER", n, rates.master, n)
<1>1. /\ rates \in Rates /\ rates.partner \in Nat /\ rates.master \in Nat
      /\ creditedTo \in Partners \ {Buyer} /\ creditedTo # NoPartner
      /\ n \in Partners \cup {NoPartner}
  BY EarningsAssumption DEF EarnedInv, EarningsTypeOK
<1>2. \A r \in P : /\ r = [tier |-> "PARTNER", to |-> creditedTo,
                            amount |-> CommissionAmount(rates.partner), master |-> n]
                   /\ r.amount # 0
  BY DEF Row
<1>3. \A r \in M : /\ n # NoPartner
                   /\ r = [tier |-> "MASTER_PARTNER", to |-> n,
                           amount |-> CommissionAmount(rates.master), master |-> n]
                   /\ r.amount # 0
  BY DEF Row
<1>4. PlannedRows(m) = P \cup M
  BY DEF PlannedRows
<1> HIDE DEF P, M
<1>5. \A r \in P : r \in Rows /\ MayEarn(r)
  <2> SUFFICES ASSUME NEW r \in P PROVE r \in Rows /\ MayEarn(r)
    OBVIOUS
  <2>1. r.amount \in Nat \ {0} /\ 10000 * r.amount <= Basis * rates.partner
    BY <1>1, <1>2, AmountWithin
  <2>2. WithinRate(r)
    BY <1>1, <1>2, <2>1 DEF WithinRate
  <2> QED
    BY <1>1, <1>2, <2>1, <2>2 DEF Rows, Tiers, MayEarn
<1>6. \A r \in M : r \in Rows /\ MayEarn(r)
  <2> SUFFICES ASSUME NEW r \in M PROVE r \in Rows /\ MayEarn(r)
    OBVIOUS
  <2>1. r.amount \in Nat \ {0} /\ 10000 * r.amount <= Basis * rates.master
    BY <1>1, <1>3, AmountWithin
  <2>2. WithinRate(r)
    BY <1>1, <1>3, <2>1 DEF WithinRate
  <2>3. n = m /\ m # NoPartner
    BY <1>3
  <2> QED
    BY <1>1, <1>3, <2>1, <2>2, <2>3 DEF Rows, Tiers, MayEarn
<1>7. OnePerTier(P \cup M) /\ NamesMaster(P \cup M)
  BY <1>2, <1>3 DEF OnePerTier, NamesMaster
<1> QED
  BY <1>4, <1>5, <1>6, <1>7

\* The programme may change as it likes: a recruiter is written once.
LEMMA MayStillEarn ==
  ASSUME EarnedInv, NEW r \in Rows, MayEarn(r), creditedTo' = creditedTo,
         recruitedBy[creditedTo] # NoPartner =>
           recruitedBy'[creditedTo] = recruitedBy[creditedTo]
  PROVE  MayEarn(r)'
  BY EarningsAssumption DEF MayEarn, WithinRate, Rows, EarnedInv, EarningsTypeOK

LEMMA EarnedStarts == EarningsInit => EarnedInv
<1> SUFFICES ASSUME EarningsInit PROVE EarnedInv
  OBVIOUS
<1>1. PlanTyped /\ EarningsTypeOK
  BY EarningsAssumption DEF EarningsInit, EarningsTypeOK, PlanTyped, Idle
<1>2. ReadersHold /\ PlansHold /\ FirstHolds
  BY DEF EarningsInit, ReadersHold, PlansHold, FirstHolds, OnePerTier, Idle
<1>3. RowsHold /\ changed \in BOOLEAN
  BY DEF EarningsInit, RowsHold, OnePerTier, NamesMaster
<1> QED
  BY <1>1, <1>2, <1>3 DEF EarnedInv

\* What changes in the programme or of the order leaves plans and rows alone.
LEMMA ProgrammeStep ==
  ASSUME EarnedInv, EarningsTypeOK',
         UNCHANGED <<creditedTo, plan, earned, first, changed>>,
         recruitedBy[creditedTo] # NoPartner =>
           recruitedBy'[creditedTo] = recruitedBy[creditedTo]
  PROVE  EarnedInv'
<1>1. PlansHold'
  BY MayStillEarn DEF EarnedInv, PlansHold, PlanTyped
<1>2. RowsHold'
  BY MayStillEarn DEF EarnedInv, RowsHold, EarningsTypeOK
<1>3. ReadersHold'
  BY DEF EarnedInv, ReadersHold
<1> QED
  BY <1>1, <1>2, <1>3 DEF EarnedInv, PlanTyped, FirstHolds

LEMMA EarnedStep == EarnedInv /\ [EarningsNext]_earningVars => EarnedInv'
<1> SUFFICES ASSUME EarnedInv, [EarningsNext]_earningVars PROVE EarnedInv'
  OBVIOUS
<1> USE EarningsAssumption
<1>1. CASE UNCHANGED earningVars
  BY <1>1, ProgrammeStep DEF earningVars, programmeVars, EarnedInv, EarningsTypeOK
<1>2. ASSUME NEW p \in Partners, SetApproved(p) \/ SetMaster(p) PROVE EarnedInv'
  <2>1. EarningsTypeOK'
    BY <1>2 DEF SetApproved, SetMaster, EarnedInv, EarningsTypeOK
  <2> QED
    BY <1>2, <2>1, ProgrammeStep DEF SetApproved, SetMaster
<1>3. ASSUME NEW p \in Partners, NEW m \in Partners, Recruited(p, m) PROVE EarnedInv'
  <2>1. EarningsTypeOK'
    BY <1>3 DEF Recruited, EarnedInv, EarningsTypeOK
  <2>2. recruitedBy[creditedTo] # NoPartner =>
          recruitedBy'[creditedTo] = recruitedBy[creditedTo]
    BY <1>3 DEF Recruited, EarnedInv, EarningsTypeOK
  <2> QED
    BY <1>3, <2>1, <2>2, ProgrammeStep DEF Recruited
<1>4. CASE SetRates \/ OrderBecomes("PENDING", "PAID") \/ OrderBecomes("PAID", "REFUNDED")
  <2>1. EarningsTypeOK'
    BY <1>4 DEF SetRates, OrderBecomes, programmeVars, EarnedInv, EarningsTypeOK
  <2> QED
    BY <1>4, <2>1, ProgrammeStep DEF SetRates, OrderBecomes, programmeVars
<1>5. ASSUME NEW c \in Creations, ReadCredited(c) PROVE EarnedInv'
  <2> DEFINE m == EarningRecruiter
  <2>1. /\ m \in Partners \cup {NoPartner}
        /\ m # NoPartner => m = recruitedBy[creditedTo] /\ m # Buyer
    BY DEF EarningRecruiter, ActiveMasters, EarnedInv, EarningsTypeOK
  <2> HIDE DEF m
  <2>2. plan' = [plan EXCEPT ![c] = [at |-> "settings", recruiter |-> m, rows |-> {}]]
    BY <1>5 DEF ReadCredited, m
  <2>3. UNCHANGED <<programmeVars, creditedTo, status, earned, first, changed>>
    BY <1>5 DEF ReadCredited
  <2>4. PlanTyped'
    BY <2>1, <2>2 DEF EarnedInv, PlanTyped
  <2>5. EarningsTypeOK'
    BY <2>3, <2>4 DEF EarnedInv, EarningsTypeOK, PlanTyped, programmeVars
  <2>6. ReadersHold' /\ FirstHolds'
    BY <2>1, <2>2, <2>3 DEF EarnedInv, ReadersHold, FirstHolds, PlanTyped, programmeVars
  <2>7. RowsHold'
    BY <2>3, MayStillEarn DEF EarnedInv, RowsHold, EarningsTypeOK, programmeVars
  <2>8. PlansHold'
    <3> SUFFICES ASSUME NEW d \in Creations
                 PROVE  OnePerTier(plan'[d].rows) /\ \A r \in plan'[d].rows : MayEarn(r)'
      BY DEF PlansHold, OnePerTier
    <3>1. plan'[d].rows = {} \/ plan'[d] = plan[d]
      BY <2>2 DEF EarnedInv, PlanTyped
    <3> QED
      BY <2>3, <3>1, MayStillEarn
         DEF EarnedInv, PlansHold, PlanTyped, OnePerTier, programmeVars
  <2> QED
    BY <2>3, <2>4, <2>5, <2>6, <2>7, <2>8 DEF EarnedInv
<1>6. ASSUME NEW c \in Creations, PlanEarnings(c) PROVE EarnedInv'
  <2> DEFINE rows == PlannedRows(plan[c].recruiter)
             next == IF rows = {} THEN Idle
                     ELSE [at |-> "insert", recruiter |-> NoPartner, rows |-> rows]
  <2>1. /\ rows \subseteq Rows /\ OnePerTier(rows) /\ NamesMaster(rows)
        /\ \A r \in rows : MayEarn(r)
    BY PlansMayEarn DEF EarnedInv, ReadersHold, PlanTyped
  <2>2. /\ plan' = [plan EXCEPT ![c] = next]
        /\ first' = IF first = {} THEN rows ELSE first
        /\ changed' = (changed \/ first' # rows)
        /\ UNCHANGED <<programmeVars, creditedTo, status, earned>>
    BY <1>6 DEF PlanEarnings
  <2> HIDE DEF rows
  <2>3. next \in [at : {"idle", "insert"}, recruiter : {NoPartner}, rows : {rows}]
    BY DEF Idle
  <2> HIDE DEF next
  <2>4. PlanTyped' /\ changed' \in BOOLEAN
    BY <2>1, <2>2, <2>3 DEF EarnedInv, PlanTyped
  <2>5. EarningsTypeOK'
    BY <2>1, <2>2, <2>4 DEF EarnedInv, EarningsTypeOK, PlanTyped, programmeVars
  <2>6. ReadersHold'
    BY <2>2, <2>3 DEF EarnedInv, ReadersHold, PlanTyped, programmeVars
  <2>7. RowsHold'
    BY <2>1, <2>2, MayStillEarn
       DEF EarnedInv, RowsHold, EarningsTypeOK, programmeVars, NamesMaster
  <2>8. FirstHolds'
    BY <2>2, <2>3 DEF EarnedInv, FirstHolds, PlanTyped
  <2>9. PlansHold'
    <3> SUFFICES ASSUME NEW d \in Creations
                 PROVE  OnePerTier(plan'[d].rows) /\ \A r \in plan'[d].rows : MayEarn(r)'
      BY DEF PlansHold, OnePerTier
    <3>1. plan'[d].rows = rows \/ plan'[d] = plan[d]
      BY <2>2, <2>3 DEF EarnedInv, PlanTyped
    <3> QED
      BY <2>1, <2>2, <3>1, MayStillEarn
         DEF EarnedInv, PlansHold, PlanTyped, OnePerTier, programmeVars
  <2> QED
    BY <2>4, <2>5, <2>6, <2>7, <2>8, <2>9 DEF EarnedInv
<1>7. ASSUME NEW c \in Creations, InsertEarnings(c) PROVE EarnedInv'
  <2>1. /\ plan' = [plan EXCEPT ![c] = Idle]
        /\ earned' = earned \/ earned' = earned \cup NewRows(c)
        /\ UNCHANGED <<programmeVars, creditedTo, status, first, changed>>
    BY <1>7 DEF InsertEarnings
  <2>2. /\ NewRows(c) \subseteq Rows /\ OnePerTier(NewRows(c))
        /\ \A r \in NewRows(c) : MayEarn(r) /\ \A e \in earned : e.tier # r.tier
        /\ NewRows(c) \subseteq plan[c].rows
    BY DEF NewRows, EarnedInv, PlanTyped, PlansHold, OnePerTier
  <2>3. PlanTyped'
    BY <2>1 DEF EarnedInv, PlanTyped, Idle
  <2>4. EarningsTypeOK'
    BY <2>1, <2>2, <2>3 DEF EarnedInv, EarningsTypeOK, PlanTyped, programmeVars
  <2>5. ReadersHold'
    BY <2>1 DEF EarnedInv, ReadersHold, PlanTyped, programmeVars, Idle
  <2>6. OnePerTier(earned')
    BY <2>1, <2>2 DEF EarnedInv, RowsHold, OnePerTier
  <2>7. RowsHold'
    BY <2>1, <2>2, <2>6, MayStillEarn
       DEF EarnedInv, RowsHold, EarningsTypeOK, programmeVars, OnePerTier
  <2>8. FirstHolds'
    BY <2>1, <2>2 DEF EarnedInv, FirstHolds, PlanTyped, Idle
  <2>9. PlansHold'
    <3> SUFFICES ASSUME NEW d \in Creations
                 PROVE  OnePerTier(plan'[d].rows) /\ \A r \in plan'[d].rows : MayEarn(r)'
      BY DEF PlansHold, OnePerTier
    <3>1. plan'[d].rows = {} \/ plan'[d] = plan[d]
      BY <2>1 DEF EarnedInv, PlanTyped, Idle
    <3> QED
      BY <2>1, <3>1, MayStillEarn
         DEF EarnedInv, PlansHold, PlanTyped, OnePerTier, programmeVars
  <2> QED
    BY <2>1, <2>3, <2>4, <2>5, <2>7, <2>8, <2>9 DEF EarnedInv
<1> QED
  BY <1>1, <1>2, <1>3, <1>4, <1>5, <1>6, <1>7 DEF EarningsNext

\* EarningsInv: however often createCommissionsForOrder runs, and whatever
\* administrators change between its reads and its insert, an order costs one
\* commission of either tier within a rate that was set, nobody earns on their
\* own purchase, and the rows agree unless something changed.
THEOREM OrderEarns == EarningsSpec => []EarningsInv
<1>1. EarnedInv => EarningsInv
  <2> SUFFICES ASSUME EarnedInv PROVE EarningsInv
    OBVIOUS
  <2>1. NobodyEarnsOnOwnPurchase /\ EarnedAtMost
    BY DEF EarnedInv, RowsHold, OnePerTier, MayEarn, WithinRate,
           NobodyEarnsOnOwnPurchase, EarnedAtMost
  <2>2. TiersAgree
    BY DEF EarnedInv, RowsHold, MayEarn, NamesMaster, FirstHolds, TiersAgree
  <2> QED
    BY <2>1, <2>2 DEF EarnedInv, EarningsInv
<1> QED
  BY <1>1, EarnedStarts, EarnedStep, PTL DEF EarningsSpec
=============================================================================
