------------------------------ MODULE Earnings ------------------------------
(***************************************************************************)
(* The commissions one credited order earns (planOrderCommissions and      *)
(* commissionAmount of lib/partnership/rules.ts, createCommissionsForOrder *)
(* in partnership/commission-service.ts): the Partner's and the recruiting *)
(* Master Partner's, planned from what each call reads and inserted where  *)
(* there is no row yet, while administrators change rates and profiles.    *)
(* How the order came to be credited is Attribution; what becomes of the   *)
(* rows is PartnerCommissions.                                             *)
(*                                                                         *)
(* The order has one item, eligible and in a supported currency.           *)
(***************************************************************************)
EXTENDS Naturals, FiniteSets

CONSTANTS
  Partners,        \* Partner profiles
  Buyer,           \* the buyer's own
  NoPartner,
  Creations,       \* calls of createCommissionsForOrder
  Basis,           \* unit price times quantity, in cents
  Rates            \* settings an administrator may choose: [partner, master]

ASSUME EarningsAssumption ==
  /\ Buyer \in Partners /\ NoPartner \notin Partners
  /\ Basis \in Nat /\ Rates \subseteq [partner : Nat, master : Nat]

VARIABLES
  approved,        \* profiles with status APPROVED
  masters,         \* profiles with masterStatus APPROVED
  recruitedBy,     \* the confirmed recruiter of each profile
  rates,           \* partnerRateBps and masterRateBps
  creditedTo,      \* the order's OrderReferral
  status,          \* Order.status
  plan,            \* of each creation: the recruiter it read, the rows it planned
  earned,          \* PartnerCommission rows of the order
  first,           \* the rows that were planned first
  changed          \* did a later creation plan other rows?

programmeVars == <<approved, masters, recruitedBy, rates>>
earningVars == <<programmeVars, creditedTo, status, plan, earned, first, changed>>

Idle == [at |-> "idle", recruiter |-> NoPartner, rows |-> {}]
Tiers == {"PARTNER", "MASTER_PARTNER"}
Rows == [tier : Tiers, to : Partners, amount : Nat \ {0},
         master : Partners \cup {NoPartner}]

EarningsTypeOK ==
  /\ approved \subseteq Partners /\ masters \subseteq Partners
  /\ recruitedBy \in [Partners -> Partners \cup {NoPartner}]
  /\ rates \in Rates
  /\ creditedTo \in Partners \ {Buyer}
  /\ status \in {"PENDING", "PAID", "REFUNDED"}
  /\ earned \cup first \subseteq Rows
  /\ \A c \in Creations :
       /\ plan[c].at \in {"idle", "settings", "insert"}
       /\ plan[c].recruiter \in Partners \cup {NoPartner}
       /\ plan[c].rows \subseteq Rows

\* The order is credited to a Partner other than the buyer.
EarningsInit ==
  /\ approved \in SUBSET Partners /\ masters = {}
  /\ recruitedBy = [p \in Partners |-> NoPartner] /\ rates \in Rates
  /\ creditedTo \in Partners \ {Buyer} /\ status = "PENDING"
  /\ plan = [c \in Creations |-> Idle]
  /\ earned = {} /\ first = {} /\ changed = FALSE
-----------------------------------------------------------------------------
(* What administrators decide, in several steps (PartnerApplications).      *)

SetApproved(p) ==
  /\ approved' = IF p \in approved THEN approved \ {p} ELSE approved \cup {p}
  /\ UNCHANGED <<masters, recruitedBy, rates, creditedTo, status, plan, earned,
                 first, changed>>

\* Only an approved Partner becomes a Master Partner; suspending the Partner
\* leaves masterStatus as it is.
SetMaster(p) ==
  /\ p \in approved \cup masters
  /\ masters' = IF p \in masters THEN masters \ {p} ELSE masters \cup {p}
  /\ UNCHANGED <<approved, recruitedBy, rates, creditedTo, status, plan, earned,
                 first, changed>>

ActiveMasters == approved \cap masters

\* Written once, for a member who has not recruited the recruiter.
Recruited(p, m) ==
  /\ recruitedBy[p] = NoPartner /\ p # m /\ m \in ActiveMasters
  /\ recruitedBy[m] # p
  /\ recruitedBy' = [recruitedBy EXCEPT ![p] = m]
  /\ UNCHANGED <<approved, masters, rates, creditedTo, status, plan, earned, first,
                 changed>>

SetRates ==
  /\ rates' \in Rates
  /\ UNCHANGED <<approved, masters, recruitedBy, creditedTo, status, plan, earned,
                 first, changed>>

OrderBecomes(from, to) ==
  /\ status = from
  /\ status' = to
  /\ UNCHANGED <<programmeVars, creditedTo, plan, earned, first, changed>>
-----------------------------------------------------------------------------
(* createCommissionsForOrder, after a payment or called by an administrator. *)

\* Mutant: rounded up.
RoundedUp(bps) == (Basis * bps + 9999) \div 10000

CommissionAmount(bps) == (Basis * bps) \div 10000

Row(tier, to, bps, master) ==
  IF CommissionAmount(bps) = 0 THEN {}
  ELSE {[tier |-> tier, to |-> to, amount |-> CommissionAmount(bps),
         master |-> master]}

\* The credited Partner's recruiter earns as well, but not on their own order.
EarningRecruiter ==
  IF recruitedBy[creditedTo] \in ActiveMasters \ {Buyer}
  THEN recruitedBy[creditedTo] ELSE NoPartner

\* The order is read with its credit, the Partner and the recruiter; a Partner
\* who is not active earns nothing.
ReadCredited(c) ==
  /\ plan[c] = Idle /\ status = "PAID"
  /\ creditedTo \in approved
  /\ plan' = [plan EXCEPT ![c] =
       [at |-> "settings", recruiter |-> EarningRecruiter, rows |-> {}]]
  /\ UNCHANGED <<programmeVars, creditedTo, status, earned, first, changed>>

\* planOrderCommissions.
PlannedRows(recruiter) ==
  LET m == IF rates.master > 0 THEN recruiter ELSE NoPartner
  IN  Row("PARTNER", creditedTo, rates.partner, m)
        \cup (IF m = NoPartner THEN {}
              ELSE Row("MASTER_PARTNER", m, rates.master, m))

\* The settings are read ...
PlanEarnings(c) ==
  LET rows == PlannedRows(plan[c].recruiter) IN
  /\ plan[c].at = "settings"
  /\ plan' = [plan EXCEPT ![c] =
       IF rows = {} THEN Idle
       ELSE [at |-> "insert", recruiter |-> NoPartner, rows |-> rows]]
  /\ first' = IF first = {} THEN rows ELSE first
  /\ changed' = (changed \/ first' # rows)
  /\ UNCHANGED <<programmeVars, creditedTo, status, earned>>

\* ... and the rows of tiers that have none are inserted, or the call throws.
NewRows(c) == {r \in plan[c].rows : \A e \in earned : e.tier # r.tier}

InsertEarnings(c) ==
  /\ plan[c].at = "insert"
  /\ earned' \in {earned, earned \cup NewRows(c)}
  /\ plan' = [plan EXCEPT ![c] = Idle]
  /\ UNCHANGED <<programmeVars, creditedTo, status, first, changed>>

EarningsNext ==
  \/ \E p \in Partners :
       SetApproved(p) \/ SetMaster(p) \/ \E m \in Partners : Recruited(p, m)
  \/ SetRates \/ OrderBecomes("PENDING", "PAID") \/ OrderBecomes("PAID", "REFUNDED")
  \/ \E c \in Creations : ReadCredited(c) \/ PlanEarnings(c) \/ InsertEarnings(c)

EarningsSpec == EarningsInit /\ [][EarningsNext]_earningVars
-----------------------------------------------------------------------------
(* Properties.                                                             *)

\* Nobody earns on their own purchase, as the Partner or as the recruiter.
NobodyEarnsOnOwnPurchase == \A r \in earned : r.to # Buyer

\* However often commissions are created, at whatever rates, by overlapping
\* calls: the order costs at most one commission of either tier, and each at
\* most what a rate that an administrator may set is of the basis.
EarnedAtMost ==
  /\ \A r, s \in earned : r.tier = s.tier => r = s
  /\ \A r \in earned : \E rate \in Rates :
       10000 * r.amount <=
         Basis * (IF r.tier = "PARTNER" THEN rate.partner ELSE rate.master)

\* The rows of one order agree: the Partner's row names the recruiter who earns
\* as well, unless commissions were created again after something had changed.
TiersAgree ==
  \A r, s \in earned :
    r.tier = "PARTNER" /\ s.tier = "MASTER_PARTNER" =>
      /\ r.to = creditedTo /\ s.to = recruitedBy[r.to]
      /\ r.master = s.to \/ changed

EarningsInv ==
  /\ EarningsTypeOK
  /\ NobodyEarnsOnOwnPurchase
  /\ EarnedAtMost
  /\ TiersAgree
=============================================================================
