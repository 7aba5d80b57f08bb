----------------------------- MODULE MCPartners -----------------------------
(***************************************************************************)
(* Finite instances of partner commissions, of the partners themselves, of *)
(* the credit for one buyer's order and of what a credited order earns,    *)
(* side by side: the modules share no state, so a behaviour is one of any  *)
(* of them, chosen by `part` once and for all, while the others rest in    *)
(* their first state.                                                      *)
(***************************************************************************)
EXTENDS PartnerCommissions, PartnerApplications, Attribution, Earnings, TLC

VARIABLE part

partnersVars ==
  <<part, commissionVars, partnerVars, attributionVars, earningVars>>

PartnersInit ==
  /\ part \in {"commissions", "partners", "attribution", "earnings"}
  /\ CommissionInit
  /\ ApplicationInit
  /\ AttributionInit
  /\ EarningsInit
  \* The members who may be credited differ in nothing else.
  /\ creditedTo = CHOOSE p \in Partners : p # Buyer
  \* Rates and approvals matter only to earnings.
  /\ part # "earnings" => approved = {} /\ rates.master = 0

CommissionsPart ==
  /\ part = "commissions" /\ CommissionNext
  /\ UNCHANGED <<part, partnerVars, attributionVars, earningVars>>
PartnersPart ==
  /\ part = "partners" /\ ApplicationNext
  /\ UNCHANGED <<part, commissionVars, attributionVars, earningVars>>
AttributionPart ==
  /\ part = "attribution" /\ AttributionNext
  /\ UNCHANGED <<part, commissionVars, partnerVars, earningVars>>
EarningsPart ==
  /\ part = "earnings" /\ EarningsNext
  /\ UNCHANGED <<part, commissionVars, partnerVars, attributionVars>>

PartnersNext ==
  \/ CommissionsPart
  \/ PartnersPart
  \/ AttributionPart
  \/ EarningsPart

PartnersSpec == PartnersInit /\ [][PartnersNext]_partnersVars

\* Orders and Members are given the same values, and so are Payouts and Staff.
PartnersSymmetry ==
  Permutations(Orders) \cup Permutations(Payouts) \cup Permutations(Creations)

\* Twenty per cent and five, or ten and nothing.
Settings ==
  {[partner |-> 2000, master |-> 500], [partner |-> 1000, master |-> 0]}

\* Bound of the commissions: with one order everything interleaves; while a
\* second order is paid there is no refund and no chargeback, and at most two
\* creations, approvals and rejections of commissions are under way.
OneOrderOrNoDispute ==
  \/ Cardinality({o \in Orders : order[o] # "PENDING"}) <= 1
  \/ /\ refundOpen = {} /\ \A o \in Orders : order[o] = "PAID" /\ payment[o]
     /\ Cardinality(creating) + Cardinality(approving)
          + Cardinality(rejecting) <= 2

\* Bound of the partners: the calls about one of them may meet.
OneDisturbed == Cardinality(disturbed) <= 1

\* Bound of the earnings: only the credited Partner was recruited.
OneRecruited ==
  \A p \in Partners \ {creditedTo} : recruitedBy[p] = NoPartner
=============================================================================
