----------------------------- MODULE MCServices -----------------------------
(***************************************************************************)
(* Finite instances of Renewals and MarketStream, side by side: they share *)
(* no state, so a behaviour is one of either of them, chosen by `part` once *)
(* and for all, while the other one rests in its first state.              *)
(***************************************************************************)
EXTENDS Renewals, MarketStream

VARIABLE part

servicesVars == <<part, vars, streamVars>>

ServicesInit ==
  part \in {"renewals", "stream"} /\ Init /\ StreamInit

RenewalsPart ==
  part = "renewals" /\ Next /\ UNCHANGED <<part, streamVars>>
StreamPart ==
  part = "stream" /\ StreamNext /\ UNCHANGED <<part, vars>>

ServicesNext == RenewalsPart \/ StreamPart

\* The fairness of FairSpec and FairStreamSpec.  A worker could start
\* a run in the first state of Renewals, so it is asked of its own part only;
\* no fair action of MarketStream is enabled in its first state.
FairRenewals ==
  /\ \A r \in Runs : WF_vars(part = "renewals" /\ RunStep(r))
  /\ WF_vars(part = "renewals" /\ \E k \in RenewalKeys : HookStep(k))

ServicesSpec ==
  /\ ServicesInit /\ [][ServicesNext]_servicesVars
  /\ FairRenewals /\ StreamFairness
=============================================================================
