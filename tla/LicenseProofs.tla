--------------------------- MODULE LicenseProofs ----------------------------
(***************************************************************************)
(* The limit of activations, for any number of calls and machines.  The    *)
(* slots in use together with the slots promised to calls that are about   *)
(* to create a row never exceed MaxActivations by more than the other      *)
(* calls in flight; SlotsPromised is inductive given the types.            *)
(***************************************************************************)
EXTENDS LicenseActivations, FiniteSetTheorems, TLAPS

\* Initial states have the right types and no slot in use.
LEMMA InitSlots == Init => ActivationTypeOK /\ SlotsPromised
<1> SUFFICES ASSUME Init PROVE ActivationTypeOK /\ SlotsPromised
  OBVIOUS
<1>1. ActivationTypeOK
  BY DEF Init, ActivationTypeOK, LicenseStatus
<1>2. Active = {} /\ Creating = {}
  BY DEF Init, Active, Creating
<1>3. Cardinality(Calls) \in Nat /\ Cardinality(Calls) # 0
  BY ActivationsAssumption, FS_CardinalityType, FS_EmptySet
<1>4. SlotsPromised
  BY <1>2, <1>3, FS_EmptySet, ActivationsAssumption DEF SlotsPromised
<1> QED
  BY <1>1, <1>4

\* The sets that are counted are finite.
LEMMA FiniteCounts ==
  /\ IsFiniteSet(Active) /\ Cardinality(Active) \in Nat
  /\ IsFiniteSet(Creating) /\ Cardinality(Creating) \in Nat
  /\ Cardinality(Creating) <= Cardinality(Calls)
  /\ Cardinality(Calls) \in Nat
<1>1. IsFiniteSet(Active)
  BY ActivationsAssumption, FS_Subset DEF Active
<1>2. IsFiniteSet(Creating) /\ Cardinality(Creating) <= Cardinality(Calls)
  BY ActivationsAssumption, FS_Subset DEF Creating
<1> QED
  BY <1>1, <1>2, ActivationsAssumption, FS_CardinalityType

\* The same in the next state.
LEMMA FiniteCountsNext ==
  /\ IsFiniteSet(Active') /\ Cardinality(Active') \in Nat
  /\ IsFiniteSet(Creating') /\ Cardinality(Creating') \in Nat
  /\ Cardinality(Creating') <= Cardinality(Calls)
<1>1. IsFiniteSet(Active')
  BY ActivationsAssumption, FS_Subset DEF Active
<1>2. IsFiniteSet(Creating') /\ Cardinality(Creating') <= Cardinality(Calls)
  BY ActivationsAssumption, FS_Subset DEF Creating
<1> QED
  BY <1>1, <1>2, FS_CardinalityType

\* Every step keeps the types.
LEMMA StepTypes == ActivationTypeOK /\ [Next]_vars => ActivationTypeOK'
  BY DEF ActivationTypeOK, Next, vars, StartActivation, StartDeactivation,
         CreateActivation, CloseActivation, OpenScreen, SetLicenseStatus,
         Buttons, RefundRevokes, LicenseStatus, CanActivateLicense, Active

\* A step that uses no new slot and promises none keeps the bound.
LEMMA FewerSlots ==
  ASSUME SlotsPromised, Active' \subseteq Active, Creating' \subseteq Creating
  PROVE  SlotsPromised'
<1>1. Cardinality(Active') <= Cardinality(Active)
  BY FiniteCounts, FS_Subset
<1>2. Cardinality(Creating') <= Cardinality(Creating)
  BY FiniteCounts, FS_Subset
<1> QED
  BY <1>1, <1>2, FiniteCounts, FiniteCountsNext, ActivationsAssumption
  DEF SlotsPromised

\* Every step keeps the slots in use and promised within the bound.
LEMMA StepSlots ==
  ActivationTypeOK /\ SlotsPromised /\ [Next]_vars => SlotsPromised'
<1> SUFFICES ASSUME ActivationTypeOK, SlotsPromised, [Next]_vars
             PROVE  SlotsPromised'
  OBVIOUS
<1>1. ASSUME NEW c \in Calls, NEW m \in Machines, StartActivation(c, m)
      PROVE  SlotsPromised'
  <2>1. Active' = Active
    BY <1>1 DEF StartActivation, Active
  <2>2. Cardinality(Active) < MaxActivations
    BY <1>1 DEF StartActivation, CanActivateLicense
  <2> QED
    BY <2>1, <2>2, FiniteCounts, FiniteCountsNext, ActivationsAssumption
    DEF SlotsPromised
<1>2. ASSUME NEW c \in Calls, NEW m \in Machines, StartDeactivation(c, m)
      PROVE  SlotsPromised'
  <2>1. Active' = Active /\ Creating' \subseteq Creating
    BY <1>2 DEF StartDeactivation, Active, Creating, ActivationTypeOK
  <2> QED
    BY <2>1, FewerSlots
<1>3. ASSUME NEW c \in Calls, CreateActivation(c)
      PROVE  SlotsPromised'
  <2>1. c \in Creating /\ Creating' = Creating \ {c}
    BY <1>3 DEF CreateActivation, Creating, ActivationTypeOK
  <2>2. Cardinality(Creating') = Cardinality(Creating) - 1
    BY <2>1, FiniteCounts, FS_RemoveElement
  <2>3. Active' \subseteq Active \cup {machine[c]}
    BY <1>3 DEF CreateActivation, Active, ActivationTypeOK
  <2>4. /\ IsFiniteSet(Active \cup {machine[c]})
        /\ Cardinality(Active \cup {machine[c]}) <= Cardinality(Active) + 1
        /\ Cardinality(Active \cup {machine[c]}) \in Nat
    <3>1. IsFiniteSet(Active \cup {machine[c]})
      BY FiniteCounts, FS_AddElement
    <3>2. \/ Cardinality(Active \cup {machine[c]}) = Cardinality(Active)
          \/ Cardinality(Active \cup {machine[c]}) = Cardinality(Active) + 1
      BY FiniteCounts, FS_AddElement
    <3> QED
      BY <3>1, <3>2, FiniteCounts
  <2>5. Cardinality(Active') <= Cardinality(Active) + 1
    <3>1. Cardinality(Active') <= Cardinality(Active \cup {machine[c]})
      BY <2>3, <2>4, FS_Subset
    <3> QED
      BY <3>1, <2>4, FiniteCounts, FiniteCountsNext
  <2> QED
    BY <2>2, <2>5, FiniteCounts, FiniteCountsNext, ActivationsAssumption
    DEF SlotsPromised
<1>4. ASSUME NEW c \in Calls, CloseActivation(c)
      PROVE  SlotsPromised'
  <2>1. Active' \subseteq Active /\ Creating' \subseteq Creating
    BY <1>4 DEF CloseActivation, Active, Creating, ActivationTypeOK
  <2> QED
    BY <2>1, FewerSlots
<1>5. ASSUME UNCHANGED <<row, step>>
      PROVE  SlotsPromised'
  BY <1>5, FewerSlots DEF Active, Creating
<1> QED
  BY <1>1, <1>2, <1>3, <1>4, <1>5
  DEF Next, vars, OpenScreen, SetLicenseStatus, RefundRevokes

\* Every state of one licence has its type.
THEOREM ActivationTypes == Spec => []ActivationTypeOK
<1>1. Spec => [](ActivationTypeOK /\ SlotsPromised)
  BY InitSlots, StepTypes, StepSlots, PTL DEF Spec
<1> QED
  BY <1>1, PTL

\* However calls interleave, maxActivations is exceeded by less than the
\* number of calls in flight; with one call at a time it is kept.
THEOREM Overshoot == Spec => []OvershootBounded
<1>1. Spec => [](ActivationTypeOK /\ SlotsPromised)
  BY InitSlots, StepTypes, StepSlots, PTL DEF Spec
<1>2. SlotsPromised => OvershootBounded
  BY FiniteCounts, ActivationsAssumption DEF SlotsPromised, OvershootBounded
<1> QED
  BY <1>1, <1>2, PTL
=============================================================================
