---------------------------- MODULE PartnerProofs ---------------------------
(***************************************************************************)
(* Who is a Partner, who recruited whom, and whose orders a Partner's are: *)
(* for any number of members, of administrators whose decisions overlap,   *)
(* of days the two windows are open, and any clock.  The two modules share *)
(* no state.                                                               *)
(***************************************************************************)
EXTENDS Attribution, PartnerApplications, TLAPS

(* Attribution.  That an order decided while its buyer had an owner goes    *)
(* to that owner is not inductive: the row of the order is what was         *)
(* decided in an earlier step, and the owner it was decided for must still  *)
(* be the owner, which holds because the owner is inserted at most once, by *)
(* the one registration, before the account is ready.                       *)

\* A decision, whether it is recorded yet or not.
Kept(c) ==
  c.owned => /\ owner.to # NoProfile
             /\ c.to # owner.to => OwnerDays > 0 /\ c.at - owner.at > OwnerDays

\* Until the registration has ended there is no owner.
OwnerIsLast == account # "ready" => owner = NoLink

OwnerInv ==
  /\ AttributionTypeOK
  /\ OwnerIsLast
  /\ Kept(crediting) /\ Kept(credit)

LEMMA NothingTyped == NoLink \in Links /\ NoCredit \in Credits
BY AttributionAssumption DEF NoLink, NoCredit, Links, Credits

\* What is decided is typed, and keeps the owner.
LEMMA DecisionKeepsOwner ==
  ASSUME OwnerInv, NEW browser \in BOOLEAN
  PROVE  DecideCredit(browser) \in Credits /\ Kept(DecideCredit(browser))
<1>1. \A p, source : p \in active \ {Self} /\ source \in {"REGISTRATION", "REFERRAL_LINK"}
        => Credited(p, source) \in Credits
  BY DEF Credited, Credits, OwnerInv, AttributionTypeOK
<1>2. \A p, source : p \notin active \ {Self} => Credited(p, source) = NoCredit
  BY DEF Credited
<1>3. Kept(NoCredit)
  BY DEF Kept, NoCredit
<1>4. CASE owner.to # NoProfile /\ OwnerWindowOpen
  <2>1. DecideCredit(browser) = Credited(owner.to, "REGISTRATION")
    BY <1>4 DEF DecideCredit
  <2>2. CASE owner.to \in active \ {Self}
    <3>1. Kept(Credited(owner.to, "REGISTRATION"))
      BY <1>4, <2>2 DEF Kept, Credited
    <3> QED
      BY <1>1, <2>1, <2>2, <3>1
  <2>3. CASE owner.to \notin active \ {Self}
    BY <1>2, <1>3, <2>1, <2>3, NothingTyped
  <2> QED
    BY <2>2, <2>3
<1>5. CASE ~(owner.to # NoProfile /\ OwnerWindowOpen) /\ browser /\ CookieValid
  <2>1. DecideCredit(browser) = Credited(cookie.to, "REFERRAL_LINK")
    BY <1>5 DEF DecideCredit
  <2>2. CASE cookie.to \in active \ {Self}
    <3>1. owner.to # NoProfile => OwnerDays > 0 /\ day - owner.at > OwnerDays
      <4>1. owner.at \in Nat /\ day \in Nat /\ OwnerDays \in Nat
        BY AttributionAssumption DEF OwnerInv, AttributionTypeOK, Links
      <4> QED
        BY <1>5, <4>1 DEF OwnerWindowOpen
    <3>2. Kept(Credited(cookie.to, "REFERRAL_LINK"))
      BY <2>2, <3>1 DEF Kept, Credited
    <3> QED
      BY <1>1, <2>1, <2>2, <3>2
  <2>3. CASE cookie.to \notin active \ {Self}
    BY <1>2, <1>3, <2>1, <2>3, NothingTyped
  <2> QED
    BY <2>2, <2>3
<1>6. CASE ~(owner.to # NoProfile /\ OwnerWindowOpen) /\ ~(browser /\ CookieValid)
  <2>1. DecideCredit(browser) = NoCredit
    BY <1>6 DEF DecideCredit
  <2> QED
    BY <1>3, <2>1, NothingTyped
<1> QED
  BY <1>4, <1>5, <1>6

LEMMA StartsOwned == AttributionInit => OwnerInv
<1> SUFFICES ASSUME AttributionInit
             PROVE  OwnerInv
  OBVIOUS
<1>1. AttributionTypeOK
  BY NothingTyped, AttributionAssumption DEF AttributionInit, AttributionTypeOK, NoLink
<1>2. Kept(NoCredit)
  BY DEF Kept, NoCredit
<1> QED
  BY <1>1, <1>2 DEF AttributionInit, OwnerInv, OwnerIsLast

\* The registration: the one step that writes the owner.
LEMMA InsertKeepsOwner ==
  ASSUME OwnerInv, NEW succeeds \in BOOLEAN, InsertOwner(succeeds)
  PROVE  OwnerInv'
<1>1. owner = NoLink /\ ~crediting.owned /\ ~credit.owned
  BY DEF InsertOwner, OwnerInv, OwnerIsLast, Kept, NoLink, AttributionTypeOK, Credits, NoCredit
<1>2. owner' \in Links /\ owner'.to # Self
  BY <1>1, NothingTyped, AttributionAssumption
  DEF InsertOwner, OwnerInv, AttributionTypeOK, Links
<1>3. AttributionTypeOK'
  BY <1>2 DEF InsertOwner, OwnerInv, AttributionTypeOK, saleVars
<1>4. Kept(crediting)' /\ Kept(credit)'
  BY <1>1 DEF InsertOwner, Kept, saleVars
<1> QED
  BY <1>3, <1>4 DEF InsertOwner, OwnerInv, OwnerIsLast

\* The order: what was decided is recorded, or nothing is.
LEMMA OrderKeepsOwner ==
  ASSUME OwnerInv, NEW b \in BOOLEAN, ReadReferral(b) \/ RecordReferral(b)
  PROVE  OwnerInv'
<1>1. CASE ReadReferral(b)
  <2>1. crediting' \in Credits /\ Kept(crediting)'
    BY <1>1, DecisionKeepsOwner DEF ReadReferral, Kept, registrationVars
  <2>2. AttributionTypeOK' /\ Kept(credit)'
    BY <1>1, <2>1 DEF ReadReferral, OwnerInv, AttributionTypeOK, Kept, registrationVars
  <2> QED
    BY <1>1, <2>1, <2>2 DEF ReadReferral, OwnerInv, OwnerIsLast, registrationVars
<1>2. CASE RecordReferral(b)
  <2>1. credit' \in {crediting, credit} /\ crediting' = NoCredit
    BY <1>2 DEF RecordReferral
  <2>2. AttributionTypeOK'
    BY <1>2, <2>1, NothingTyped
    DEF RecordReferral, OwnerInv, AttributionTypeOK, registrationVars
  <2>3. Kept(crediting)' /\ Kept(credit)'
    BY <1>2, <2>1 DEF RecordReferral, OwnerInv, Kept, NoCredit, registrationVars
  <2> QED
    BY <1>2, <2>2, <2>3 DEF RecordReferral, OwnerInv, OwnerIsLast, registrationVars
<1> QED
  BY <1>1, <1>2

\* Every other step leaves owner and decisions alone.
LEMMA OthersKeepOwner ==
  ASSUME OwnerInv,
         AttributionTypeOK', UNCHANGED <<owner, crediting, credit>>,
         account = "ready" => account' = "ready"
  PROVE  OwnerInv'
BY DEF OwnerInv, OwnerIsLast, Kept

LEMMA OwnerStep == OwnerInv /\ [AttributionNext]_attributionVars => OwnerInv'
<1> SUFFICES ASSUME OwnerInv, [AttributionNext]_attributionVars
             PROVE  OwnerInv'
  OBVIOUS
<1> USE DEF OwnerInv, registrationVars, saleVars
<1>1. CASE UNCHANGED attributionVars
  BY <1>1, OthersKeepOwner DEF attributionVars, AttributionTypeOK
<1>2. CASE DayPasses
  <2>1. day' \in 0 .. LastDay
    BY <1>2, AttributionAssumption DEF DayPasses, AttributionTypeOK
  <2> QED
    BY <1>2, <2>1, OthersKeepOwner DEF DayPasses, AttributionTypeOK
<1>3. CASE CreateUser
  BY <1>3, OthersKeepOwner DEF CreateUser, AttributionTypeOK
<1>4. CASE DecideOwner
  BY <1>4, OthersKeepOwner DEF DecideOwner, AttributionTypeOK
<1>5. CASE PlaceOrder
  BY <1>5, OthersKeepOwner DEF PlaceOrder, AttributionTypeOK
<1>6. ASSUME NEW p \in Profiles, ToggleActive(p)
      PROVE  OwnerInv'
  BY <1>6, OthersKeepOwner DEF ToggleActive, AttributionTypeOK
<1>7. ASSUME NEW p \in Profiles, NEW signedIn \in BOOLEAN, FollowLink(p, signedIn)
      PROVE  OwnerInv'
  <2>1. cookie' \in Links
    BY <1>7 DEF FollowLink, AttributionTypeOK, Links
  <2> QED
    BY <1>7, <2>1, OthersKeepOwner DEF FollowLink, AttributionTypeOK
<1>8. ASSUME NEW b \in BOOLEAN, InsertOwner(b)
      PROVE  OwnerInv'
  BY <1>8, InsertKeepsOwner
<1>9. ASSUME NEW b \in BOOLEAN, ReadReferral(b) \/ RecordReferral(b)
      PROVE  OwnerInv'
  BY <1>9, OrderKeepsOwner
<1> QED
  BY <1>1, <1>2, <1>3, <1>4, <1>5, <1>6, <1>7, <1>8, <1>9 DEF AttributionNext

\* Cookies, owners and credits have their types, nobody owns their own account or
\* is credited for their own order, and another than the owner is credited only
\* after the owner's days or by a decision that found no owner.
THEOREM OwnerKept == AttributionSpec => []AttributionInv
<1>1. OwnerInv => AttributionInv
  BY DEF OwnerInv, AttributionInv, Kept, OwnerKeepsOrders
<1> QED
  BY <1>1, StartsOwned, OwnerStep, PTL DEF AttributionSpec

-----------------------------------------------------------------------------
(* Applications.                                                            *)

ReadCalls == [at : {"read"}, of : Members, decision : Decisions, created : BOOLEAN,
              by : Members \cup {Nobody}]
CodeCalls == [at : {"code", "recruiter"}, of : Members, by : Members \cup {Nobody}]
LastCalls == [at : {"confirm", "drop", "link"}, of : Members]
Calls == {Nothing} \cup ReadCalls \cup CodeCalls \cup LastCalls
Applied == {Nothing} \cup [at : {"read"}, exists : BOOLEAN, by : Members \cup {Nobody}]

\* The steps of an approval after the row was approved.
Approving == {"code", "recruiter", "confirm", "drop"}

\* Approved once: a status no member ever leaves for another one.
Settled(m) == partner[m] \in {"APPROVED", "SUSPENDED"}

RowsTyped ==
  /\ partner \in [Members -> PartnerStatus]
  /\ master \in [Members -> MasterStatus]
  /\ recruiter \in [Members -> Members \cup {Nobody}]
  /\ coded \cup linked \cup confirmed \cup disturbed \subseteq Members
  /\ applying \in [Members -> Applied]
  /\ deciding \in [Staff -> Calls]

\* Whatever an approval gives is held by members who were approved; so nobody
\* who may still apply recruits anybody.
RowHolds(m) ==
  /\ partner[m] = "none" => recruiter[m] = Nobody
  /\ partner[m] = "none" => \A a \in Staff : deciding[a] # Nothing => deciding[a].of # m
  /\ master[m] # "NOT_APPLIED" \/ m \in coded \cup linked \cup confirmed => Settled(m)
  /\ recruiter[m] \in linked \cup {Nobody} /\ recruiter[m] # m
  /\ applying[m] # Nothing => applying[m].by \in (linked \cup {Nobody}) \ {m}

CallHolds(a) ==
  deciding[a].at \in Approving \cup {"link"} => Settled(deciding[a].of)

\* What a call that met no other one knows of the member is still so.
CallFits(c, m) ==
  /\ c.at \in {"read", "code", "recruiter"} =>
       IF c.by = Nobody THEN recruiter[m] = Nobody \/ m \in confirmed
       ELSE c.by = recruiter[m] /\ m \notin confirmed
  /\ c.at = "recruiter" => c.by # Nobody
  /\ c.at \in {"confirm", "drop"} => m \notin confirmed
  /\ c.at \in {"recruiter", "confirm", "drop"} => m \in coded

IsOn(a, m) == deciding[a] # Nothing /\ deciding[a].of = m

\* A member whose calls never met: one call at a time, but for the second
\* statement of a grant, and the approval is finished or goes on.
Undisturbed(m) ==
  /\ \A a, b \in Staff : IsOn(a, m) /\ IsOn(b, m)
       /\ deciding[a].at # "link" /\ deciding[b].at # "link" => a = b
  /\ \A a \in Staff : IsOn(a, m) => CallFits(deciding[a], m)
  /\ Settled(m) => \/ m \in coded /\ (recruiter[m] = Nobody \/ m \in confirmed)
                   \/ \E a \in Staff : IsOn(a, m) /\ deciding[a].at \in Approving

PartnersInv ==
  /\ RowsTyped
  /\ \A m \in Members : RowHolds(m)
  /\ \A a \in Staff : CallHolds(a)
  /\ \A m \in Members \ disturbed : Undisturbed(m)
  /\ NoCircle

LEMMA CallShape ==
  ASSUME NEW c \in Calls
  PROVE  /\ c.at \in {"nothing", "read", "code", "recruiter", "confirm", "drop", "link"}
         /\ c.at = "nothing" <=> c = Nothing
         /\ c # Nothing => c.of \in Members
         /\ c.at = "read" => c \in ReadCalls
         /\ c.at \in {"code", "recruiter"} => c \in CodeCalls
         /\ c.at \in {"confirm", "drop", "link"} => c \in LastCalls
BY DEF Calls, Nothing, ReadCalls, CodeCalls, LastCalls

\* Removing links between members makes no circle, and neither does the link
\* of a member who recruits nobody.
LEMMA FewerLinks ==
  ASSUME NoCircle,
         \A m \in Members : recruiter'[m] = recruiter[m] \/ recruiter'[m] = Nobody
  PROVE  NoCircle'
<1> SUFFICES ASSUME NEW group \in (SUBSET Members) \ {{}},
                    \A m \in group : recruiter'[m] \in group
             PROVE  FALSE
  BY DEF NoCircle, RecruitsOf
<1>1. \A m \in group : recruiter[m] \in group
  BY PartnersAssumption
<1> QED
  BY <1>1 DEF NoCircle, RecruitsOf

LEMMA LinkOfLeaf ==
  ASSUME NoCircle, NEW m \in Members, NEW by \in Members, by # m,
         \A x \in Members : recruiter[x] # m,
         \A x \in Members : x # m => recruiter'[x] = recruiter[x],
         recruiter'[m] = by
  PROVE  NoCircle'
<1> SUFFICES ASSUME NEW group \in (SUBSET Members) \ {{}},
                    \A x \in group : recruiter'[x] \in group
             PROVE  FALSE
  BY DEF NoCircle, RecruitsOf
<1>1. CASE m \notin group
  BY <1>1 DEF NoCircle, RecruitsOf
<1>2. CASE m \in group
  <2> DEFINE rest == group \ {m}
  <2>1. rest \in (SUBSET Members) \ {{}}
    BY <1>2
  <2>2. \A x \in rest : recruiter[x] \in rest
    OBVIOUS
  <2> QED
    BY <2>1, <2>2 DEF NoCircle, RecruitsOf
<1> QED
  BY <1>1, <1>2

\* Every step concerns one member and the calls on that member.
OtherMembersSame(m) ==
  /\ \A x \in Members : x # m =>
       /\ partner'[x] = partner[x] /\ master'[x] = master[x]
       /\ recruiter'[x] = recruiter[x] /\ applying'[x] = applying[x]
       /\ (x \in coded' <=> x \in coded) /\ (x \in linked' <=> x \in linked)
       /\ (x \in confirmed' <=> x \in confirmed)
  /\ \A a \in Staff : deciding'[a] # deciding[a] =>
       /\ deciding[a] = Nothing \/ deciding[a].of = m
       /\ deciding'[a] = Nothing \/ deciding'[a].of = m
  /\ linked \subseteq linked' /\ disturbed \subseteq disturbed'

LEMMA OneMember ==
  ASSUME PartnersInv, NEW m \in Members, OtherMembersSame(m), RowsTyped',
         Settled(m) => Settled(m)', RowHolds(m)', NoCircle',
         \A a \in Staff : deciding'[a] # deciding[a] => CallHolds(a)',
         m \notin disturbed' => Undisturbed(m)'
  PROVE  PartnersInv'
<1>1. ASSUME NEW x \in Members, x # m
      PROVE  RowHolds(x)' /\ (Settled(x)' <=> Settled(x))
  <2>1. RowHolds(x)
    BY DEF PartnersInv
  <2>2. \A a \in Staff : IsOn(a, x)' => IsOn(a, x)
    BY <1>1 DEF OtherMembersSame, IsOn
  <2>3. Settled(x)' <=> Settled(x)
    BY <1>1 DEF OtherMembersSame, Settled
  <2> QED
    BY <1>1, <2>1, <2>2, <2>3 DEF OtherMembersSame, RowHolds, IsOn
<1>2. ASSUME NEW a \in Staff
      PROVE  CallHolds(a)'
  <2>1. CASE deciding'[a] = deciding[a] /\ deciding[a].at \in Approving \cup {"link"}
    <3>1. PICK x \in Members : x = deciding[a].of
      BY <2>1, CallShape DEF PartnersInv, RowsTyped, Approving, Nothing
    <3>2. Settled(x)'
      BY <1>1, <2>1, <3>1 DEF PartnersInv, CallHolds
    <3>3. deciding'[a].of = x
      BY <2>1, <3>1
    <3> QED
      BY <3>2, <3>3 DEF CallHolds, Settled
  <2>2. CASE deciding'[a] = deciding[a] /\ deciding[a].at \notin Approving \cup {"link"}
    BY <2>2 DEF CallHolds
  <2> QED
    BY <2>1, <2>2
<1>3. ASSUME NEW x \in Members \ disturbed', x # m
      PROVE  Undisturbed(x)'
  <2>1. Undisturbed(x)
    BY DEF PartnersInv, OtherMembersSame
  <2>2. \A a \in Staff : /\ IsOn(a, x)' <=> IsOn(a, x)
                         /\ IsOn(a, x) => deciding'[a] = deciding[a]
    BY <1>3 DEF OtherMembersSame, IsOn
  <2>3. Settled(x)' <=> Settled(x)
    BY <1>1, <1>3
  <2>4. \A a \in Staff : IsOn(a, x) => (CallFits(deciding[a], x))'
    BY <1>3, <2>1, <2>2 DEF OtherMembersSame, Undisturbed, CallFits
  <2> QED
    BY <1>3, <2>1, <2>2, <2>3, <2>4 DEF OtherMembersSame, Undisturbed
<1> QED
  BY <1>1, <1>2, <1>3 DEF PartnersInv

LEMMA OneCall ==
  ASSUME RowsTyped, NEW a \in Staff, NEW c \in Calls, SetDeciding(a, c)
  PROVE  /\ deciding' \in [Staff -> Calls] /\ deciding'[a] = c
         /\ \A b \in Staff : b # a => deciding'[b] = deciding[b]
BY DEF RowsTyped, SetDeciding

LEMMA CallOf ==
  ASSUME RowsTyped, NEW a \in Staff, deciding[a].at # "nothing"
  PROVE  /\ deciding[a] \in Calls /\ deciding[a] # Nothing
         /\ deciding[a].of \in Members /\ IsOn(a, deciding[a].of)
BY CallShape DEF RowsTyped, IsOn

LEMMA NothingIsCall == Nothing \in Calls /\ Nothing.at = "nothing" /\ Nothing \in Applied
BY DEF Nothing, Calls, Applied

LEMMA Transitions ==
  ASSUME NEW decision \in Decisions
  PROVE  /\ "none" \notin From(decision) /\ "NOT_APPLIED" \notin From(decision)
         /\ From(decision) \subseteq {"PENDING", "REJECTED", "APPROVED", "SUSPENDED"}
         /\ To(decision) \in {"APPROVED", "REJECTED", "SUSPENDED"}
         /\ To(decision) = "REJECTED" => From(decision) = {"PENDING"}
         /\ To(decision) = "SUSPENDED" => From(decision) = {"APPROVED"}
BY DEF Decisions, From, To

LEMMA Applying ==
  ASSUME PartnersInv, NEW m \in Members, NEW by \in Members \cup {Nobody},
         ReadApplication(m, by)
  PROVE  PartnersInv'
<1>0. RowsTyped /\ RowHolds(m) /\ Nobody \notin Members
  BY PartnersAssumption DEF PartnersInv
<1>1. PICK r \in (linked \cup {Nobody}) \ {m} : r = DecideRecruiter(m, by)
  BY <1>0 DEF ReadApplication, DecideRecruiter
<1>2. PICK e \in BOOLEAN : e = (partner[m] # "none")
  OBVIOUS
<1>3. /\ applying' = [applying EXCEPT ![m] = [at |-> "read", exists |-> e, by |-> r]]
      /\ UNCHANGED <<partner, master, coded, linked, recruiter, confirmed, deciding, disturbed>>
  BY <1>1, <1>2 DEF ReadApplication, SetApplying, profileVars
<1>4. r \in Members \cup {Nobody}
  BY <1>0, <1>1 DEF RowsTyped
<1>5. [at |-> "read", exists |-> e, by |-> r] \in Applied
  BY <1>4 DEF Applied
<1>6. /\ applying' \in [Members -> Applied]
      /\ applying'[m] = [at |-> "read", exists |-> e, by |-> r]
      /\ \A x \in Members : x # m => applying'[x] = applying[x]
  BY <1>0, <1>3, <1>5 DEF RowsTyped
<1>7. RowsTyped' /\ OtherMembersSame(m)
  BY <1>0, <1>3, <1>6 DEF RowsTyped, OtherMembersSame
<1>8. RowHolds(m)'
  BY <1>0, <1>1, <1>3, <1>6 DEF RowHolds, Settled
<1>9. NoCircle'
  BY <1>3 DEF PartnersInv, NoCircle, RecruitsOf
<1>10. m \notin disturbed' => Undisturbed(m)'
  BY <1>3 DEF PartnersInv, Undisturbed, IsOn, CallFits, Settled
<1> QED
  BY <1>3, <1>7, <1>8, <1>9, <1>10, OneMember DEF Settled

LEMMA Applies ==
  ASSUME PartnersInv, NEW m \in Members, Apply(m)
  PROVE  PartnersInv'
<1>0. RowsTyped /\ RowHolds(m) /\ Nobody \notin Members
  BY PartnersAssumption DEF PartnersInv
<1>1. PICK by \in (linked \cup {Nobody}) \ {m} : by = applying[m].by
  BY <1>0 DEF Apply, RowHolds
<1>2. /\ applying' = [applying EXCEPT ![m] = Nothing]
      /\ UNCHANGED <<master, coded, linked, confirmed, deciding>>
      /\ disturbed' = IF DecidingOn(m) # {} THEN disturbed \cup {m} ELSE disturbed
  BY DEF Apply, SetApplying
<1>3. /\ applying' \in [Members -> Applied] /\ applying'[m] = Nothing
      /\ \A x \in Members : x # m => applying'[x] = applying[x]
  BY <1>0, <1>2, NothingIsCall DEF RowsTyped
<1>4. disturbed \subseteq disturbed' /\ disturbed' \subseteq Members
  BY <1>0, <1>2 DEF RowsTyped
<1>5. m \notin disturbed' => \A a \in Staff : ~IsOn(a, m)
  BY <1>2 DEF DecidingOn, IsOn
<1>6. CASE UNCHANGED <<partner, recruiter>>
  <2>1. RowsTyped' /\ OtherMembersSame(m)
    BY <1>0, <1>2, <1>3, <1>4, <1>6 DEF RowsTyped, OtherMembersSame
  <2>2. RowHolds(m)'
    BY <1>0, <1>2, <1>3, <1>6 DEF RowHolds, Settled
  <2>3. NoCircle'
    BY <1>6 DEF PartnersInv, NoCircle, RecruitsOf
  <2>4. m \notin disturbed' => Undisturbed(m)'
    BY <1>2, <1>4, <1>6 DEF PartnersInv, Undisturbed, IsOn, CallFits, Settled
  <2> QED
    BY <1>2, <1>6, <2>1, <2>2, <2>3, <2>4, OneMember DEF Settled
<1>7. CASE ~UNCHANGED <<partner, recruiter>>
  <2>1. /\ partner[m] \in {"none", "REJECTED"} /\ partner' = [partner EXCEPT ![m] = "PENDING"]
        /\ recruiter' = IF by = Nobody THEN recruiter ELSE [recruiter EXCEPT ![m] = by]
    BY <1>1, <1>7 DEF Apply
  <2>2. ~Settled(m) /\ m \notin linked
    BY <1>0, <2>1 DEF Settled, RowHolds
  <2>3. \A x \in Members : recruiter[x] # m
    BY <1>0, <2>2 DEF PartnersInv, RowHolds
  <2>4. /\ partner' \in [Members -> PartnerStatus] /\ partner'[m] = "PENDING"
        /\ \A x \in Members : x # m => partner'[x] = partner[x]
    BY <1>0, <2>1 DEF RowsTyped, PartnerStatus
  <2>5. /\ recruiter' \in [Members -> Members \cup {Nobody}]
        /\ recruiter'[m] = IF by = Nobody THEN recruiter[m] ELSE by
        /\ \A x \in Members : x # m => recruiter'[x] = recruiter[x]
    BY <1>0, <2>1 DEF RowsTyped
  <2>6. RowsTyped' /\ OtherMembersSame(m)
    BY <1>0, <1>2, <1>3, <1>4, <2>4, <2>5 DEF RowsTyped, OtherMembersSame
  <2>7. RowHolds(m)'
    <3>1. master[m] = "NOT_APPLIED" /\ m \notin coded \cup linked \cup confirmed
      BY <1>0, <2>2 DEF RowHolds
    <3>2. recruiter'[m] \in linked \cup {Nobody} /\ recruiter'[m] # m
      BY <1>0, <1>1, <2>5 DEF RowHolds
    <3> QED
      BY <1>2, <1>3, <2>4, <3>1, <3>2 DEF RowHolds
  <2>8. NoCircle'
    <3>1. CASE by = Nobody
      BY <2>1, <3>1 DEF PartnersInv, NoCircle, RecruitsOf
    <3>2. CASE by # Nobody
      <4>1. by \in Members /\ by # m
        BY <1>0, <1>1, <3>2 DEF RowsTyped
      <4> QED
        BY <2>3, <2>5, <3>2, <4>1, LinkOfLeaf DEF PartnersInv
    <3> QED
      BY <3>1, <3>2
  <2>9. m \notin disturbed' => Undisturbed(m)'
    BY <1>2, <1>5, <2>4 DEF Undisturbed, IsOn, Settled
  <2> QED
    BY <1>2, <2>2, <2>6, <2>7, <2>8, <2>9, OneMember
<1> QED
  BY <1>6, <1>7

LEMMA AppliesAsMaster ==
  ASSUME PartnersInv, NEW m \in Members, ApplyAsMaster(m)
  PROVE  PartnersInv'
<1>0. RowsTyped /\ RowHolds(m)
  BY DEF PartnersInv
<1>1. /\ partner[m] = "APPROVED" /\ master' = [master EXCEPT ![m] = "PENDING"]
      /\ UNCHANGED <<partner, coded, linked, recruiter, confirmed, applying, deciding,
                     disturbed>>
  BY DEF ApplyAsMaster
<1>2. /\ master' \in [Members -> MasterStatus]
      /\ \A x \in Members : x # m => master'[x] = master[x]
  BY <1>0, <1>1 DEF RowsTyped, MasterStatus
<1>3. RowsTyped' /\ OtherMembersSame(m)
  BY <1>0, <1>1, <1>2 DEF RowsTyped, OtherMembersSame
<1>4. RowHolds(m)'
  BY <1>0, <1>1 DEF RowHolds, Settled
<1>5. NoCircle'
  BY <1>1 DEF PartnersInv, NoCircle, RecruitsOf
<1>6. m \notin disturbed' => Undisturbed(m)'
  BY <1>1 DEF PartnersInv, Undisturbed, IsOn, CallFits, Settled
<1> QED
  BY <1>1, <1>3, <1>4, <1>5, <1>6, OneMember DEF Settled

LEMMA DecidesMaster ==
  ASSUME PartnersInv, NEW a \in Staff, NEW m \in Members, NEW decision \in Decisions,
         DecideMaster(a, m, decision)
  PROVE  PartnersInv'
<1>0. RowsTyped /\ RowHolds(m)
  BY DEF PartnersInv
<1>1. /\ deciding[a] = Nothing /\ Settled(m)
      /\ master' = [master EXCEPT ![m] = To(decision)] /\ To(decision) \in MasterStatus
      /\ UNCHANGED <<partner, coded, linked, recruiter, confirmed, applying, disturbed>>
  BY <1>0, Transitions DEF DecideMaster, RowHolds, MasterStatus
<1>2. /\ master' \in [Members -> MasterStatus]
      /\ \A x \in Members : x # m => master'[x] = master[x]
  BY <1>0, <1>1 DEF RowsTyped
<1>3. PICK c \in {Nothing, [at |-> "link", of |-> m]} : SetDeciding(a, c)
  <2>1. CASE UNCHANGED deciding
    BY <1>0, <1>1, <2>1 DEF RowsTyped, SetDeciding
  <2> QED
    BY <2>1 DEF DecideMaster
<1>4. c \in Calls /\ c.at \in {"nothing", "link"} /\ (c # Nothing => c.of = m)
      /\ (c = Nothing <=> c.at = "nothing")
  BY <1>3 DEF Nothing, Calls, LastCalls
<1>5. /\ deciding' \in [Staff -> Calls] /\ deciding'[a] = c
      /\ \A b \in Staff : b # a => deciding'[b] = deciding[b]
  BY <1>0, <1>3, <1>4, OneCall
<1>6. RowsTyped' /\ OtherMembersSame(m)
  BY <1>0, <1>1, <1>2, <1>4, <1>5 DEF RowsTyped, OtherMembersSame
<1>7. RowHolds(m)' /\ Settled(m)'
  BY <1>0, <1>1 DEF RowHolds, Settled
<1>8. NoCircle'
  BY <1>1 DEF PartnersInv, NoCircle, RecruitsOf
<1>9. \A b \in Staff : deciding'[b] # deciding[b] => CallHolds(b)'
  BY <1>1, <1>4, <1>5 DEF CallHolds, Approving, Settled
<1>10. m \notin disturbed' => Undisturbed(m)'
  <2> SUFFICES ASSUME m \notin disturbed
               PROVE  Undisturbed(m)'
    BY <1>1
  <2>1. Undisturbed(m)
    BY DEF PartnersInv
  <2>2. \A b \in Staff : b # a => (IsOn(b, m)' <=> IsOn(b, m))
    BY <1>5 DEF IsOn
  <2>3. ~IsOn(a, m)
    BY <1>1 DEF IsOn
  <2>4. \A b, d \in Staff : IsOn(b, m)' /\ IsOn(d, m)'
          /\ deciding'[b].at # "link" /\ deciding'[d].at # "link" => b = d
    BY <1>4, <1>5, <2>1, <2>2 DEF Undisturbed, IsOn
  <2>5. \A b \in Staff : IsOn(b, m)' => (CallFits(deciding[b], m))'
    BY <1>1, <1>4, <1>5, <2>1, <2>2 DEF Undisturbed, CallFits, IsOn
  <2>6. (\E b \in Staff : IsOn(b, m) /\ deciding[b].at \in Approving) =>
          \E b \in Staff : IsOn(b, m)' /\ deciding'[b].at \in Approving
    BY <1>5, <2>2, <2>3
  <2> QED
    BY <1>1, <2>1, <2>4, <2>5, <2>6 DEF Undisturbed, Settled
<1> QED
  BY <1>6, <1>7, <1>8, <1>9, <1>10, OneMember

\* The one call on a member goes on or ends.
Finished(m) == m \in coded /\ (recruiter[m] = Nobody \/ m \in confirmed)

LEMMA NextCall ==
  ASSUME NEW m, NEW a \in Staff, NEW c, Undisturbed(m), IsOn(a, m), deciding[a].at # "link",
         deciding'[a] = c, \A b \in Staff : b # a => deciding'[b] = deciding[b],
         c # Nothing => c.of = m /\ CallFits(c, m)',
         Settled(m)' => Finished(m)' \/ (c # Nothing /\ c.at \in Approving)
  PROVE  Undisturbed(m)'
<1>1. \A b \in Staff : b # a => /\ (IsOn(b, m)' <=> IsOn(b, m))
                               /\ (IsOn(b, m) => deciding[b].at = "link")
  BY DEF Undisturbed, IsOn
<1>2. IsOn(a, m)' <=> c # Nothing
  BY DEF IsOn
<1>3. \A b, d \in Staff : IsOn(b, m)' /\ IsOn(d, m)'
        /\ deciding'[b].at # "link" /\ deciding'[d].at # "link" => b = d
  BY <1>1 DEF IsOn
<1>4. \A b \in Staff : IsOn(b, m)' => (CallFits(deciding[b], m))'
  BY <1>1, <1>2 DEF CallFits, IsOn
<1>5. Settled(m)' => \/ Finished(m)'
                    \/ \E b \in Staff : IsOn(b, m)' /\ deciding'[b].at \in Approving
  BY <1>2
<1> QED
  BY <1>3, <1>4, <1>5 DEF Undisturbed, Finished

\* A call that is not an approval halfway leaves a finished approval behind.
LEMMA ReadsFinished ==
  ASSUME NEW m, NEW a \in Staff, Undisturbed(m), IsOn(a, m), deciding[a].at = "read",
         Settled(m)
  PROVE  Finished(m)
BY DEF Undisturbed, Approving, Finished

LEMMA ReadsProfile ==
  ASSUME PartnersInv, NEW a \in Staff, NEW m \in Members, NEW decision \in Decisions,
         ReadProfile(a, m, decision)
  PROVE  PartnersInv'
<1>0. RowsTyped /\ RowHolds(m)
  BY DEF PartnersInv
<1>1. PICK by \in Members \cup {Nobody} :
        by = IF m \in confirmed THEN Nobody ELSE recruiter[m]
  BY <1>0 DEF RowsTyped
<1>2. PICK c : c = [at |-> "read", of |-> m, decision |-> decision, created |-> FALSE, by |-> by]
  OBVIOUS
<1>3. /\ c \in Calls /\ c # Nothing /\ c.at = "read" /\ c.of = m /\ c.by = by
  BY <1>2 DEF Calls, ReadCalls, Nothing
<1>4. /\ deciding[a] = Nothing /\ partner[m] # "none" /\ SetDeciding(a, c)
      /\ disturbed' = IF DecidingOn(m) # {} THEN disturbed \cup {m} ELSE disturbed
      /\ UNCHANGED <<partner, master, coded, linked, recruiter, confirmed, applying>>
  BY <1>1, <1>2 DEF ReadProfile, profileVars
<1>5. /\ deciding' \in [Staff -> Calls] /\ deciding'[a] = c
      /\ \A b \in Staff : b # a => deciding'[b] = deciding[b]
  BY <1>0, <1>3, <1>4, OneCall
<1>6. disturbed \subseteq disturbed' /\ disturbed' \subseteq Members
  BY <1>0, <1>4 DEF RowsTyped
<1>7. RowsTyped' /\ OtherMembersSame(m)
  BY <1>0, <1>3, <1>4, <1>5, <1>6 DEF RowsTyped, OtherMembersSame
<1>8. RowHolds(m)' /\ (Settled(m)' <=> Settled(m))
  BY <1>0, <1>4 DEF RowHolds, Settled
<1>9. NoCircle'
  BY <1>4 DEF PartnersInv, NoCircle, RecruitsOf
<1>10. \A b \in Staff : deciding'[b] # deciding[b] => CallHolds(b)'
  BY <1>3, <1>5 DEF CallHolds, Approving
<1>11. m \notin disturbed' => Undisturbed(m)'
  <2> SUFFICES ASSUME m \notin disturbed'
               PROVE  Undisturbed(m)'
    OBVIOUS
  <2>1. Undisturbed(m) /\ \A b \in Staff : ~IsOn(b, m)
    BY <1>4, <1>6 DEF PartnersInv, DecidingOn, IsOn
  <2>2. \A b \in Staff : IsOn(b, m)' => b = a
    BY <1>5, <2>1 DEF IsOn
  <2>3. (CallFits(deciding[a], m))'
    BY <1>1, <1>3, <1>4, <1>5 DEF CallFits
  <2> QED
    BY <1>4, <1>8, <2>1, <2>2, <2>3 DEF Undisturbed
<1> QED
  BY <1>7, <1>8, <1>9, <1>10, <1>11, OneMember

LEMMA Creates ==
  ASSUME PartnersInv, NEW a \in Staff, NEW m \in Members, CreateAccount(a, m)
  PROVE  PartnersInv'
<1>0. RowsTyped /\ RowHolds(m)
  BY DEF PartnersInv
<1>1. PICK c : c = [at |-> "read", of |-> m, decision |-> "approve", created |-> TRUE,
                    by |-> Nobody]
  OBVIOUS
<1>2. /\ c \in Calls /\ c # Nothing /\ c.at = "read" /\ c.of = m /\ c.by = Nobody
  BY <1>1 DEF Calls, ReadCalls, Nothing, Decisions
<1>3. /\ deciding[a] = Nothing /\ partner[m] = "none" /\ SetDeciding(a, c)
      /\ partner' = [partner EXCEPT ![m] = "PENDING"]
      /\ disturbed' = IF applying[m] # Nothing THEN disturbed \cup {m} ELSE disturbed
      /\ UNCHANGED <<master, coded, linked, recruiter, confirmed, applying>>
  BY <1>1 DEF CreateAccount
<1>4. /\ deciding' \in [Staff -> Calls] /\ deciding'[a] = c
      /\ \A b \in Staff : b # a => deciding'[b] = deciding[b]
  BY <1>0, <1>2, <1>3, OneCall
<1>5. disturbed \subseteq disturbed' /\ disturbed' \subseteq Members
  BY <1>0, <1>3 DEF RowsTyped
<1>6. /\ partner' \in [Members -> PartnerStatus] /\ partner'[m] = "PENDING"
      /\ \A x \in Members : x # m => partner'[x] = partner[x]
  BY <1>0, <1>3 DEF RowsTyped, PartnerStatus
<1>7. RowsTyped' /\ OtherMembersSame(m)
  BY <1>0, <1>2, <1>3, <1>4, <1>5, <1>6 DEF RowsTyped, OtherMembersSame
<1>8. ~Settled(m) /\ ~Settled(m)'
  BY <1>3, <1>6 DEF Settled
<1>9. RowHolds(m)'
  BY <1>0, <1>3, <1>6, <1>8 DEF RowHolds
<1>10. NoCircle'
  BY <1>3 DEF PartnersInv, NoCircle, RecruitsOf
<1>11. \A b \in Staff : deciding'[b] # deciding[b] => CallHolds(b)'
  BY <1>2, <1>4 DEF CallHolds, Approving
<1>12. Undisturbed(m)'
  <2>1. \A b \in Staff : IsOn(b, m)' => b = a
    BY <1>0, <1>3, <1>4 DEF RowHolds, IsOn
  <2>2. (CallFits(deciding[a], m))'
    BY <1>0, <1>2, <1>3, <1>4 DEF CallFits, RowHolds
  <2> QED
    BY <1>8, <2>1, <2>2 DEF Undisturbed
<1> QED
  BY <1>7, <1>8, <1>9, <1>10, <1>11, <1>12, OneMember

LEMMA Undoes ==
  ASSUME PartnersInv, NEW a \in Staff, UndoCreation(a)
  PROVE  PartnersInv'
<1>0. RowsTyped /\ deciding[a].at = "read"
  BY DEF PartnersInv, UndoCreation
<1>1. PICK m \in Members : m = deciding[a].of
  BY <1>0, CallOf
<1>2. /\ IsOn(a, m) /\ deciding[a].of = m /\ RowHolds(m)
      /\ UNCHANGED <<master, coded, linked, confirmed, applying, disturbed>>
  BY <1>0, <1>1, CallOf DEF PartnersInv, UndoCreation
<1>3. CASE partner[m] = "PENDING"
  <2>1. /\ partner' = [partner EXCEPT ![m] = "none"]
        /\ recruiter' = [recruiter EXCEPT ![m] = Nobody]
        /\ deciding' = [b \in Staff |->
             IF b \in DecidingOn(m) /\ deciding[b].at = "read" THEN Nothing ELSE deciding[b]]
    BY <1>1, <1>3 DEF UndoCreation
  <2>2. ~Settled(m)
    BY <1>3 DEF Settled
  <2>3. ASSUME NEW b \in Staff, IsOn(b, m)
        PROVE  deciding[b].at = "read"
    <3>1. deciding[b] \in Calls /\ deciding[b] # Nothing
      BY <1>0, <2>3 DEF RowsTyped, IsOn
    <3>2. deciding[b].at \notin Approving \cup {"link"}
      BY <2>2, <2>3 DEF PartnersInv, CallHolds, IsOn
    <3> QED
      BY <3>1, <3>2, CallShape DEF Approving
  <2>4. \A b \in Staff : deciding'[b] = IF IsOn(b, m) THEN Nothing ELSE deciding[b]
    BY <2>1, <2>3 DEF DecidingOn, IsOn
  <2>5. deciding' \in [Staff -> Calls]
    BY <1>0, <2>1, NothingIsCall DEF RowsTyped
  <2>6. /\ partner' \in [Members -> PartnerStatus] /\ partner'[m] = "none"
        /\ \A x \in Members : x # m => partner'[x] = partner[x]
        /\ recruiter' \in [Members -> Members \cup {Nobody}] /\ recruiter'[m] = Nobody
        /\ \A x \in Members : x # m => recruiter'[x] = recruiter[x]
    BY <1>0, <2>1 DEF RowsTyped, PartnerStatus
  <2>7. RowsTyped' /\ OtherMembersSame(m)
    BY <1>0, <1>2, <2>4, <2>5, <2>6 DEF RowsTyped, OtherMembersSame, IsOn
  <2>8. \A b \in Staff : ~IsOn(b, m)'
    BY <2>4 DEF IsOn
  <2>9. RowHolds(m)'
    <3>1. master[m] = "NOT_APPLIED" /\ m \notin coded \cup linked \cup confirmed
      BY <1>2, <2>2 DEF RowHolds
    <3>2. Nobody # m
      BY PartnersAssumption
    <3>3. applying[m] # Nothing => applying[m].by \in (linked \cup {Nobody}) \ {m}
      BY <1>2 DEF RowHolds
    <3> QED
      BY <1>2, <2>6, <2>8, <3>1, <3>2, <3>3 DEF RowHolds, IsOn
  <2>10. NoCircle'
    BY <2>6, FewerLinks DEF PartnersInv
  <2>11. \A b \in Staff : deciding'[b] # deciding[b] => CallHolds(b)'
    BY <2>4, NothingIsCall DEF CallHolds, Approving
  <2>12. Undisturbed(m)'
    BY <2>6, <2>8 DEF Undisturbed, Settled
  <2> QED
    BY <2>2, <2>7, <2>9, <2>10, <2>11, <2>12, OneMember
<1>4. CASE partner[m] # "PENDING"
  <2>1. SetDeciding(a, Nothing) /\ UNCHANGED <<partner, recruiter>>
    BY <1>1, <1>4 DEF UndoCreation
  <2>2. /\ deciding' \in [Staff -> Calls] /\ deciding'[a] = Nothing
        /\ \A b \in Staff : b # a => deciding'[b] = deciding[b]
    BY <1>0, <2>1, NothingIsCall, OneCall
  <2>3. RowsTyped' /\ OtherMembersSame(m)
    BY <1>0, <1>2, <2>1, <2>2 DEF RowsTyped, OtherMembersSame
  <2>4. RowHolds(m)' /\ (Settled(m)' <=> Settled(m)) /\ (Finished(m)' <=> Finished(m))
    BY <1>2, <2>1, <2>2 DEF RowHolds, Settled, Finished
  <2>5. NoCircle'
    BY <2>1 DEF PartnersInv, NoCircle, RecruitsOf
  <2>6. \A b \in Staff : deciding'[b] # deciding[b] => CallHolds(b)'
    BY <2>2, NothingIsCall DEF CallHolds, Approving
  <2>7. m \notin disturbed' => Undisturbed(m)'
    <3> SUFFICES ASSUME m \notin disturbed
                 PROVE  Undisturbed(m)'
      BY <1>2
    <3>1. Undisturbed(m)
      BY DEF PartnersInv
    <3>2. Settled(m)' => Finished(m)'
      BY <1>0, <1>2, <2>4, <3>1, ReadsFinished
    <3> QED
      BY <1>0, <1>2, <2>2, <3>1, <3>2, NextCall
  <2> QED
    BY <2>3, <2>4, <2>5, <2>6, <2>7, OneMember
<1> QED
  BY <1>3, <1>4

LEMMA Decides ==
  ASSUME PartnersInv, NEW a \in Staff, Decide(a)
  PROVE  PartnersInv'
<1>0. RowsTyped /\ deciding[a].at = "read"
  BY DEF PartnersInv, Decide
<1>1. PICK m \in Members : m = deciding[a].of
  BY <1>0, CallOf
<1>2. /\ IsOn(a, m) /\ deciding[a].of = m /\ RowHolds(m) /\ deciding[a] \in ReadCalls
      /\ UNCHANGED <<master, coded, linked, recruiter, confirmed, applying, disturbed>>
  BY <1>0, <1>1, CallOf, CallShape DEF PartnersInv, Decide
<1>3. PICK decision \in Decisions, by \in Members \cup {Nobody} :
        decision = deciding[a].decision /\ by = deciding[a].by
  BY <1>2 DEF ReadCalls
<1>4. NoCircle'
  BY <1>2 DEF PartnersInv, NoCircle, RecruitsOf
<1>5. PICK c \in {Nothing, [at |-> "code", of |-> m, by |-> by]} :
        /\ SetDeciding(a, c)
        /\ \/ /\ partner[m] \in From(decision)
              /\ partner' = [partner EXCEPT ![m] = To(decision)]
              /\ c # Nothing <=> To(decision) = "APPROVED"
           \/ partner' = partner /\ c = Nothing
  <2>1. [at |-> "code", of |-> m, by |-> by] # Nothing
    BY DEF Nothing
  <2> QED
    BY <1>1, <1>3, <2>1 DEF Decide
<1>6. /\ c \in Calls /\ c.at \in {"nothing", "code"} /\ (c = Nothing <=> c.at = "nothing")
      /\ c # Nothing => c.of = m /\ c.by = by
  BY <1>5 DEF Calls, CodeCalls, Nothing
<1>7. /\ deciding' \in [Staff -> Calls] /\ deciding'[a] = c
      /\ \A b \in Staff : b # a => deciding'[b] = deciding[b]
  BY <1>0, <1>5, <1>6, OneCall
<1>8. /\ partner' \in [Members -> PartnerStatus]
      /\ \A x \in Members : x # m => partner'[x] = partner[x]
      /\ \/ partner[m] \in From(decision) /\ partner'[m] = To(decision)
            /\ (c # Nothing <=> To(decision) = "APPROVED")
         \/ partner'[m] = partner[m] /\ c = Nothing
  BY <1>0, <1>5, Transitions DEF RowsTyped, PartnerStatus
<1>9. /\ Settled(m) => Settled(m)'
      /\ c # Nothing => Settled(m)'
      /\ Settled(m)' /\ c = Nothing => Settled(m)
      /\ partner'[m] = "none" <=> partner[m] = "none"
  BY <1>8, Transitions DEF Settled
<1>10. RowsTyped' /\ OtherMembersSame(m)
  BY <1>0, <1>2, <1>6, <1>7, <1>8 DEF RowsTyped, OtherMembersSame
<1>11. RowHolds(m)'
  <2>1. partner[m] # "none"
    BY <1>2 DEF RowHolds, IsOn
  <2> QED
    BY <1>2, <1>9, <2>1 DEF RowHolds
<1>12. \A b \in Staff : deciding'[b] # deciding[b] => CallHolds(b)'
  BY <1>6, <1>7, <1>9 DEF CallHolds, Approving, Settled
<1>13. m \notin disturbed' => Undisturbed(m)'
  <2> SUFFICES ASSUME m \notin disturbed
               PROVE  Undisturbed(m)'
    BY <1>2
  <2>1. Undisturbed(m)
    BY DEF PartnersInv
  <2>2. c = Nothing /\ Settled(m)' => Finished(m)'
    BY <1>0, <1>2, <1>9, <2>1, ReadsFinished DEF Finished
  <2>3. CallFits(deciding[a], m)
    BY <1>2, <2>1 DEF Undisturbed
  <2>4. c # Nothing => CallFits(c, m)'
    BY <1>0, <1>2, <1>3, <1>6, <2>3 DEF CallFits
  <2>5. c # Nothing => c.at \in Approving
    BY <1>6 DEF Approving
  <2> QED
    BY <1>0, <1>2, <1>6, <1>7, <2>1, <2>2, <2>4, <2>5, NextCall
<1> QED
  BY <1>4, <1>9, <1>10, <1>11, <1>12, <1>13, OneMember

\* The later steps of an approval: a code, and a recruiter confirmed or dropped.
LEMMA Approves ==
  ASSUME PartnersInv, NEW a \in Staff, AssignCode(a) \/ ReadRecruiter(a) \/ ConfirmRecruiter(a)
  PROVE  PartnersInv'
<1>0. RowsTyped /\ deciding[a].at \in Approving
  BY DEF PartnersInv, AssignCode, ReadRecruiter, ConfirmRecruiter, Approving
<1>1. PICK m \in Members : m = deciding[a].of
  BY <1>0, CallOf DEF Approving
<1>2. /\ IsOn(a, m) /\ deciding[a].of = m /\ RowHolds(m) /\ deciding[a] \in Calls
      /\ Settled(m) /\ partner[m] # "none"
      /\ UNCHANGED <<partner, master, linked, applying, disturbed>>
  <2>1. IsOn(a, m) /\ RowHolds(m) /\ deciding[a] \in Calls /\ Settled(m)
    BY <1>0, <1>1, CallOf DEF PartnersInv, CallHolds, Approving
  <2> QED
    BY <1>1, <2>1 DEF AssignCode, ReadRecruiter, ConfirmRecruiter, profileVars, Settled
<1>3. /\ deciding[a].at \in {"code", "recruiter"} => deciding[a] \in CodeCalls
      /\ deciding[a].at \in {"confirm", "drop"} => deciding[a] \in LastCalls
  BY <1>2, CallShape
<1>4. ASSUME NEW c \in Calls, SetDeciding(a, c), c.at \in Approving \cup {"nothing"},
             c # Nothing => c.of = m /\ c.at \in Approving,
             coded \subseteq coded', coded' \subseteq coded \cup {m},
             confirmed \subseteq confirmed', confirmed' \subseteq confirmed \cup {m},
             recruiter' \in [Members -> Members \cup {Nobody}],
             \A x \in Members : x # m => recruiter'[x] = recruiter[x],
             recruiter'[m] = recruiter[m] \/ recruiter'[m] = Nobody,
             m \notin disturbed /\ CallFits(deciding[a], m) =>
               IF c = Nothing THEN Finished(m)' ELSE CallFits(c, m)'
      PROVE  PartnersInv'
  <2>1. /\ deciding' \in [Staff -> Calls] /\ deciding'[a] = c
        /\ \A b \in Staff : b # a => deciding'[b] = deciding[b]
    BY <1>0, <1>4, OneCall
  <2>2. RowsTyped'
    BY <1>0, <1>2, <1>4, <2>1 DEF RowsTyped
  <2>3. OtherMembersSame(m)
    BY <1>2, <1>4, <2>1 DEF OtherMembersSame
  <2>4. Settled(m)'
    BY <1>2 DEF Settled
  <2>5. RowHolds(m)'
    <3>1. recruiter'[m] \in linked \cup {Nobody} /\ recruiter'[m] # m
      BY <1>2, <1>4, PartnersAssumption DEF RowHolds
    <3> QED
      BY <1>2, <2>4, <3>1 DEF RowHolds
  <2>6. NoCircle'
    BY <1>4, FewerLinks DEF PartnersInv
  <2>7. \A b \in Staff : deciding'[b] # deciding[b] => CallHolds(b)'
    <3>1. c = Nothing \/ c.of = m
      BY <1>4
    <3> QED
      BY <2>1, <2>4, <3>1, NothingIsCall DEF CallHolds, Approving, Settled
  <2>8. m \notin disturbed' => Undisturbed(m)'
    <3> SUFFICES ASSUME m \notin disturbed
                 PROVE  Undisturbed(m)'
      BY <1>2
    <3>1. Undisturbed(m) /\ CallFits(deciding[a], m)
      BY <1>2 DEF PartnersInv, Undisturbed
    <3>2. deciding[a].at # "link"
      BY <1>0 DEF Approving
    <3>3. IF c = Nothing THEN Finished(m)' ELSE CallFits(c, m)'
      BY <1>4, <3>1
    <3> QED
      BY <1>2, <1>4, <2>1, <3>1, <3>2, <3>3, NextCall
  <2> QED
    BY <2>2, <2>3, <2>4, <2>5, <2>6, <2>7, <2>8, OneMember
<1>5. ASSUME AssignCode(a)
      PROVE  PartnersInv'
  <2>1. deciding[a].at = "code" /\ deciding[a] \in CodeCalls
    BY <1>3, <1>5 DEF AssignCode
  <2>2. PICK by \in Members \cup {Nobody} : by = deciding[a].by
    BY <2>1 DEF CodeCalls
  <2>3. [deciding[a] EXCEPT !.at = "recruiter"] = [at |-> "recruiter", of |-> m, by |-> by]
    BY <1>1, <2>1, <2>2 DEF CodeCalls
  <2>4. PICK c : c = IF by = Nobody THEN Nothing ELSE [at |-> "recruiter", of |-> m, by |-> by]
    OBVIOUS
  <2>5. /\ c \in Calls /\ (by = Nobody <=> c = Nothing) /\ (c = Nothing => c.at = "nothing")
        /\ c # Nothing => c.of = m /\ c.at = "recruiter" /\ c.by = by
    BY <2>4 DEF Calls, CodeCalls, Nothing
  <2>6. SetDeciding(a, c) /\ coded' = coded \cup {m} /\ UNCHANGED <<recruiter, confirmed>>
    BY <1>1, <1>5, <2>2, <2>3, <2>4 DEF AssignCode
  <2>7. CallFits(deciding[a], m) => IF c = Nothing THEN Finished(m)' ELSE CallFits(c, m)'
    BY <2>1, <2>2, <2>5, <2>6 DEF CallFits, Finished
  <2>8. c.at \in Approving \cup {"nothing"} /\ (c # Nothing => c.of = m /\ c.at \in Approving)
    BY <2>5 DEF Approving
  <2> QED
    BY <1>0, <1>4, <2>5, <2>6, <2>7, <2>8 DEF RowsTyped
<1>6. ASSUME ReadRecruiter(a)
      PROVE  PartnersInv'
  <2>1. PICK step \in {"confirm", "drop"} : SetDeciding(a, [at |-> step, of |-> m])
    BY <1>1, <1>6 DEF ReadRecruiter
  <2>2. PICK c : c = [at |-> step, of |-> m]
    OBVIOUS
  <2>3. c \in Calls /\ c # Nothing /\ c.at \in {"confirm", "drop"} /\ c.of = m
    BY <2>2 DEF Calls, LastCalls, Nothing
  <2>4. deciding[a].at = "recruiter" /\ UNCHANGED <<coded, recruiter, confirmed>>
    BY <1>6 DEF ReadRecruiter, profileVars
  <2>5. CallFits(deciding[a], m) => CallFits(c, m)'
    BY <2>3, <2>4 DEF CallFits
  <2>6. c.at \in Approving \cup {"nothing"} /\ c.at \in Approving
    BY <2>3 DEF Approving
  <2> QED
    BY <1>0, <1>4, <2>1, <2>2, <2>3, <2>4, <2>5, <2>6 DEF RowsTyped
<1>7. ASSUME ConfirmRecruiter(a)
      PROVE  PartnersInv'
  <2>1. /\ SetDeciding(a, Nothing) /\ coded' = coded
        /\ deciding[a].at \in {"confirm", "drop"}
        /\ \/ confirmed' = confirmed \cup {m} /\ recruiter' = recruiter
           \/ recruiter' = [recruiter EXCEPT ![m] = Nobody] /\ confirmed' = confirmed
    BY <1>1, <1>7 DEF ConfirmRecruiter
  <2>2. /\ recruiter' \in [Members -> Members \cup {Nobody}]
        /\ \A x \in Members : x # m => recruiter'[x] = recruiter[x]
        /\ recruiter'[m] = recruiter[m] \/ recruiter'[m] = Nobody
        /\ recruiter'[m] = Nobody \/ m \in confirmed'
    BY <1>0, <2>1 DEF RowsTyped
  <2>3. CallFits(deciding[a], m) => Finished(m)'
    BY <2>1, <2>2 DEF CallFits, Finished
  <2> QED
    BY <1>4, <2>1, <2>2, <2>3, NothingIsCall
<1> QED
  BY <1>5, <1>6, <1>7

LEMMA Leaves ==
  ASSUME PartnersInv, NEW a \in Staff, CutShort(a) \/ AssignMasterCode(a)
  PROVE  PartnersInv'
<1>0. RowsTyped /\ deciding[a].at \in Approving \cup {"link"}
  BY DEF PartnersInv, CutShort, AssignMasterCode, Approving
<1>1. PICK m \in Members : m = deciding[a].of
  BY <1>0, CallOf DEF Approving
<1>2. /\ IsOn(a, m) /\ deciding[a].of = m /\ RowHolds(m) /\ Settled(m)
      /\ SetDeciding(a, Nothing)
      /\ UNCHANGED <<partner, master, coded, recruiter, confirmed, applying>>
      /\ \/ linked' = linked /\ disturbed' = disturbed \cup {m}
         \/ linked' = linked \cup {m} /\ disturbed' = disturbed /\ deciding[a].at = "link"
  <2>1. IsOn(a, m) /\ RowHolds(m) /\ Settled(m)
    BY <1>0, <1>1, CallOf DEF PartnersInv, CallHolds, Approving
  <2> QED
    BY <1>1, <2>1 DEF CutShort, AssignMasterCode, profileVars
<1>3. /\ deciding' \in [Staff -> Calls] /\ deciding'[a] = Nothing
      /\ \A b \in Staff : b # a => deciding'[b] = deciding[b]
  BY <1>0, <1>2, NothingIsCall, OneCall
<1>4. RowsTyped' /\ OtherMembersSame(m)
  BY <1>0, <1>2, <1>3 DEF RowsTyped, OtherMembersSame
<1>5. Settled(m)'
  BY <1>2 DEF Settled
<1>6. RowHolds(m)'
  <2>1. partner[m] # "none"
    BY <1>2 DEF Settled
  <2> QED
    BY <1>2, <1>5, <2>1 DEF RowHolds
<1>7. NoCircle'
  BY <1>2 DEF PartnersInv, NoCircle, RecruitsOf
<1>8. \A b \in Staff : deciding'[b] # deciding[b] => CallHolds(b)'
  BY <1>3, NothingIsCall DEF CallHolds, Approving
<1>9. m \notin disturbed' => Undisturbed(m)'
  <2> SUFFICES ASSUME m \notin disturbed, disturbed' = disturbed, deciding[a].at = "link"
               PROVE  Undisturbed(m)'
    BY <1>2
  <2>1. Undisturbed(m)
    BY DEF PartnersInv
  <2>2. \A b \in Staff : IsOn(b, m)' => IsOn(b, m) /\ b # a
    BY <1>3 DEF IsOn
  <2>3. \A b \in Staff : IsOn(b, m) /\ deciding[b].at \in Approving =>
          IsOn(b, m)' /\ deciding'[b].at \in Approving
    BY <1>3 DEF IsOn, Approving
  <2>4. \A b, d \in Staff : IsOn(b, m)' /\ IsOn(d, m)'
          /\ deciding'[b].at # "link" /\ deciding'[d].at # "link" => b = d
    BY <1>3, <2>1, <2>2 DEF Undisturbed
  <2>5. \A b \in Staff : IsOn(b, m)' => (CallFits(deciding[b], m))'
    BY <1>2, <1>3, <2>1, <2>2 DEF Undisturbed, CallFits
  <2> QED
    BY <1>2, <2>1, <2>3, <2>4, <2>5 DEF Undisturbed, Settled
<1> QED
  BY <1>4, <1>5, <1>6, <1>7, <1>8, <1>9, OneMember

LEMMA PartnersStep ==
  ASSUME PartnersInv, [ApplicationNext]_partnerVars
  PROVE  PartnersInv'
<1>1. CASE ApplicationNext
  <2>1. ASSUME NEW m \in Members, NEW by \in Members \cup {Nobody}, ReadApplication(m, by)
        PROVE  PartnersInv'
    BY <2>1, Applying
  <2>2. ASSUME NEW m \in Members, Apply(m) \/ ApplyAsMaster(m)
        PROVE  PartnersInv'
    BY <2>2, Applies, AppliesAsMaster
  <2>3. ASSUME NEW a \in Staff, NEW m \in Members, CreateAccount(a, m)
        PROVE  PartnersInv'
    BY <2>3, Creates
  <2>4. ASSUME NEW a \in Staff, NEW m \in Members, NEW decision \in Decisions,
               ReadProfile(a, m, decision) \/ DecideMaster(a, m, decision)
        PROVE  PartnersInv'
    BY <2>4, ReadsProfile, DecidesMaster
  <2>5. ASSUME NEW a \in Staff,
               \/ Decide(a) \/ UndoCreation(a) \/ AssignCode(a) \/ ReadRecruiter(a)
               \/ ConfirmRecruiter(a) \/ CutShort(a) \/ AssignMasterCode(a)
        PROVE  PartnersInv'
    BY <2>5, Decides, Undoes, Approves, Leaves
  <2> QED
    BY <1>1, <2>1, <2>2, <2>3, <2>4, <2>5 DEF ApplicationNext
<1>2. CASE UNCHANGED partnerVars
  <2>1. UNCHANGED <<partner, master, coded, linked, recruiter, confirmed, applying, deciding,
                    disturbed>>
    BY <1>2 DEF partnerVars, profileVars
  <2>2. \A a \in Staff, m \in Members : IsOn(a, m)' <=> IsOn(a, m)
    BY <2>1 DEF IsOn
  <2>3. \A m \in Members : RowHolds(m)'
    BY <2>1 DEF PartnersInv, RowHolds, Settled
  <2>4. \A a \in Staff : CallHolds(a)'
    BY <2>1 DEF PartnersInv, CallHolds, Settled
  <2>5. \A m \in Members \ disturbed' : Undisturbed(m)'
    BY <2>1, <2>2 DEF PartnersInv, Undisturbed, CallFits, Settled
  <2>6. RowsTyped' /\ NoCircle'
    BY <2>1 DEF PartnersInv, RowsTyped, NoCircle, RecruitsOf
  <2> QED
    BY <2>3, <2>4, <2>5, <2>6 DEF PartnersInv
<1> QED
  BY <1>1, <1>2

LEMMA PartnersAtFirst ==
  ASSUME ApplicationInit
  PROVE  PartnersInv
<1>1. RowsTyped
  BY NothingIsCall DEF ApplicationInit, RowsTyped, PartnerStatus, MasterStatus
<1>2. \A m \in Members : RowHolds(m)
  BY PartnersAssumption DEF ApplicationInit, RowHolds, Settled
<1>3. \A a \in Staff : CallHolds(a)
  BY NothingIsCall DEF ApplicationInit, CallHolds, Approving
<1>4. \A m \in Members : Undisturbed(m)
  BY DEF ApplicationInit, Undisturbed, IsOn, Settled
<1>5. NoCircle
  <2> SUFFICES ASSUME NEW group \in (SUBSET Members) \ {{}}, group \subseteq RecruitsOf(group)
               PROVE  FALSE
    BY DEF NoCircle
  <2>1. PICK m \in group : recruiter[m] \in group
    BY DEF RecruitsOf
  <2>2. recruiter[m] = Nobody
    BY DEF ApplicationInit
  <2> QED
    BY <2>1, <2>2, PartnersAssumption
<1> QED
  BY <1>1, <1>2, <1>3, <1>4, <1>5 DEF PartnersInv

\* The invariant is inductive: CutShort, Decide and the creation of an account keep
\* recruiters, codes and calls under way in agreement.
THEOREM PartnersInvariant == ApplicationSpec => []PartnersInv
<1>1. ApplicationInit => PartnersInv
  BY PartnersAtFirst
<1>2. PartnersInv /\ [ApplicationNext]_partnerVars => PartnersInv'
  BY PartnersStep
<1> QED
  BY <1>1, <1>2, PTL DEF ApplicationSpec

\* ApplicationInv: however many administrators decide at once (decidePartner,
\* adminCreatePartnerAccount, decideMaster), a Partner whose calls never met has
\* a code and a recruiter confirmed or gone, and nobody recruits, over any
\* number of steps, a member who recruited them.
THEOREM PartnersHold == ApplicationSpec => []ApplicationInv
<1>1. PartnersInv => ApplicationInv
  <2> SUFFICES ASSUME PartnersInv
               PROVE  ApplicationInv
    OBVIOUS
  <2>1. ASSUME NEW m \in Members
        PROVE  /\ recruiter[m] \in linked \cup {Nobody} /\ recruiter[m] # m
               /\ partner[m] = "none" =>
                    /\ master[m] = "NOT_APPLIED" /\ recruiter[m] = Nobody
                    /\ m \notin coded \cup linked \cup confirmed
                    /\ DecidingOn(m) = {}
    BY DEF PartnersInv, RowHolds, Settled, DecidingOn
  <2>2. ApplicationTypeOK
    BY <2>1 DEF PartnersInv, RowsTyped, ApplicationTypeOK
  <2>3. ApprovalIsComplete
    BY DEF PartnersInv, Undisturbed, ApprovalIsComplete, Settled, DecidingOn, IsOn
  <2>4. NoCircle
    BY DEF PartnersInv
  <2> QED
    BY <2>2, <2>3, <2>4 DEF ApplicationInv
<1> QED
  BY <1>1, PartnersInvariant, PTL

\* ConfirmedIsKept: only two decisions on a member that met (ConfirmRecruiter of
\* the slower one) can drop a recruiter that was confirmed.
THEOREM ConfirmedStays == ApplicationSpec => ConfirmedIsKept
<1> DEFINE Kept1 == \A m \in confirmed \ disturbed' : recruiter'[m] = recruiter[m]
<1>1. PartnersInv /\ [ApplicationNext]_partnerVars => [Kept1]_partnerVars
  <2> SUFFICES ASSUME PartnersInv, ApplicationNext, NEW m \in confirmed \ disturbed'
               PROVE  recruiter'[m] = recruiter[m]
    OBVIOUS
  <2>0. RowsTyped /\ m \in Members /\ Settled(m)
    BY DEF PartnersInv, RowsTyped, RowHolds
  <2>1. CASE \E x \in Members : Apply(x)
    <3>1. PICK x \in Members : Apply(x)
      BY <2>1
    <3>2. CASE x = m
      BY <2>0, <3>1, <3>2 DEF Apply, Settled
    <3>3. CASE x # m
      BY <2>0, <3>1, <3>3 DEF Apply, RowsTyped
    <3> QED
      BY <3>2, <3>3
  <2>2. CASE \E a \in Staff : UndoCreation(a)
    BY <2>0, <2>2 DEF UndoCreation, RowsTyped, Settled
  <2>3. ASSUME NEW a \in Staff, ConfirmRecruiter(a)
        PROVE  recruiter'[m] = recruiter[m]
    <3>1. /\ deciding[a].at \in {"confirm", "drop"} /\ disturbed' = disturbed
          /\ recruiter' = recruiter \/ recruiter' = [recruiter EXCEPT ![deciding[a].of] = Nobody]
      BY <2>3 DEF ConfirmRecruiter
    <3>2. IsOn(a, deciding[a].of)
      BY <2>0, <3>1, CallOf
    <3>3. Undisturbed(m)
      BY <2>0, <3>1 DEF PartnersInv
    <3>4. IsOn(a, m) => CallFits(deciding[a], m)
      BY <3>3 DEF Undisturbed
    <3>5. deciding[a].of # m
      BY <3>1, <3>2, <3>4 DEF CallFits
    <3> QED
      BY <2>0, <3>1, <3>5 DEF RowsTyped
  <2> QED
    BY <2>1, <2>2, <2>3 DEF ApplicationNext, ReadApplication, ApplyAsMaster, CreateAccount,
       ReadProfile, DecideMaster, Decide, AssignCode, ReadRecruiter, CutShort,
       AssignMasterCode, profileVars
<1> QED
  BY <1>1, PartnersInvariant, PTL DEF ApplicationSpec, ConfirmedIsKept
=============================================================================
