---------------------------- MODULE Attribution -----------------------------
(***************************************************************************)
(* From a referral link to the Partner an order is credited to             *)
(* (partnership/attribution-service.ts, decideRegistrationAttribution and  *)
(* decideOrderReferral of lib/partnership/rules.ts): one buyer with one    *)
(* browser, one order.  What the credited Partner earns is Earnings.       *)
(*                                                                         *)
(* Self is the buyer's own Partner profile.  A day is one unit of the      *)
(* clock.  Clicks are left out, and cookies are those the server signed.   *)
(***************************************************************************)
EXTENDS Naturals

CONSTANTS
  Profiles,        \* Partner profiles
  Self,
  NoProfile,
  AttributionDays,
  OwnerDays,       \* referredUserCommissionDays, 0 for no end
  LastDay          \* bound of the clock

ASSUME AttributionAssumption ==
  /\ Self \in Profiles /\ NoProfile \notin Profiles
  /\ {AttributionDays, OwnerDays, LastDay} \subseteq Nat

VARIABLES
  day,
  active,          \* profiles with status APPROVED
  cookie,          \* the browser's referral cookie
  account,         \* the buyer's account and its attribution
  owning,          \* the profile attributeRegistration decided on
  owner,           \* the ReferralAttribution row
  sale,            \* where recordOrderReferral stands for the order
  crediting,       \* what it decided
  credit           \* the OrderReferral row

registrationVars == <<account, owning, owner>>
saleVars == <<sale, crediting, credit>>
attributionVars == <<day, active, cookie, registrationVars, saleVars>>

NoLink == [to |-> NoProfile, at |-> 0]
NoCredit == [to |-> NoProfile, source |-> "none", owned |-> FALSE, at |-> 0]
Links == [to : Profiles \cup {NoProfile}, at : 0 .. LastDay]
Credits ==
  [to : Profiles \ {Self}, at : 0 .. LastDay, owned : BOOLEAN,
   source : {"REGISTRATION", "REFERRAL_LINK"}] \cup {NoCredit}

\* Nobody owns their own account or is credited for their own order.
AttributionTypeOK ==
  /\ day \in 0 .. LastDay /\ active \subseteq Profiles
  /\ cookie \in Links /\ owner \in Links /\ owner.to # Self
  /\ account \in {"none", "created", "owning", "ready"}
  /\ owning \in (Profiles \ {Self}) \cup {NoProfile}
  /\ sale \in {"none", "placed", "crediting", "recorded"}
  /\ crediting \in Credits /\ credit \in Credits

AttributionInit ==
  /\ day = 0 /\ active = {} /\ cookie = NoLink
  /\ account = "none" /\ owning = NoProfile /\ owner = NoLink
  /\ sale = "none" /\ crediting = NoCredit /\ credit = NoCredit
-----------------------------------------------------------------------------
DayPasses ==
  /\ day < LastDay
  /\ day' = day + 1
  /\ UNCHANGED <<active, cookie, registrationVars, saleVars>>

\* A Partner is approved, suspended or reactivated; a profile needs an account.
ToggleActive(p) ==
  /\ p = Self => account # "none"
  /\ active' = IF p \in active THEN active \ {p} ELSE active \cup {p}
  /\ UNCHANGED <<day, cookie, registrationVars, saleVars>>

\* recordReferralVisit: the last link followed replaces the cookie, but for a
\* signed-in viewer's own link.
FollowLink(p, signedIn) ==
  /\ p \in active
  /\ signedIn => account # "none" /\ p # Self
  /\ cookie' = [to |-> p, at |-> day]
  /\ UNCHANGED <<day, active, registrationVars, saleVars>>

\* readReferralCookie: older than the attribution window is no cookie.
CookieValid == cookie.to # NoProfile /\ day - cookie.at <= AttributionDays

CreateUser ==
  /\ account = "none"
  /\ account' = "created"
  /\ UNCHANGED <<day, active, cookie, owning, owner, saleVars>>

\* attributeRegistration reads the cookie and its Partner ...
DecideOwner ==
  /\ account = "created"
  /\ account' = "owning"
  /\ owning' = IF CookieValid /\ cookie.to \in active \ {Self}
               THEN cookie.to ELSE NoProfile
  /\ UNCHANGED <<day, active, cookie, owner, saleVars>>

\* ... and inserts the owner, if nothing throws.
InsertOwner(succeeds) ==
  /\ account = "owning"
  /\ account' = "ready" /\ owning' = NoProfile
  /\ owner' = IF succeeds /\ owning # NoProfile
              THEN [to |-> owning, at |-> day] ELSE owner
  /\ UNCHANGED <<day, active, cookie, saleVars>>
-----------------------------------------------------------------------------
(* recordOrderReferral, of a checkout or a renewal, before the charge.      *)

PlaceOrder ==
  /\ account # "none" /\ sale = "none"
  /\ sale' = "placed"
  /\ UNCHANGED <<day, active, cookie, registrationVars, crediting, credit>>

OwnerWindowOpen == OwnerDays = 0 \/ day - owner.at <= OwnerDays

Credited(p, source) ==
  IF p \notin active \ {Self} THEN NoCredit
  ELSE [to |-> p, source |-> source, owned |-> owner.to # NoProfile, at |-> day]

\* Mutant: a suspended owner's order goes to the last link.
DecideAmongActive(browser) ==
  IF owner.to \in active /\ OwnerWindowOpen THEN Credited(owner.to, "REGISTRATION")
  ELSE IF browser /\ CookieValid THEN Credited(cookie.to, "REFERRAL_LINK")
  ELSE NoCredit

\* decideOrderReferral: the owner while the window is open, active or not, and
\* then the last link.
DecideCredit(browser) ==
  IF owner.to # NoProfile /\ OwnerWindowOpen
  THEN Credited(owner.to, "REGISTRATION")
  ELSE IF browser /\ CookieValid THEN Credited(cookie.to, "REFERRAL_LINK")
  ELSE NoCredit

\* Owner and cookie are read; a renewal has no browser and so no cookie.
ReadReferral(browser) ==
  /\ sale = "placed"
  /\ sale' = "crediting" /\ crediting' = DecideCredit(browser)
  /\ UNCHANGED <<day, active, cookie, registrationVars, credit>>

\* The insert, which may throw without harm to the order.
RecordReferral(succeeds) ==
  /\ sale = "crediting"
  /\ sale' = "recorded" /\ crediting' = NoCredit
  /\ credit' = IF succeeds THEN crediting ELSE credit
  /\ UNCHANGED <<day, active, cookie, registrationVars>>

AttributionNext ==
  \/ DayPasses \/ CreateUser \/ DecideOwner \/ PlaceOrder
  \/ \E p \in Profiles :
       ToggleActive(p) \/ \E signedIn \in BOOLEAN : FollowLink(p, signedIn)
  \/ \E b \in BOOLEAN : InsertOwner(b) \/ ReadReferral(b) \/ RecordReferral(b)

AttributionSpec == AttributionInit /\ [][AttributionNext]_attributionVars
-----------------------------------------------------------------------------
\* "Another Partner's link never takes the account over", and "a suspended owner
\* earns nothing, and nobody else is credited instead": an order goes to another
\* than the account's owner only when the owner's days are over, or when the
\* order was decided from another page before the owner was inserted.
OwnerKeepsOrders ==
  credit.owned /\ credit.to # owner.to =>
    OwnerDays > 0 /\ credit.at - owner.at > OwnerDays

\* Every state is well typed, and the owner keeps the account's orders.
AttributionInv == AttributionTypeOK /\ OwnerKeepsOrders
=============================================================================
