------------------------------ MODULE MCMembers -----------------------------
(***************************************************************************)
(* Finite instances of what the accounts of the site do, side by side: a   *)
(* seller's payouts, the slots of a licence, the subscriptions to signals, *)
(* the roles of the staff, "view as user", the rate limiter and the        *)
(* community. The modules share no state, so a behaviour is one of any of  *)
(* them, chosen by `part` once and for all, while the others rest in their *)
(* first state.                                                            *)
(***************************************************************************)
EXTENDS SellerPayouts, LicenseActivations, SignalSubscriptions,
        AdminAccounts, Impersonation, RateLimit, Community

VARIABLE part

membersVars == <<part, sellerVars, vars, signalVars, accountVars, viewVars,
                   limitVars, communityVars>>

MembersInit ==
  /\ part \in {"payouts", "licences", "signals", "accounts", "views",
              "limits", "community"}
  /\ PayoutInit
  /\ Init
  /\ SubscriptionsInit
  /\ AccountsInit
  /\ ImpersonationInit
  /\ RateLimitInit
  /\ CommunityInit
  \* Which machine a call is for matters in its own part only.
  /\ part # "licences" =>
       machine = [c \in Calls |-> CHOOSE m \in Machines : TRUE]

PayoutsPart ==
  /\ part = "payouts" /\ PayoutNext
  /\ UNCHANGED <<part, vars, signalVars, accountVars, viewVars, limitVars,
                 communityVars>>
LicencesPart ==
  /\ part = "licences" /\ Next
  /\ UNCHANGED <<part, sellerVars, signalVars, accountVars, viewVars, limitVars,
                 communityVars>>
SignalsPart ==
  /\ part = "signals" /\ SubscriptionsNext
  /\ UNCHANGED <<part, sellerVars, vars, accountVars, viewVars, limitVars,
                 communityVars>>
AccountsPart ==
  /\ part = "accounts" /\ AccountsNext
  /\ UNCHANGED <<part, sellerVars, vars, signalVars, viewVars, limitVars,
                 communityVars>>
ViewsPart ==
  /\ part = "views" /\ ImpersonationNext
  /\ UNCHANGED <<part, sellerVars, vars, signalVars, accountVars, limitVars,
                 communityVars>>
LimitsPart ==
  /\ part = "limits" /\ RateLimitNext
  /\ UNCHANGED <<part, sellerVars, vars, signalVars, accountVars, viewVars,
                 communityVars>>
CommunityPart ==
  /\ part = "community" /\ CommunityNext
  /\ UNCHANGED <<part, sellerVars, vars, signalVars, accountVars, viewVars,
                 limitVars>>

MembersNext ==
  \/ PayoutsPart
  \/ LicencesPart
  \/ SignalsPart
  \/ AccountsPart
  \/ ViewsPart
  \/ LimitsPart
  \/ CommunityPart

MembersSpec == MembersInit /\ [][MembersNext]_membersVars

\* Two tabs of one member.
TwoTabs == {<<"m1", 1>>, <<"m1", 2>>}

\* Bound of the staff's accounts: the Super Administrator is no seller.
RootIsNoSeller == Root \notin sellers
=============================================================================
