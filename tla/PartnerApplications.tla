------------------------ MODULE PartnerApplications -------------------------
(***************************************************************************)
(* Applications to the partnership programme, Partner and Master Partner,  *)
(* and the administrators' decisions (partnership/partner-service.ts,      *)
(* partnership/admin-account-service.ts, decideRecruiter and isActiveMaster*)
(* of lib/partnership/rules.ts).                                           *)
(*                                                                         *)
(* Every member may apply, with the recruitment link of any Master Partner *)
(* in a cookie.  No administrator is a member.  Notes, reasons, the audit  *)
(* log and collisions of codes are left out.                               *)
(***************************************************************************)
EXTENDS Naturals, FiniteSets

CONSTANTS
  Members,
  Staff,      \* administrators, one decision at a time each
  Nobody

ASSUME PartnersAssumption == Nobody \notin Members

VARIABLES
  partner,     \* PartnerProfile.status, or "none"
  master,      \* PartnerProfile.masterStatus
  coded,       \* members with a referralCode
  linked,      \* members with a masterCode
  recruiter,   \* recruitedById
  confirmed,   \* members with recruitedAt set
  applying,    \* what each member's application has read, or Nothing
  deciding,    \* what each administrator's call has read, or Nothing
  disturbed    \* members of whom one call met another or was cut short

profileVars == <<partner, master, coded, linked, recruiter, confirmed>>
partnerVars == <<profileVars, applying, deciding, disturbed>>

Nothing == [at |-> "nothing"]
PartnerStatus == {"none", "PENDING", "APPROVED", "REJECTED", "SUSPENDED"}
MasterStatus == {"NOT_APPLIED", "PENDING", "APPROVED", "REJECTED", "SUSPENDED"}

ActiveMaster(m) == partner[m] = "APPROVED" /\ master[m] = "APPROVED"
DecidingOn(m) == {a \in Staff : deciding[a] # Nothing /\ deciding[a].of = m}

\* A member without a profile has nothing else and no decision halfway, and
\* only Master Partners recruit.
ApplicationTypeOK ==
  /\ partner \in [Members -> PartnerStatus]
  /\ master \in [Members -> MasterStatus]
  /\ recruiter \in [Members -> Members \cup {Nobody}]
  /\ coded \cup linked \cup confirmed \cup disturbed \subseteq Members
  /\ \A m \in Members :
       /\ recruiter[m] \in linked \cup {Nobody} /\ recruiter[m] # m
       /\ partner[m] = "none" => /\ master[m] = "NOT_APPLIED"
                                 /\ recruiter[m] = Nobody
                                 /\ m \notin coded \cup linked \cup confirmed
                                 /\ \A a \in DecidingOn(m) : deciding[a].at = "read"

ApplicationInit ==
  /\ partner = [m \in Members |-> "none"]
  /\ master = [m \in Members |-> "NOT_APPLIED"]
  /\ recruiter = [m \in Members |-> Nobody]
  /\ coded = {} /\ linked = {} /\ confirmed = {} /\ disturbed = {}
  /\ applying = [m \in Members |-> Nothing]
  /\ deciding = [a \in Staff |-> Nothing]

SetApplying(m, call) == applying' = [applying EXCEPT ![m] = call]
SetDeciding(a, call) == deciding' = [deciding EXCEPT ![a] = call]
-----------------------------------------------------------------------------
(* applyAsPartner.                                                         *)

\* decideRecruiter.
DecideRecruiter(m, by) ==
  IF /\ recruiter[m] = Nobody /\ by # Nobody /\ by # m
     /\ ActiveMaster(by) /\ recruiter[by] # m
  THEN by ELSE Nobody

\* The member's row and that of the master whose link they followed are read.
ReadApplication(m, by) ==
  /\ applying[m] = Nothing
  /\ partner[m] \in {"none", "REJECTED"}
  /\ by \in linked \cup {Nobody}
  /\ SetApplying(m, [at |-> "read", exists |-> partner[m] # "none",
                     by |-> DecideRecruiter(m, by)])
  /\ UNCHANGED <<profileVars, deciding, disturbed>>

\* The row is created or, if it is still REJECTED, made PENDING again.
Apply(m) ==
  LET by == applying[m].by
      old == IF applying[m].exists THEN "REJECTED" ELSE "none" IN
  /\ applying[m] # Nothing
  /\ IF partner[m] = old
     THEN /\ partner' = [partner EXCEPT ![m] = "PENDING"]
          /\ recruiter' = IF by = Nobody THEN recruiter
                          ELSE [recruiter EXCEPT ![m] = by]
     ELSE UNCHANGED <<partner, recruiter>>
  /\ disturbed' = IF DecidingOn(m) # {} THEN disturbed \cup {m} ELSE disturbed
  /\ SetApplying(m, Nothing)
  /\ UNCHANGED <<master, coded, linked, confirmed, deciding>>
-----------------------------------------------------------------------------
(* decidePartner.                                                          *)

\* PARTNER_TRANSITIONS.
From(decision) ==
  CASE decision = "approve"    -> {"PENDING", "REJECTED"}
    [] decision = "reject"     -> {"PENDING"}
    [] decision = "suspend"    -> {"APPROVED"}
    [] decision = "reactivate" -> {"SUSPENDED"}

To(decision) ==
  CASE decision \in {"approve", "reactivate"} -> "APPROVED"
    [] decision = "reject"  -> "REJECTED"
    [] decision = "suspend" -> "SUSPENDED"

Decisions == {"approve", "reject", "suspend", "reactivate"}

\* (Mutant: a recruiter who was confirmed is looked at again.)
ReadProfileAgain(a, m, decision) ==
  /\ deciding[a] = Nothing /\ partner[m] # "none"
  /\ SetDeciding(a, [at |-> "read", of |-> m, decision |-> decision,
                     created |-> FALSE, by |-> recruiter[m]])
  /\ disturbed' = IF DecidingOn(m) # {} THEN disturbed \cup {m} ELSE disturbed
  /\ UNCHANGED <<profileVars, applying>>

ReadProfile(a, m, decision) ==
  /\ deciding[a] = Nothing /\ partner[m] # "none"
  /\ SetDeciding(a, [at |-> "read", of |-> m, decision |-> decision,
                     created |-> FALSE, by |-> IF m \in confirmed THEN Nobody
                                            ELSE recruiter[m]])
  /\ disturbed' = IF DecidingOn(m) # {} THEN disturbed \cup {m} ELSE disturbed
  /\ UNCHANGED <<profileVars, applying>>

\* adminCreatePartnerAccount creates the row of a member who has none, and
\* approves it as any other.
CreateAccount(a, m) ==
  /\ deciding[a] = Nothing /\ partner[m] = "none"
  /\ partner' = [partner EXCEPT ![m] = "PENDING"]
  /\ SetDeciding(a, [at |-> "read", of |-> m, decision |-> "approve",
                     created |-> TRUE, by |-> Nobody])
  /\ disturbed' = IF applying[m] # Nothing THEN disturbed \cup {m} ELSE disturbed
  /\ UNCHANGED <<master, coded, linked, recruiter, confirmed, applying>>

\* If the approval fails, the row is deleted again while it is PENDING; a
\* decision that read it finds no row then.
UndoCreation(a) ==
  LET m == deciding[a].of IN
  /\ deciding[a].at = "read" /\ deciding[a].created
  /\ IF partner[m] = "PENDING"
     THEN /\ partner' = [partner EXCEPT ![m] = "none"]
          /\ recruiter' = [recruiter EXCEPT ![m] = Nobody]
          /\ deciding' = [b \in Staff |->
               IF b \in DecidingOn(m) /\ deciding[b].at = "read"
               THEN Nothing ELSE deciding[b]]
     ELSE SetDeciding(a, Nothing) /\ UNCHANGED <<partner, recruiter>>
  /\ UNCHANGED <<master, coded, linked, confirmed, applying, disturbed>>

\* The conditional update decides; the row is not read again.
Decide(a) ==
  LET m == deciding[a].of
      decision == deciding[a].decision IN
  /\ deciding[a].at = "read"
  /\ IF partner[m] \in From(decision)
     THEN /\ partner' = [partner EXCEPT ![m] = To(decision)]
          /\ SetDeciding(a, IF To(decision) # "APPROVED" THEN Nothing
                            ELSE [at |-> "code", of |-> m, by |-> deciding[a].by])
     ELSE SetDeciding(a, Nothing) /\ UNCHANGED partner
  /\ UNCHANGED <<master, coded, linked, recruiter, confirmed, applying, disturbed>>

\* assignCode, then on to the recruiter that was read, if any.
AssignCode(a) ==
  /\ deciding[a].at = "code"
  /\ coded' = coded \cup {deciding[a].of}
  /\ SetDeciding(a, IF deciding[a].by = Nobody THEN Nothing
                    ELSE [deciding[a] EXCEPT !.at = "recruiter"])
  /\ UNCHANGED <<partner, master, linked, recruiter, confirmed, applying, disturbed>>

ReadRecruiter(a) ==
  /\ deciding[a].at = "recruiter"
  /\ SetDeciding(a, [at |-> IF ActiveMaster(deciding[a].by) THEN "confirm" ELSE "drop",
                     of |-> deciding[a].of])
  /\ UNCHANGED <<profileVars, applying, disturbed>>

\* The recruiter is confirmed or dropped, whoever that is by now (mutant: an
\* inactive recruiter stays, unconfirmed).
ConfirmOnly(a) ==
  /\ deciding[a].at \in {"confirm", "drop"}
  /\ confirmed' = IF deciding[a].at = "confirm"
                  THEN confirmed \cup {deciding[a].of} ELSE confirmed
  /\ SetDeciding(a, Nothing)
  /\ UNCHANGED <<partner, master, coded, linked, recruiter, applying, disturbed>>

ConfirmRecruiter(a) ==
  /\ deciding[a].at \in {"confirm", "drop"}
  /\ IF deciding[a].at = "confirm"
     THEN confirmed' = confirmed \cup {deciding[a].of} /\ UNCHANGED recruiter
     ELSE /\ recruiter' = [recruiter EXCEPT ![deciding[a].of] = Nobody]
          /\ UNCHANGED confirmed
  /\ SetDeciding(a, Nothing)
  /\ UNCHANGED <<partner, master, coded, linked, applying, disturbed>>

\* The administrator's request ends between two of its steps.
CutShort(a) ==
  /\ deciding[a].at \in {"code", "recruiter", "confirm", "drop", "link"}
  /\ disturbed' = disturbed \cup {deciding[a].of}
  /\ SetDeciding(a, Nothing)
  /\ UNCHANGED <<profileVars, applying>>
-----------------------------------------------------------------------------
(* applyAsMaster, decideMaster and adminGrantMaster: all conditional        *)
(* updates, for which what was read first can only refuse.                  *)

ApplyAsMaster(m) ==
  /\ partner[m] = "APPROVED" /\ master[m] \in {"NOT_APPLIED", "REJECTED"}
  /\ master' = [master EXCEPT ![m] = "PENDING"]
  /\ UNCHANGED <<partner, coded, linked, recruiter, confirmed, applying,
                 deciding, disturbed>>

\* A second statement assigns the recruitment code.  An administrator's grant
\* first makes NOT_APPLIED PENDING, as an application does.
DecideMaster(a, m, decision) ==
  /\ deciding[a] = Nothing
  /\ master[m] \in From(decision)
  /\ To(decision) = "APPROVED" => partner[m] = "APPROVED"
  /\ master' = [master EXCEPT ![m] = To(decision)]
  /\ IF To(decision) = "APPROVED"
     THEN SetDeciding(a, [at |-> "link", of |-> m]) ELSE UNCHANGED deciding
  /\ UNCHANGED <<partner, coded, linked, recruiter, confirmed, applying, disturbed>>

AssignMasterCode(a) ==
  /\ deciding[a].at = "link"
  /\ linked' = linked \cup {deciding[a].of}
  /\ SetDeciding(a, Nothing)
  /\ UNCHANGED <<partner, master, coded, recruiter, confirmed, applying, disturbed>>

ApplicationNext ==
  \/ \E m \in Members :
       \/ \E by \in Members \cup {Nobody} : ReadApplication(m, by)
       \/ Apply(m) \/ ApplyAsMaster(m)
  \/ \E a \in Staff, m \in Members :
       \/ CreateAccount(a, m)
       \/ \E decision \in Decisions :
            ReadProfile(a, m, decision) \/ DecideMaster(a, m, decision)
  \/ \E a \in Staff :
       \/ Decide(a) \/ UndoCreation(a) \/ AssignCode(a) \/ ReadRecruiter(a)
       \/ ConfirmRecruiter(a) \/ CutShort(a) \/ AssignMasterCode(a)

ApplicationSpec == ApplicationInit /\ [][ApplicationNext]_partnerVars
-----------------------------------------------------------------------------
\* A Partner whose calls never met ends every approval with a referral code
\* and with a recruiter that is confirmed or gone.
ApprovalIsComplete ==
  \A m \in Members \ disturbed :
    partner[m] = "APPROVED" /\ DecidingOn(m) = {} =>
      m \in coded /\ (recruiter[m] = Nobody \/ m \in confirmed)

\* A recruitment that was confirmed is lost only to two decisions that met.
ConfirmedIsKept ==
  [][\A m \in confirmed \ disturbed' : recruiter'[m] = recruiter[m]]_partnerVars

\* Nobody recruits, over any number of steps, a member who recruited them: a
\* Partner who was ever approved can no longer take a recruiter.
RecruitsOf(group) == {m \in Members : recruiter[m] \in group}
NoCircle ==
  \A group \in (SUBSET Members) \ {{}} : ~(group \subseteq RecruitsOf(group))

\* Every state is well typed, approvals are complete, recruiting has no circle.
ApplicationInv == ApplicationTypeOK /\ ApprovalIsComplete /\ NoCircle
=============================================================================
