------------------------- MODULE LicenseActivations -------------------------
(***************************************************************************)
(* One licence: its activation slots and its status                        *)
(* (licenses/license-service.ts).  activateLicense reads the licence with  *)
(* its active rows and creates a row in a later statement; a deactivated   *)
(* row stays, and (licenseId, machineId) is unique.  Administrators decide *)
(* on a screen that shows an earlier status; a refund revokes at any time. *)
(* License.expiresAt and EXPIRED are never written by the code.            *)
(***************************************************************************)
EXTENDS Naturals, FiniteSets

CONSTANTS
  Calls,          \* client sessions, one API call at a time each
  Admins,         \* administrators with the licence page open
  Machines,
  MaxActivations  \* License.maxActivations

ASSUME ActivationsAssumption ==
  /\ IsFiniteSet(Calls) /\ Calls # {}
  /\ IsFiniteSet(Machines)
  /\ MaxActivations \in Nat

VARIABLES
  status,   \* License.status
  screen,   \* the status each administrator's page shows, or "closed"
  row,      \* LicenseActivation of each machine
  step,     \* where each call stands
  machine   \* the machine it is for

vars == <<status, screen, row, step, machine>>

LicenseStatus == {"ACTIVE", "SUSPENDED", "REVOKED"}
Active == {m \in Machines : row[m] = "active"}
Creating == {c \in Calls : step[c] = "create"}

ActivationTypeOK ==
  /\ status \in LicenseStatus
  /\ screen \in [Admins -> LicenseStatus \cup {"closed"}]
  /\ row \in [Machines -> {"none", "active", "deactivated"}]
  /\ step \in [Calls -> {"idle", "create", "deactivate"}]
  /\ machine \in [Calls -> Machines]

Init ==
  /\ status = "ACTIVE"
  /\ screen = [a \in Admins |-> "closed"]
  /\ row = [m \in Machines |-> "none"]
  /\ step = [c \in Calls |-> "idle"]
  /\ machine \in [Calls -> Machines]

-----------------------------------------------------------------------------
(* activateLicense and deactivateLicense.                                  *)

\* Mutant: the last slot is given twice.
CanActivateUpToLimit == Cardinality(Active) <= MaxActivations

CanActivateLicense == Cardinality(Active) < MaxActivations

\* The read and its checks.  An unusable or full licence is refused and an
\* active row of the machine is returned as it is: those change nothing.
StartActivation(c, m) ==
  /\ step[c] = "idle"
  /\ status = "ACTIVE"
  /\ m \notin Active
  /\ CanActivateLicense
  /\ step' = [step EXCEPT ![c] = "create"]
  /\ machine' = [machine EXCEPT ![c] = m]
  /\ UNCHANGED <<status, screen, row>>

\* licenseActivation.create: refused (P2002) when the machine has a row, also
\* a deactivated one.
CreateActivation(c) ==
  /\ step[c] = "create"
  /\ row' = [row EXCEPT ![machine[c]] = IF @ = "none" THEN "active" ELSE @]
  /\ step' = [step EXCEPT ![c] = "idle"]
  /\ UNCHANGED <<status, screen, machine>>

\* deactivateLicense finds an active row, whatever the licence's status.
StartDeactivation(c, m) ==
  /\ step[c] = "idle"
  /\ m \in Active
  /\ step' = [step EXCEPT ![c] = "deactivate"]
  /\ machine' = [machine EXCEPT ![c] = m]
  /\ UNCHANGED <<status, screen, row>>

CloseActivation(c) ==
  /\ step[c] = "deactivate"
  /\ row' = [row EXCEPT ![machine[c]] = "deactivated"]
  /\ step' = [step EXCEPT ![c] = "idle"]
  /\ UNCHANGED <<status, screen, machine>>

-----------------------------------------------------------------------------
(* The status, from the administrator's page and from a refund.            *)

OpenScreen(a) ==
  /\ screen' = [screen EXCEPT ![a] = status]
  /\ UNCHANGED <<status, row, step, machine>>

\* The buttons the page offers for the status it shows, none when REVOKED.
Buttons(shown) ==
  IF shown \in {"ACTIVE", "SUSPENDED"} THEN LicenseStatus \ {shown} ELSE {}

\* license.update, without a condition on the status it replaces.
SetLicenseStatus(a, s) ==
  /\ s \in Buttons(screen[a])
  /\ status' = s
  /\ screen' = [screen EXCEPT ![a] = s]
  /\ UNCHANGED <<row, step, machine>>

RefundRevokes ==
  /\ status' = "REVOKED"
  /\ UNCHANGED <<screen, row, step, machine>>

Next ==
  \/ \E c \in Calls :
       \/ \E m \in Machines : StartActivation(c, m) \/ StartDeactivation(c, m)
       \/ CreateActivation(c) \/ CloseActivation(c)
  \/ \E a \in Admins :
       OpenScreen(a) \/ \E s \in LicenseStatus : SetLicenseStatus(a, s)
  \/ RefundRevokes

Spec == Init /\ [][Next]_vars
-----------------------------------------------------------------------------
(* Properties.                                                             *)

\* How far the race of read and create can exceed maxActivations: by one slot
\* for each further call in flight, however often calls are repeated.  With a
\* single call at a time the limit is exact.
OvershootBounded ==
  Cardinality(Active) <= MaxActivations + (Cardinality(Calls) - 1)

\* The inductive form: a slot is promised to each call about to create.
SlotsPromised ==
  Cardinality(Active) + Cardinality(Creating)
    <= MaxActivations + (Cardinality(Calls) - 1)

=============================================================================
