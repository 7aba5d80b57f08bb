--------------------------- MODULE AdminAccounts ----------------------------
(***************************************************************************)
(* Roles, suspension and granular admin roles of the staff's accounts      *)
(* (admin/user-admin-service.ts, admin/admin-roles-service.ts, with the    *)
(* rules of lib/admin/rules.ts), and becoming a seller (users/actions.ts). *)
(*                                                                         *)
(* A change of a role or a suspension is a SERIALIZABLE transaction, one   *)
(* step here.  A grant and a revocation run at READ COMMITTED: they read   *)
(* in one or two steps and write what they decided in a later one.  The    *)
(* permission check before them uses the session's copy of the role, which *)
(* may be a minute old; nothing relies on it here: any account may call.   *)
(* AUTHOR ranks with SELLER and is left out.                               *)
(***************************************************************************)
EXTENDS Naturals, FiniteSets

CONSTANTS
  Accounts,
  Root,        \* the Super Administrator the site starts with
  Scopes,      \* the granular admin roles
  MaxGrantCalls  \* bound on grants and revocations in progress

ASSUME AccountsAssumption ==
  /\ Root \in Accounts
  /\ MaxGrantCalls \in Nat

VARIABLES
  role,        \* User.role
  sellers,     \* accounts with a seller profile
  suspended,   \* accounts with bannedAt set
  grants,      \* AdminRoleGrant rows <<account, scope>>
  grantCalls   \* grants and revocations in progress, with what they read

accountVars == <<role, sellers, suspended, grants, grantCalls>>

Rank == [USER |-> 0, SELLER |-> 1, MODERATOR |-> 2, ADMIN |-> 3,
         SUPER_ADMIN |-> 4]
Roles == DOMAIN Rank

AccountsTypeOK ==
  /\ role \in [Accounts -> Roles]
  /\ sellers \subseteq Accounts /\ suspended \subseteq Accounts
  /\ grants \subseteq Accounts \X Scopes
  /\ \A c \in grantCalls :
       /\ c.of \in Accounts /\ c.scope \in Scopes
       /\ c.role \in Roles \ {"ADMIN", "SUPER_ADMIN"}

AccountsInit ==
  /\ role = [u \in Accounts |-> IF u = Root THEN "SUPER_ADMIN" ELSE "USER"]
  /\ sellers = {} /\ suspended = {} /\ grants = {} /\ grantCalls = {}

ActiveSuperAdmins == {u \in Accounts \ suspended : role[u] = "SUPER_ADMIN"}

\* canActOnAccount
CanActOn(a, u) ==
  /\ a # u
  /\ role[a] = "SUPER_ADMIN" \/ Rank[role[a]] > Rank[role[u]]

-----------------------------------------------------------------------------
(* changeUserRoleChecked and setUserSuspendedChecked.                      *)

\* Mutant: everybody may step down.
RoleChangeOfOneself(a, u, new) ==
  \/ a = u /\ Rank[new] < Rank[role[u]]
  \/ /\ CanActOn(a, u) /\ new # role[u]
     /\ role[a] # "SUPER_ADMIN" =>
          Rank[new] < Rank[role[a]] /\ Rank[role[u]] < Rank["ADMIN"]
     /\ ActiveSuperAdmins # {u}

\* evaluateRoleChange
RoleChangeAllowed(a, u, new) ==
  /\ CanActOn(a, u) /\ new # role[u]
  /\ role[a] # "SUPER_ADMIN" =>
       Rank[new] < Rank[role[a]] /\ Rank[role[u]] < Rank["ADMIN"]
  /\ ActiveSuperAdmins # {u}

ChangeRole(a, u, new) ==
  /\ a \notin suspended
  /\ RoleChangeAllowed(a, u, new)
  /\ role' = [role EXCEPT ![u] = new]
  /\ grants' = IF new = "MODERATOR" THEN grants
                                    ELSE {g \in grants : g[1] # u}
  /\ UNCHANGED <<sellers, suspended, grantCalls>>

\* evaluateSuspension
Suspend(a, u) ==
  /\ a \notin suspended /\ u \notin suspended
  /\ CanActOn(a, u)
  /\ ActiveSuperAdmins # {u}
  /\ suspended' = suspended \cup {u}
  /\ UNCHANGED <<role, sellers, grants, grantCalls>>

Reactivate(a, u) ==
  /\ a \notin suspended /\ u \in suspended
  /\ CanActOn(a, u)
  /\ suspended' = suspended \ {u}
  /\ UNCHANGED <<role, sellers, grants, grantCalls>>

\* becomeSellerAction: an elevated account keeps its role.
BecomeSeller(u) ==
  /\ role' = [role EXCEPT ![u] = IF @ = "USER" THEN "SELLER" ELSE @]
  /\ sellers' = sellers \cup {u}
  /\ UNCHANGED <<suspended, grants, grantCalls>>

-----------------------------------------------------------------------------
(* grantAdminRole and revokeAdminRole.                                     *)

\* evaluateAdminRoleGrant
GrantAllowed(a, u) ==
  /\ a \notin suspended /\ role[a] = "SUPER_ADMIN"
  /\ a # u /\ u \notin suspended
  /\ Rank[role[u]] < Rank["ADMIN"]

\* The account, its grant of this scope and, for a revocation, its other
\* grants, which are counted by a query of their own.
ReadForGrant(a, u, s, op) ==
  /\ Cardinality(grantCalls) < MaxGrantCalls
  /\ GrantAllowed(a, u)
  /\ op = "revoke" <=> <<u, s>> \in grants
  /\ grantCalls' = grantCalls \cup
       {[op |-> op, of |-> u, scope |-> s, role |-> role[u], others |-> "unread"]}
  /\ UNCHANGED <<role, sellers, suspended, grants>>

Others(c) == {g \in grants : g[1] = c.of /\ g[2] # c.scope}

CountOthers(c) ==
  /\ c \in grantCalls /\ c.op = "revoke" /\ c.others = "unread"
  /\ grantCalls' = (grantCalls \ {c}) \cup
       {[c EXCEPT !.others = IF Others(c) = {} THEN "none" ELSE "some"]}
  /\ UNCHANGED <<role, sellers, suspended, grants>>

\* The unique key of the grant makes the second of two equal calls fail.
Grant(c) ==
  /\ c \in grantCalls /\ c.op = "grant"
  /\ \/ /\ <<c.of, c.scope>> \notin grants
        /\ grants' = grants \cup {<<c.of, c.scope>>}
        /\ role' = IF Rank[c.role] >= Rank["MODERATOR"] THEN role
                   ELSE [role EXCEPT ![c.of] = "MODERATOR"]
     \/ /\ <<c.of, c.scope>> \in grants
        /\ UNCHANGED <<grants, role>>
  /\ grantCalls' = grantCalls \ {c}
  /\ UNCHANGED <<sellers, suspended>>

Revoke(c) ==
  /\ c \in grantCalls /\ c.others \in {"none", "some"}
  /\ \/ /\ <<c.of, c.scope>> \in grants
        /\ grants' = grants \ {<<c.of, c.scope>>}
        /\ role' = IF c.others = "some" \/ c.role # "MODERATOR" THEN role
                   ELSE [role EXCEPT ![c.of] = IF c.of \in sellers THEN "SELLER"
                                                                  ELSE "USER"]
     \/ /\ <<c.of, c.scope>> \notin grants
        /\ UNCHANGED <<grants, role>>
  /\ grantCalls' = grantCalls \ {c}
  /\ UNCHANGED <<sellers, suspended>>

AccountsNext ==
  \/ \E a, u \in Accounts :
       \/ \E new \in Roles : ChangeRole(a, u, new)
       \/ Suspend(a, u) \/ Reactivate(a, u)
       \/ \E s \in Scopes, op \in {"grant", "revoke"} : ReadForGrant(a, u, s, op)
  \/ \E u \in Accounts : BecomeSeller(u)
  \/ \E c \in grantCalls : CountOthers(c) \/ Grant(c) \/ Revoke(c)

AccountsSpec == AccountsInit /\ [][AccountsNext]_accountVars
-----------------------------------------------------------------------------
(* Properties.                                                             *)

\* The account of a call has another role than the call read.
Overtaken(c) == role[c.of] # c.role

\* The last active Super Administrator goes only when a grant or revocation
\* overwrites the role of an account that was promoted after it read it.
LastSuperAdminKept ==
  ActiveSuperAdmins # {} /\ ActiveSuperAdmins' = {} =>
    \E c \in grantCalls \ grantCalls' : Overtaken(c)

\* "Revoking must never widen access": a revocation that leaves its account
\* without a scope takes the staff rank too, if nobody changed the account's
\* role or scopes since the call read them.
RankGoesWithLastScope ==
  \A c \in grantCalls \ grantCalls' :
    /\ c.op = "revoke" /\ c.others # "unread"
    /\ ~Overtaken(c) /\ (c.others = "none" <=> Others(c) = {})
    /\ <<c.of, c.scope>> \in grants
    /\ \A s \in Scopes : <<c.of, s>> \notin grants'
    => role'[c.of] # "MODERATOR"

\* No step of the staff strands the site or a rank, but for those races.
StaffKept == [][LastSuperAdminKept /\ RankGoesWithLastScope]_accountVars

-----------------------------------------------------------------------------
(* A sentence of the code that its behaviour contradicts.                  *)

\* Role changes are "serializable so two admins can't race the
\* last-Super-Admin check": a grant that read an account before its promotion
\* races it all the same.
SuperAdminRemains == ActiveSuperAdmins # {}
=============================================================================
