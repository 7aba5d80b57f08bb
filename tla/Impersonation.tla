--------------------------- MODULE Impersonation ----------------------------
(***************************************************************************)
(* "View as user" sessions (admin/impersonation-service.ts,                *)
(* admin/impersonation-token.ts, the jwt callback of lib/auth.ts).         *)
(*                                                                         *)
(* One administrator's browser and one member.  The cookie holds the       *)
(* administrator's identity or the id of a session whose member it shows.  *)
(* A request takes the cookie it is sent with to the server; the jwt       *)
(* callback reads and writes the session row, and the response puts the    *)
(* cookie it returns back in the browser, whatever happened meanwhile.     *)
(***************************************************************************)
EXTENDS Naturals

CONSTANTS
  Views,       \* ImpersonationSession rows
  Requests,    \* requests the browser may have in flight at once
  Own          \* the cookie with the administrator's own identity

SignedOut == "signedOut"

ASSUME ImpersonationAssumption == Views \cap {Own, SignedOut} = {}

VARIABLES
  view,        \* "none", "open" or "ended" for each row
  expired,     \* rows past expiresAt
  staff,       \* is the administrator still staff, and not suspended?
  memberOk,    \* is the member not suspended?
  cookie,
  request      \* what each request carries and where it stands

viewVars == <<view, expired, staff, memberOk, cookie, request>>

NoRequest == [at |-> "idle"]
Idle(r) == request[r] = NoRequest
Set(r, new) == request' = [request EXCEPT ![r] = new]
Open(v) == view[v] = "open" /\ v \notin expired

ImpersonationTypeOK ==
  /\ view \in [Views -> {"none", "open", "ended"}]
  /\ expired \subseteq Views
  /\ staff \in BOOLEAN /\ memberOk \in BOOLEAN
  /\ cookie \in Views \cup {Own, SignedOut}
  /\ \A r \in Requests : ~Idle(r) =>
       /\ request[r].token \in Views \cup {Own, SignedOut}
       /\ request[r].token \in Views => view[request[r].token] # "none"

ImpersonationInit ==
  /\ view = [v \in Views |-> "none"] /\ expired = {}
  /\ staff = TRUE /\ memberOk = TRUE
  /\ cookie = Own
  /\ request = [r \in Requests |-> NoRequest]

-----------------------------------------------------------------------------
(* The browser.                                                            *)

\* A request leaves with the browser's cookie.  "wasOpen" remembers whether
\* that cookie's session was open then (no part of the code).
Send(r, kind) ==
  /\ Idle(r) /\ cookie # SignedOut
  /\ kind = "exit" => cookie \in Views
  /\ Set(r, [at |-> "jwt", kind |-> kind, token |-> cookie,
             wasOpen |-> cookie \in Views /\ Open(cookie)])
  /\ UNCHANGED <<view, expired, staff, memberOk, cookie>>

Respond(r) ==
  /\ request[r].at = "done"
  /\ cookie' = request[r].token
  /\ Set(r, NoRequest)
  /\ UNCHANGED <<view, expired, staff, memberOk>>

\* closeImpersonationOnSignOut
SignOut ==
  /\ cookie # SignedOut
  /\ cookie' = SignedOut
  /\ view' = [v \in Views |-> IF v = cookie THEN "ended" ELSE view[v]]
  /\ UNCHANGED <<expired, staff, memberOk, request>>

-----------------------------------------------------------------------------
(* The jwt callback.                                                       *)

\* endImpersonationToken: the row is closed, then the administrator's own
\* identity is put back, or the sign-in ends.
End(r) ==
  /\ request[r].at = "end"
  /\ view' = [view EXCEPT ![request[r].token] = "ended"]
  /\ Set(r, [request[r] EXCEPT !.at = "restore"])
  /\ UNCHANGED <<expired, staff, memberOk, cookie>>

Restore(r) ==
  /\ request[r].at = "restore"
  /\ Set(r, [request[r] EXCEPT !.at = "done",
                               !.token = IF staff THEN Own ELSE SignedOut])
  /\ UNCHANGED <<view, expired, staff, memberOk, cookie>>

\* Mutant: the row is not read, only the expiry in the token.
CheckExpiryOnly(r) ==
  /\ request[r].at = "jwt" /\ request[r].token \in Views
  /\ Set(r, [request[r] EXCEPT !.at =
       IF request[r].kind = "exit" \/ request[r].token \in expired
       THEN "end" ELSE "page"])
  /\ UNCHANGED <<view, expired, staff, memberOk, cookie>>

\* A request that carries a session: ended by the exit button, by its expiry,
\* by the row that says so, or because the member is gone; else it acts as
\* the member.
Check(r) ==
  /\ request[r].at = "jwt" /\ request[r].token \in Views
  /\ \/ Set(r, [request[r] EXCEPT !.at =
          IF request[r].kind = "exit" \/ ~Open(request[r].token)
          THEN "end" ELSE "page"])
     \/ /\ ~memberOk
        /\ Set(r, [request[r] EXCEPT !.at = "end"])
  /\ UNCHANGED <<view, expired, staff, memberOk, cookie>>

\* The administrator's own requests; one of an account that is suspended ends
\* the sign-in when its role is next read.
OwnRequest(r) ==
  /\ request[r].at = "jwt" /\ request[r].token = Own
  /\ \/ Set(r, [request[r] EXCEPT !.at =
          IF request[r].kind = "start" THEN "start" ELSE "done"])
     \/ /\ ~staff
        /\ Set(r, [request[r] EXCEPT !.at = "done", !.token = SignedOut])
  /\ UNCHANGED <<view, expired, staff, memberOk, cookie>>

\* createImpersonationSession: the rules, then the row.
Create(r, v) ==
  /\ request[r].at = "start"
  /\ staff /\ memberOk /\ view[v] = "none"
  /\ view' = [view EXCEPT ![v] = "open"]
  /\ Set(r, [request[r] EXCEPT !.at = "begin", !.token = v, !.wasOpen = TRUE])
  /\ UNCHANGED <<expired, staff, memberOk, cookie>>

Refuse(r) ==
  /\ request[r].at = "start"
  /\ Set(r, [request[r] EXCEPT !.at = "done"])
  /\ UNCHANGED <<view, expired, staff, memberOk, cookie>>

\* beginImpersonationToken reads the row and the rules again.
Begin(r) ==
  /\ request[r].at = "begin"
  /\ Set(r, IF Open(request[r].token) /\ staff /\ memberOk
            THEN [request[r] EXCEPT !.at = "done"]
            ELSE [request[r] EXCEPT !.at = "done", !.token = Own])
  /\ UNCHANGED <<view, expired, staff, memberOk, cookie>>

\* The page or action itself runs, as the member.
Act(r) ==
  /\ request[r].at = "page"
  /\ Set(r, [request[r] EXCEPT !.at = "done"])
  /\ UNCHANGED <<view, expired, staff, memberOk, cookie>>

-----------------------------------------------------------------------------
(* What others do meanwhile.                                               *)

\* revokeImpersonationSession
RevokeView(v) ==
  /\ view[v] = "open"
  /\ view' = [view EXCEPT ![v] = "ended"]
  /\ UNCHANGED <<expired, staff, memberOk, cookie, request>>

Expire(v) ==
  /\ view[v] # "none" /\ v \notin expired
  /\ expired' = expired \cup {v}
  /\ UNCHANGED <<view, staff, memberOk, cookie, request>>

\* setUserSuspendedChecked closes the sessions of a suspended member.
MemberChanges ==
  /\ memberOk' = ~memberOk
  /\ view' = [v \in Views |-> IF memberOk /\ view[v] = "open" THEN "ended"
                                                             ELSE view[v]]
  /\ UNCHANGED <<expired, staff, cookie, request>>

StaffChanges ==
  /\ staff' = ~staff
  /\ UNCHANGED <<view, expired, memberOk, cookie, request>>

ImpersonationNext ==
  \/ \E r \in Requests :
       \/ \E kind \in {"page", "start", "exit"} : Send(r, kind)
       \/ Respond(r) \/ End(r) \/ Restore(r) \/ Check(r) \/ OwnRequest(r)
       \/ Refuse(r) \/ Begin(r) \/ Act(r)
       \/ \E v \in Views : Create(r, v)
  \/ SignOut \/ MemberChanges \/ StaffChanges
  \/ \E v \in Views : RevokeView(v) \/ Expire(v)

ImpersonationSpec == ImpersonationInit /\ [][ImpersonationNext]_viewVars
-----------------------------------------------------------------------------
(* Properties.                                                             *)

\* A stale cookie "is healed on its very next use": a page or action runs as
\* the member only if the session was still open when its request was sent,
\* although a response that was under way during an exit, a revocation or a
\* suspension puts the old cookie back.
ActsWhileOpen ==
  \A r \in Requests : request[r].at = "page" => request[r].wasOpen

\* Every state is well typed, and nobody acts as a member after the session.
ImpersonationInv == ImpersonationTypeOK /\ ActsWhileOpen
=============================================================================
