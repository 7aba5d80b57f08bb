----------------------------- MODULE RateLimit ------------------------------
(***************************************************************************)
(* The fixed-window counter of one key in Redis (security/rate-limit.ts)   *)
(* under requests that wait at most 250 ms for each command                *)
(* (withRedisTimeout in lib/redis.ts).  A command whose caller gave up may *)
(* still be executed.  A request that gives up is let through.             *)
(***************************************************************************)
EXTENDS Naturals

CONSTANTS
  Attempts,
  Limit      \* options.limit

ASSUME RateLimitAssumption == Limit \in Nat \ {0}

VARIABLES
  count,     \* the key's counter, 0 for no key; values above Limit + 2 are as that
  ttl,       \* does the key expire?
  ready,     \* redisReady()
  attempt,   \* where each request stands, and the count it was answered
  admitted,  \* numbers of this window whose request is let through
  faults     \* did a request give up after Redis was asked?

limitVars == <<count, ttl, ready, attempt, admitted, faults>>

Spare == [at |-> "free", count |-> 0]
At(r, place) == attempt[r].at = place
GoTo(r, place, n) == attempt' = [attempt EXCEPT ![r] = [at |-> place, count |-> n]]

\* Requests that are to set the expiry, or may yet.
Firsts == {r \in Attempts :
  \/ attempt[r].at \in {"expiring", "lateExpire"}
  \/ At(r, "counted") /\ attempt[r].count = 1}

\* Only the first of a window is to set the expiry.
RateLimitTypeOK ==
  /\ count \in 0 .. Limit + 2 /\ ttl \in BOOLEAN /\ ready \in BOOLEAN
  /\ attempt \in [Attempts ->
       [at : {"free", "asked", "counted", "expiring", "lateIncr", "lateExpire"},
        count : 0 .. Limit + 2]]
  /\ admitted \in Nat /\ faults \in BOOLEAN
  /\ ttl => count > 0
  /\ \A r, s \in Firsts : r = s

RateLimitInit ==
  /\ count = 0 /\ ttl = FALSE /\ ready = TRUE
  /\ attempt = [r \in Attempts |-> Spare]
  /\ admitted = 0 /\ faults = FALSE

\* A request asks Redis if the connection is ready, else it is let through.
Ask(r) ==
  /\ attempt[r] = Spare /\ ready
  /\ GoTo(r, "asked", 0)
  /\ UNCHANGED <<count, ttl, ready, admitted, faults>>

\* Which answers are refused.
Refused(n) == n > Limit

\* Redis executes INCR; nobody reads the answer to a late one.
Incr(r) ==
  /\ At(r, "asked") \/ At(r, "lateIncr")
  /\ count' = IF count > Limit + 1 THEN count ELSE count + 1
  /\ IF At(r, "asked")
     THEN /\ GoTo(r, "counted", count')
          /\ admitted' = IF Refused(count') THEN admitted ELSE admitted + 1
     ELSE GoTo(r, "free", 0) /\ UNCHANGED admitted
  /\ UNCHANGED <<ttl, ready, faults>>

\* The first of a window sets the expiry before it goes on; the others are
\* done, let through or refused.
Answer(r) ==
  /\ At(r, "counted")
  /\ IF attempt[r].count = 1 THEN GoTo(r, "expiring", 1) ELSE GoTo(r, "free", 0)
  /\ UNCHANGED <<count, ttl, ready, admitted, faults>>

\* Redis executes EXPIRE (mutant: it only renews an expiry).
SetExpiryIfAny(r) ==
  /\ At(r, "expiring") \/ At(r, "lateExpire")
  /\ GoTo(r, "free", 0)
  /\ UNCHANGED <<count, ttl, ready, admitted, faults>>

SetExpiry(r) ==
  /\ At(r, "expiring") \/ At(r, "lateExpire")
  /\ ttl' = (count > 0)
  /\ GoTo(r, "free", 0)
  /\ UNCHANGED <<count, ready, admitted, faults>>

\* 250 ms have passed: the request fails open.  Its command may be lost or
\* come late; the answer to an INCR that was executed is dropped.
GiveUp(r) ==
  /\ \/ At(r, "asked") /\ \E to \in {"free", "lateIncr"} : GoTo(r, to, 0)
     \/ At(r, "counted") /\ GoTo(r, "free", 0)
     \/ At(r, "expiring") /\ \E to \in {"free", "lateExpire"} : GoTo(r, to, 0)
  /\ faults' = TRUE
  /\ UNCHANGED <<count, ttl, ready, admitted>>

\* A late command is lost with the connection.
Drop(r) ==
  /\ At(r, "lateIncr") \/ At(r, "lateExpire")
  /\ GoTo(r, "free", 0)
  /\ UNCHANGED <<count, ttl, ready, admitted, faults>>

\* The key expires, whatever answers are under way.
WindowEnds ==
  /\ ttl
  /\ count' = 0 /\ ttl' = FALSE /\ admitted' = 0
  /\ UNCHANGED <<ready, attempt, faults>>

Connection == ready' = ~ready /\ UNCHANGED <<count, ttl, attempt, admitted, faults>>

RateLimitNext ==
  \/ \E r \in Attempts :
       \/ Ask(r) \/ Incr(r) \/ Answer(r) \/ SetExpiry(r) \/ GiveUp(r) \/ Drop(r)
  \/ WindowEnds
  \/ Connection

RateLimitSpec == RateLimitInit /\ [][RateLimitNext]_limitVars
-----------------------------------------------------------------------------
\* However many requests race, give up or come late, no window gives more
\* requests than the limit a number that lets them through.
WindowAdmitsLimit == admitted <= Limit

\* Until a request gives up, every key has an expiry or is about to get one.
KeyExpires == count > 0 /\ ~faults => ttl \/ Firsts # {}

\* Every state is well typed, windows admit the limit, and keys expire.
RateLimitInv == RateLimitTypeOK /\ WindowAdmitsLimit /\ KeyExpires

\* rate-limit.ts:27: "Fails OPEN: if Redis is unreachable, the request is
\* allowed rather than blocked — ... a Redis outage should degrade abuse
\* protection, not take down registration/login with it."
OutageBlocksNobodyForGood == count > Limit => ttl \/ Firsts # {}
=============================================================================
