---------------------------- MODULE MemberProofs ----------------------------
(***************************************************************************)
(* What members, sellers and their administrators do, for any number of    *)
(* calls at once: the rate limiter, a seller's payouts, subscriptions to   *)
(* signals, "view as user", the community, and the roles of the staff.     *)
(* The modules share no state; each section has its own invariant.         *)
(***************************************************************************)
EXTENDS RateLimit, SellerPayouts, SignalSubscriptions, Impersonation, Community,
        AdminAccounts, FiniteSetTheorems, TLAPS

(* The rate limiter.                                                        *)

\* While a request is to set the expiry, the key exists and has none: hence the
\* next window starts without such a request, and has one first.  What is
\* admitted was counted.
WindowInv ==
  /\ RateLimitInv
  /\ Firsts # {} => count > 0 /\ ~ttl
  /\ admitted <= count
  /\ \A r \in Attempts : attempt[r].at \in {"lateIncr", "lateExpire"} => faults

Places == {"free", "asked", "counted", "expiring", "lateIncr", "lateExpire"}

\* A request goes to another place: who is to set the expiry changes by it alone.
LEMMA Moves ==
  ASSUME NEW r \in Attempts, NEW p \in Places, NEW n \in 0 .. Limit + 2,
         attempt \in [Attempts -> [at : Places, count : 0 .. Limit + 2]],
         GoTo(r, p, n)
  PROVE  /\ attempt' \in [Attempts -> [at : Places, count : 0 .. Limit + 2]]
         /\ attempt'[r].at = p /\ attempt'[r].count = n
         /\ \A s \in Attempts : s # r => attempt'[s] = attempt[s]
         /\ Firsts' = IF p \in {"expiring", "lateExpire"} \/ (p = "counted" /\ n = 1)
                      THEN Firsts \cup {r} ELSE Firsts \ {r}
<1>1. attempt' \in [Attempts -> [at : Places, count : 0 .. Limit + 2]]
  BY DEF GoTo
<1>2. attempt'[r].at = p /\ attempt'[r].count = n
  BY DEF GoTo
<1>3. \A s \in Attempts : s # r => attempt'[s] = attempt[s]
  BY DEF GoTo
<1> QED
  BY <1>1, <1>2, <1>3 DEF Firsts, At

\* What the invariant says of the numbers, apart from the requests.
LEMMA WindowFacts ==
  ASSUME WindowInv
  PROVE  /\ count \in 0 .. Limit + 2 /\ admitted \in Nat
         /\ admitted <= count /\ admitted <= Limit
         /\ attempt \in [Attempts -> [at : Places, count : 0 .. Limit + 2]]
         /\ \A r, s \in Firsts : r = s
BY DEF WindowInv, RateLimitInv, RateLimitTypeOK, WindowAdmitsLimit, Places

\* The step of one request after which the numbers stand as before.
LEMMA QuietStep ==
  ASSUME WindowInv, NEW r \in Attempts, NEW p \in Places, NEW n \in 0 .. Limit + 2,
         GoTo(r, p, n), UNCHANGED <<count, ttl, ready, admitted>>,
         faults' \in BOOLEAN, faults => faults',
         r \in Firsts \/ (p # "expiring" /\ p # "lateExpire" /\ (p = "counted" => n # 1)),
         ~faults' => (r \in Firsts => r \in Firsts'),
         p \in {"lateIncr", "lateExpire"} => faults'
  PROVE  WindowInv'
<1>1. /\ attempt' \in [Attempts -> [at : Places, count : 0 .. Limit + 2]]
      /\ attempt'[r].at = p
      /\ \A s \in Attempts : s # r => attempt'[s] = attempt[s]
      /\ Firsts' \subseteq Firsts
      /\ ~faults' => Firsts' = Firsts
  <2>1. attempt \in [Attempts -> [at : Places, count : 0 .. Limit + 2]]
    BY WindowFacts
  <2>2. /\ attempt' \in [Attempts -> [at : Places, count : 0 .. Limit + 2]]
        /\ attempt'[r].at = p
        /\ \A s \in Attempts : s # r => attempt'[s] = attempt[s]
    BY <2>1, Moves
  <2>3. Firsts' = IF p \in {"expiring", "lateExpire"} \/ (p = "counted" /\ n = 1)
                  THEN Firsts \cup {r} ELSE Firsts \ {r}
    BY <2>1, Moves
  <2>4. CASE p \in {"expiring", "lateExpire"} \/ (p = "counted" /\ n = 1)
    <3>1. r \in Firsts /\ Firsts' = Firsts \cup {r}
      BY <2>3, <2>4
    <3> QED
      BY <2>2, <3>1
  <2>5. CASE ~(p \in {"expiring", "lateExpire"} \/ (p = "counted" /\ n = 1))
    <3>1. Firsts' = Firsts \ {r}
      BY <2>3, <2>5
    <3>2. ~faults' => r \notin Firsts
      BY <3>1
    <3> QED
      BY <2>2, <3>1, <3>2
  <2> QED
    BY <2>4, <2>5
<1>2. RateLimitTypeOK'
  BY <1>1 DEF WindowInv, RateLimitInv, RateLimitTypeOK, Places
<1>3. WindowAdmitsLimit' /\ (Firsts' # {} => count' > 0 /\ ~ttl')
  BY <1>1 DEF WindowInv, RateLimitInv, WindowAdmitsLimit
<1>4. KeyExpires'
  BY <1>1 DEF WindowInv, RateLimitInv, KeyExpires
<1>5. \A s \in Attempts : attempt'[s].at \in {"lateIncr", "lateExpire"} => faults'
  BY <1>1 DEF WindowInv
<1> QED
  BY <1>2, <1>3, <1>4, <1>5 DEF WindowInv, RateLimitInv

LEMMA WindowStep ==
  ASSUME WindowInv, RateLimitNext
  PROVE  WindowInv'
<1> USE RateLimitAssumption
<1>0. faults \in BOOLEAN /\ Limit \in Nat /\ 0 \in 0 .. Limit + 2 /\ 1 \in 0 .. Limit + 2
  BY DEF WindowInv, RateLimitInv, RateLimitTypeOK
<1>1. ASSUME NEW r \in Attempts, Ask(r) \/ Drop(r) \/ Answer(r) \/ GiveUp(r)
      PROVE  WindowInv'
  <2>1. CASE Ask(r)
    <3>1. GoTo(r, "asked", 0) /\ r \notin Firsts /\ faults' = faults
          /\ UNCHANGED <<count, ttl, ready, admitted>>
      BY <2>1 DEF Ask, Firsts, At, Spare
    <3> QED
      BY <1>0, <3>1, QuietStep DEF Places
  <2>2. CASE Drop(r)
    <3>1. GoTo(r, "free", 0) /\ faults' = faults /\ faults
          /\ UNCHANGED <<count, ttl, ready, admitted>>
      BY <2>2 DEF Drop, At, WindowInv
    <3> QED
      BY <1>0, <3>1, QuietStep DEF Places
  <2>3. CASE Answer(r) /\ attempt[r].count = 1
    <3>1. GoTo(r, "expiring", 1) /\ r \in Firsts /\ faults' = faults
          /\ UNCHANGED <<count, ttl, ready, admitted>>
      BY <2>3 DEF Answer, Firsts, At
    <3>2. r \in Firsts'
      BY <1>0, <3>1, Moves, WindowFacts DEF Places
    <3> QED
      BY <1>0, <3>1, <3>2, QuietStep DEF Places
  <2>4. CASE Answer(r) /\ attempt[r].count # 1
    <3>1. GoTo(r, "free", 0) /\ r \notin Firsts /\ faults' = faults
          /\ UNCHANGED <<count, ttl, ready, admitted>>
      BY <2>4 DEF Answer, Firsts, At
    <3> QED
      BY <1>0, <3>1, QuietStep DEF Places
  <2>5. CASE GiveUp(r)
    <3>1. faults' = TRUE /\ UNCHANGED <<count, ttl, ready, admitted>>
      BY <2>5 DEF GiveUp
    <3>2. CASE \E to \in {"free", "lateIncr"} : GoTo(r, to, 0)
      BY <1>0, <3>1, <3>2, QuietStep DEF Places
    <3>3. CASE GoTo(r, "lateExpire", 0) /\ At(r, "expiring")
      <4>1. r \in Firsts
        BY <3>3 DEF Firsts, At
      <4> QED
        BY <1>0, <3>1, <3>3, <4>1, QuietStep DEF Places
    <3> QED
      BY <2>5, <3>2, <3>3 DEF GiveUp
  <2> QED
    BY <1>1, <2>1, <2>2, <2>3, <2>4, <2>5
<1>2. ASSUME NEW r \in Attempts, Incr(r)
      PROVE  WindowInv'
  <2>1. PICK n \in 1 .. Limit + 2 :
          n = count' /\ (n = 1 => count = 0) /\ (count = 0 => n = 1) /\ n >= count
    BY <1>2, WindowFacts DEF Incr
  <2>2. r \notin Firsts /\ ready' = ready /\ ttl' = ttl /\ faults' = faults
    BY <1>2 DEF Incr, Firsts, At
  <2>3. attempt \in [Attempts -> [at : Places, count : 0 .. Limit + 2]]
    BY WindowFacts
  <2>4. /\ attempt' \in [Attempts -> [at : Places, count : 0 .. Limit + 2]]
        /\ attempt'[r].at \in {"counted", "free"}
        /\ \A s \in Attempts : s # r => attempt'[s] = attempt[s]
        /\ Firsts' = IF At(r, "asked") /\ n = 1 THEN Firsts \cup {r} ELSE Firsts
    <3>1. CASE At(r, "asked")
      <4>1. GoTo(r, "counted", n)
        BY <1>2, <2>1, <3>1 DEF Incr
      <4>2. "counted" \in Places /\ n \in 0 .. Limit + 2
        BY <1>0 DEF Places
      <4>3. Firsts' = IF n = 1 THEN Firsts \cup {r} ELSE Firsts \ {r}
        BY <2>3, <4>1, <4>2, Moves
      <4>4. Firsts \ {r} = Firsts
        BY <2>2
      <4>5. /\ attempt' \in [Attempts -> [at : Places, count : 0 .. Limit + 2]]
            /\ attempt'[r].at = "counted"
            /\ \A s \in Attempts : s # r => attempt'[s] = attempt[s]
        BY <2>3, <4>1, <4>2, Moves
      <4> QED
        BY <3>1, <4>3, <4>4, <4>5
    <3>2. CASE ~At(r, "asked")
      <4>1. GoTo(r, "free", 0) /\ "free" \in Places
        BY <1>2, <3>2 DEF Incr, Places
      <4>2. Firsts' = Firsts \ {r}
        BY <1>0, <2>3, <4>1, Moves
      <4>3. Firsts \ {r} = Firsts
        BY <2>2
      <4>4. /\ attempt' \in [Attempts -> [at : Places, count : 0 .. Limit + 2]]
            /\ attempt'[r].at = "free"
            /\ \A s \in Attempts : s # r => attempt'[s] = attempt[s]
        BY <1>0, <2>3, <4>1, Moves
      <4> QED
        BY <3>2, <4>2, <4>3, <4>4
    <3> QED
      BY <3>1, <3>2
  <2>5. \A s \in Attempts : attempt'[s].at \in {"lateIncr", "lateExpire"} => faults'
    BY <2>2, <2>4 DEF WindowInv
  <2>6. count = 0 => Firsts = {} /\ ~ttl
    BY <1>0, WindowFacts DEF WindowInv, RateLimitInv, RateLimitTypeOK
  <2>7. (Firsts' # {} => count' > 0 /\ ~ttl') /\ (\A s, t \in Firsts' : s = t)
    BY <1>0, <2>1, <2>2, <2>4, <2>6, WindowFacts DEF WindowInv
  <2>8. KeyExpires'
    <3>1. ~At(r, "asked") => faults
      BY <1>2 DEF Incr, At, WindowInv
    <3> QED
      BY <1>0, <2>1, <2>2, <2>4, <3>1, WindowFacts
      DEF WindowInv, RateLimitInv, KeyExpires
  <2>9. admitted' <= count' /\ admitted' <= Limit /\ admitted' \in Nat
    <3>1. count \in 0 .. Limit + 2 /\ admitted \in Nat
          /\ admitted <= count /\ admitted <= Limit
      BY WindowFacts
    <3>2. CASE admitted' = admitted
      BY <1>0, <2>1, <3>1, <3>2
    <3>3. CASE n <= Limit /\ admitted' = admitted + 1
      <4>1. n = count + 1
        BY <1>0, <1>2, <2>1, <3>1, <3>3 DEF Incr
      <4> QED
        BY <1>0, <2>1, <3>1, <3>3, <4>1
    <3> QED
      BY <1>0, <1>2, <2>1, <3>2, <3>3 DEF Incr, Refused
  <2>10. RateLimitTypeOK'
    BY <1>0, <2>1, <2>2, <2>4, <2>7, <2>9
    DEF WindowInv, RateLimitInv, RateLimitTypeOK, Places
  <2> QED
    BY <2>5, <2>7, <2>8, <2>9, <2>10 DEF WindowInv, RateLimitInv, WindowAdmitsLimit
<1>3. ASSUME NEW r \in Attempts, SetExpiry(r)
      PROVE  WindowInv'
  <2>1. GoTo(r, "free", 0) /\ r \in Firsts /\ count' = count /\ ttl' = (count > 0)
        /\ ready' = ready /\ admitted' = admitted /\ faults' = faults
    BY <1>3 DEF SetExpiry, Firsts, At
  <2>2. /\ attempt' \in [Attempts -> [at : Places, count : 0 .. Limit + 2]]
        /\ attempt'[r].at = "free"
        /\ \A s \in Attempts : s # r => attempt'[s] = attempt[s]
        /\ Firsts' = Firsts \ {r}
    BY <1>0, <2>1, WindowFacts, Moves DEF Places
  <2>3. Firsts' = {}
    BY <2>1, <2>2, WindowFacts
  <2>4. count \in 0 .. Limit + 2 /\ count > 0
    BY <2>1, WindowFacts DEF WindowInv
  <2>5. RateLimitTypeOK'
    BY <1>0, <2>1, <2>2, <2>3, <2>4 DEF WindowInv, RateLimitInv, RateLimitTypeOK, Places
  <2>6. KeyExpires' /\ WindowAdmitsLimit'
    BY <2>1, <2>4 DEF WindowInv, RateLimitInv, KeyExpires, WindowAdmitsLimit
  <2>7. \A s \in Attempts : attempt'[s].at \in {"lateIncr", "lateExpire"} => faults'
    BY <2>1, <2>2 DEF WindowInv
  <2> QED
    BY <2>1, <2>3, <2>5, <2>6, <2>7 DEF WindowInv, RateLimitInv
<1>4. CASE WindowEnds
  <2>1. Firsts = {} /\ Firsts' = Firsts
    BY <1>4, WindowFacts DEF WindowEnds, WindowInv, Firsts, At
  <2>2. RateLimitTypeOK'
    BY <1>0, <1>4, <2>1 DEF WindowEnds, WindowInv, RateLimitInv, RateLimitTypeOK
  <2> QED
    BY <1>0, <1>4, <2>1, <2>2
    DEF WindowEnds, WindowInv, RateLimitInv, WindowAdmitsLimit, KeyExpires
<1>5. CASE Connection
  <2>1. Firsts' = Firsts
    BY <1>5 DEF Connection, Firsts, At
  <2>2. RateLimitTypeOK'
    BY <1>0, <1>5, <2>1 DEF Connection, WindowInv, RateLimitInv, RateLimitTypeOK
  <2> QED
    BY <1>0, <1>5, <2>1, <2>2
    DEF Connection, WindowInv, RateLimitInv, WindowAdmitsLimit, KeyExpires
<1> QED
  BY <1>1, <1>2, <1>3, <1>4, <1>5 DEF RateLimitNext

\* Windows admit the limit, whatever answers come late or never, and until a
\* request gives up every key has an expiry or is about to get one.
THEOREM WindowsHold == RateLimitSpec => []RateLimitInv
<1>1. ASSUME RateLimitInit
      PROVE  WindowInv
  <2>1. Firsts = {}
    BY <1>1 DEF RateLimitInit, Firsts, At, Spare
  <2>2. RateLimitTypeOK
    <3>1. Limit \in Nat /\ 0 \in 0 .. Limit + 2
      BY RateLimitAssumption
    <3>2. Spare \in [at : {"free", "asked", "counted", "expiring", "lateIncr",
                           "lateExpire"}, count : 0 .. Limit + 2]
      BY <3>1 DEF Spare
    <3>3. attempt = [r \in Attempts |-> Spare]
      BY <1>1 DEF RateLimitInit
    <3>4. count = 0 /\ ttl = FALSE /\ ready = TRUE /\ admitted = 0 /\ faults = FALSE
      BY <1>1 DEF RateLimitInit
    <3>5. ttl \in BOOLEAN /\ ready \in BOOLEAN /\ faults \in BOOLEAN
      BY <3>4
    <3> QED
      BY <2>1, <3>1, <3>2, <3>3, <3>4, <3>5 DEF RateLimitTypeOK
  <2>3. \A r \in Attempts : attempt[r].at = "free"
    BY <1>1 DEF RateLimitInit, Spare
  <2>4. WindowAdmitsLimit /\ KeyExpires /\ admitted <= count
    BY <1>1, RateLimitAssumption DEF RateLimitInit, WindowAdmitsLimit, KeyExpires
  <2> QED
    BY <2>1, <2>2, <2>3, <2>4 DEF WindowInv, RateLimitInv
<1>2. WindowInv /\ [RateLimitNext]_limitVars => WindowInv'
  <2>1. ASSUME WindowInv, UNCHANGED limitVars
        PROVE  WindowInv'
    BY <2>1 DEF WindowInv, limitVars, RateLimitInv, RateLimitTypeOK, WindowAdmitsLimit,
         KeyExpires, Firsts, At
  <2> QED
    BY <2>1, WindowStep
<1>3. WindowInv => RateLimitInv
  BY DEF WindowInv
<1> QED
  BY <1>1, <1>2, <1>3, PTL DEF RateLimitSpec
-----------------------------------------------------------------------------
(* A seller's payouts.                                                      *)

\* A session that works on a payout alone has found it open, and it still is:
\* nobody else has touched it.  Any session's payout has been created.
JobsInv ==
  /\ PayoutInv
  /\ \A a \in PayoutAdmins : job[a] # "idle" <=> jobOn[a] # NoCall
  /\ \A c \in PayoutCalls, a \in PayoutAdmins : jobOn[a] = c =>
       payoutStatus[c] \in {"PENDING"} \cup Targets
  /\ \A c \in PayoutCalls \ contested, a \in PayoutAdmins : jobOn[a] = c =>
       /\ payoutStatus[c] \in {"PENDING", "PROCESSING"}
       /\ \A b \in PayoutAdmins : jobOn[b] = c => b = a

LEMMA JobsStep ==
  ASSUME JobsInv, PayoutNext
  PROVE  JobsInv'
<1> USE PayoutsAssumption
    DEF JobsInv, PayoutInv, PayoutTypeOK, DebitedOncePaid, Targets, Statuses,
        requestVars, adminVars
<1>1. ASSUME NEW n \in Credits, Sell(n)
      PROVE  JobsInv'
  BY <1>1 DEF Sell
<1>2. ASSUME NEW c \in PayoutCalls, ReadBalance(c) \/ ReadInProgress(c) \/ CreatePayout(c)
      PROVE  JobsInv'
  BY <1>2 DEF ReadBalance, ReadInProgress, CreatePayout
<1>3. ASSUME NEW a \in PayoutAdmins, NEW c \in PayoutCalls, NEW to \in Targets,
             OpenPayout(a, c, to)
      PROVE  JobsInv'
  <2>1. PayoutTypeOK' /\ contested \subseteq contested'
    BY <1>3 DEF OpenPayout
  <2>2. DebitedOncePaid'
    BY <1>3, <2>1 DEF OpenPayout
  <2>3. payoutStatus[c] \in {"PENDING", "PROCESSING"}
    BY <1>3 DEF OpenPayout, CanTransition
  <2>4. job'[a] = to /\ jobOn'[a] = c /\ payoutStatus' = payoutStatus
        /\ \A b \in PayoutAdmins : b # a => job'[b] = job[b] /\ jobOn'[b] = jobOn[b]
    BY <1>3 DEF OpenPayout
  <2>5. c \notin contested' => \A b \in PayoutAdmins : jobOn[b] # c
    BY <1>3 DEF OpenPayout
  <2>6. \A b \in PayoutAdmins : job'[b] # "idle" <=> jobOn'[b] # NoCall
    BY <2>4
  <2>7. \A d \in PayoutCalls, b \in PayoutAdmins : jobOn'[b] = d =>
          payoutStatus'[d] \in {"PENDING"} \cup Targets
    BY <2>3, <2>4
  <2>8. \A d \in PayoutCalls \ contested', b \in PayoutAdmins : jobOn'[b] = d =>
          /\ payoutStatus'[d] \in {"PENDING", "PROCESSING"}
          /\ \A e \in PayoutAdmins : jobOn'[e] = d => e = b
    BY <2>1, <2>3, <2>4, <2>5
  <2> QED
    BY <2>1, <2>2, <2>6, <2>7, <2>8
<1>4. ASSUME NEW a \in PayoutAdmins, UpdatePayout(a)
      PROVE  JobsInv'
  <2>1. PICK c \in PayoutCalls : c = jobOn[a]
    BY <1>4 DEF UpdatePayout
  <2>2. job[a] \in Targets /\ c # NoCall
    BY <1>4, <2>1 DEF UpdatePayout
  <2>3. /\ payoutStatus' = [payoutStatus EXCEPT ![c] = job[a]]
        /\ amount' = amount /\ sawProgress' = sawProgress /\ credited' = credited
        /\ contested' = contested
        /\ job' = [job EXCEPT ![a] = "idle"] /\ jobOn' = [jobOn EXCEPT ![a] = NoCall]
    BY <1>4, <2>1 DEF UpdatePayout
  <2>4. \/ /\ job[a] = "PAID"
           /\ entries' = [entries EXCEPT ![c] = @ + 1] /\ balance' = balance - amount[c]
        \/ job[a] # "PAID" /\ entries' = entries /\ balance' = balance
    BY <1>4, <2>1 DEF UpdatePayout
  <2>5. balance' \in Int /\ entries' \in [PayoutCalls -> Nat]
    BY <2>4
  <2>6. payoutStatus[c] \in {"PENDING"} \cup Targets
    BY <2>1
  <2>7. PayoutTypeOK'
    BY <2>2, <2>3, <2>5, <2>6
  <2>8. DebitedOncePaid'
    <3>1. c \notin contested => entries[c] = 0
      BY <2>1, <2>2
    <3>2. c \notin contested =>
            entries'[c] = IF payoutStatus'[c] = "PAID" THEN 1 ELSE 0
      BY <2>2, <2>3, <2>4, <3>1
    <3>3. \A d \in PayoutCalls : d # c =>
            entries'[d] = entries[d] /\ payoutStatus'[d] = payoutStatus[d]
      BY <2>3, <2>4
    <3> QED
      BY <2>3, <3>2, <3>3
  <2>9. \A b \in PayoutAdmins : job'[b] # "idle" <=> jobOn'[b] # NoCall
    BY <2>3
  <2>10. \A d \in PayoutCalls, b \in PayoutAdmins : jobOn'[b] = d =>
           payoutStatus'[d] \in {"PENDING"} \cup Targets
    BY <2>2, <2>3
  <2>11. \A d \in PayoutCalls \ contested', b \in PayoutAdmins : jobOn'[b] = d =>
           /\ payoutStatus'[d] \in {"PENDING", "PROCESSING"}
           /\ \A e \in PayoutAdmins : jobOn'[e] = d => e = b
    <3> SUFFICES ASSUME NEW d \in PayoutCalls \ contested', NEW b \in PayoutAdmins,
                        jobOn'[b] = d
                 PROVE  /\ payoutStatus'[d] \in {"PENDING", "PROCESSING"}
                        /\ \A e \in PayoutAdmins : jobOn'[e] = d => e = b
      OBVIOUS
    <3>1. b # a /\ jobOn[b] = d /\ d \in PayoutCalls \ contested
      BY <2>3
    <3>2. d # c
      BY <2>1, <3>1
    <3> QED
      BY <2>3, <3>1, <3>2
  <2> QED
    BY <2>7, <2>8, <2>9, <2>10, <2>11
<1>5. ASSUME NEW a \in PayoutAdmins, AdminDies(a)
      PROVE  JobsInv'
  BY <1>5 DEF AdminDies
<1> HIDE DEF JobsInv, PayoutInv, PayoutTypeOK, DebitedOncePaid
<1> QED
  BY <1>1, <1>2, <1>3, <1>4, <1>5 DEF PayoutNext

\* The ledger is debited once for each payout that was paid and never for one
\* that was not, unless two sessions worked on that payout at once.
THEOREM PayoutsDebited == PayoutSpec => []PayoutInv
<1>1. PayoutInit => JobsInv
  BY PayoutsAssumption
  DEF PayoutInit, JobsInv, PayoutInv, PayoutTypeOK, DebitedOncePaid, Targets, Statuses
<1>2. JobsInv /\ [PayoutNext]_sellerVars => JobsInv'
  <2>1. ASSUME JobsInv, UNCHANGED sellerVars
        PROVE  JobsInv'
    BY <2>1 DEF JobsInv, sellerVars, requestVars, adminVars, PayoutInv, PayoutTypeOK,
         DebitedOncePaid
  <2> QED
    BY <2>1, JobsStep
<1>3. JobsInv => PayoutInv
  BY DEF JobsInv
<1> QED
  BY <1>1, <1>2, <1>3, PTL DEF PayoutSpec
-----------------------------------------------------------------------------
(* Subscriptions to signal providers.                                       *)

\* Where a subscription call can stand, and what it has seen.
Seen == [status : {"none", "PAUSED", "CANCELED", "ACTIVE"},
         by : SubscribeCalls \cup {"none"}]
CallForms == {NotCalled, [at |-> "done"]}
             \cup [at : {"charge", "activate"}, of : Providers, sees : Seen]

\* A call that is to activate a row has captured its charge, or there is none;
\* a row there is was activated by such a call, whatever became of it since.  A
\* call that saw no row saw none activated, and one that saw an ACTIVE row has
\* not gone on.
PaidInv ==
  /\ SubscriptionInv
  /\ subCall \in [SubscribeCalls -> CallForms]
  /\ \A c \in SubscribeCalls : subCall[c].at = "activate" =>
       subCall[c].of \in Free \/ c \in charged
  /\ \A c \in SubscribeCalls : subCall[c].at \in {"charge", "activate"} =>
       /\ subCall[c].sees.status # "ACTIVE"
       /\ subCall[c].sees.status = "none" => subCall[c].sees.by = "none"
  /\ \A p \in Providers : renewedBy[p] # "none" =>
       sub[p] # "none" /\ (p \in Free \/ renewedBy[p] \in charged)

\* What the form of a call says of its fields.
LEMMA Forms ==
  ASSUME NEW f \in CallForms
  PROVE  /\ f.at \in {"idle", "done", "charge", "activate"}
         /\ f.at \in {"charge", "activate"} =>
              /\ f.of \in Providers /\ f.sees \in Seen
              /\ f \in [at : {"charge", "activate"}, of : Providers, sees : Seen]
BY DEF CallForms, NotCalled

LEMMA PaidStep ==
  ASSUME PaidInv, SubscriptionsNext
  PROVE  PaidInv'
<1> USE SubscriptionAssumption
    DEF PaidInv, SubscriptionInv, SubscriptionTypeOK, ActiveWasCharged, SubStatus, Becomes
<1>1. ASSUME NEW c \in SubscribeCalls, NEW p \in Providers, ReadSubscription(c, p)
      PROVE  PaidInv'
  <2> DEFINE new == [at |-> IF p \in Free THEN "activate" ELSE "charge", of |-> p,
                     sees |-> [status |-> sub[p], by |-> renewedBy[p]]]
  <2>1. subCall' = [subCall EXCEPT ![c] = new] /\ sub[p] # "ACTIVE"
        /\ sub' = sub /\ charged' = charged /\ renewedBy' = renewedBy
    BY <1>1 DEF ReadSubscription, MaySubscribe
  <2>2. new \in CallForms
    BY DEF CallForms, Seen
  <2>3. /\ new.at = "activate" => new.of \in Free
        /\ new.sees.status # "ACTIVE"
        /\ new.sees.status = "none" => new.sees.by = "none"
    BY <2>1
  <2> QED
    BY <2>1, <2>2, <2>3
<1>2. ASSUME NEW c \in SubscribeCalls, Charge(c)
      PROVE  PaidInv'
  <2>1. subCall[c] \in [at : {"charge", "activate"}, of : Providers, sees : Seen]
    BY <1>2, Forms DEF Charge
  <2> DEFINE paid == [subCall[c] EXCEPT !.at = "activate"]
  <2>2. /\ paid \in CallForms /\ paid.at = "activate"
        /\ paid.of = subCall[c].of /\ paid.sees = subCall[c].sees
    BY <2>1 DEF CallForms
  <2>3. [at |-> "done"] \in CallForms
    BY DEF CallForms
  <2>4. CASE charged' = charged \cup {c} /\ subCall' = [subCall EXCEPT ![c] = paid]
    BY <1>2, <2>2, <2>4 DEF Charge
  <2>5. CASE charged' = charged /\ subCall' = [subCall EXCEPT ![c] = [at |-> "done"]]
    BY <1>2, <2>3, <2>5 DEF Charge
  <2> QED
    BY <1>2, <2>4, <2>5 DEF Charge
<1>3. ASSUME NEW c \in SubscribeCalls, Activate(c) \/ Lost(c)
      PROVE  PaidInv'
  <2>1. [at |-> "done"] \in CallForms
    BY DEF CallForms
  <2>2. subCall[c].of \in Providers /\ subCall[c].at = "activate"
    BY <1>3, Forms DEF Activate, Lost
  <2> QED
    BY <1>3, <2>1, <2>2 DEF Activate, Lost
<1>4. ASSUME NEW p \in Providers, Cancel(p) \/ Pause(p) \/ Resume(p)
      PROVE  PaidInv'
  BY <1>4 DEF Cancel, Pause, Resume, Resumable
<1> HIDE DEF PaidInv
<1> QED
  BY <1>1, <1>2, <1>3, <1>4 DEF SubscriptionsNext

LEMMA PaidInvariant == SubscriptionsSpec => []PaidInv
<1>1. SubscriptionsInit => PaidInv
  BY DEF SubscriptionsInit, PaidInv, SubscriptionInv, SubscriptionTypeOK,
     ActiveWasCharged, SubStatus, CallForms, NotCalled
<1>2. PaidInv /\ [SubscriptionsNext]_signalVars => PaidInv'
  <2>1. ASSUME PaidInv, UNCHANGED signalVars
        PROVE  PaidInv'
    BY <2>1 DEF PaidInv, signalVars, SubscriptionInv, SubscriptionTypeOK,
         ActiveWasCharged
  <2> QED
    BY <2>1, PaidStep
<1> QED
  BY <1>1, <1>2, PTL DEF SubscriptionsSpec

\* An ACTIVE subscription of a provider that charges was paid for by the call
\* that last activated it, however the member pauses, resumes and cancels.
THEOREM SubscriptionsPaid == SubscriptionsSpec => []SubscriptionInv
<1>1. PaidInv => SubscriptionInv
  BY DEF PaidInv
<1> QED
  BY <1>1, PaidInvariant, PTL

\* A member is charged for an ACTIVE subscription only by a call that overlaps
\* another, or that saw a paused or cancelled row.
THEOREM ChargesOverlap == SubscriptionsSpec => ChargedTwiceNeedsOverlap
<1> DEFINE Overlap == \A c \in charged' \ charged :
      LET p == subCall[c].of
          sees == subCall[c].sees
      IN  sub[p] = "ACTIVE" =>
            renewedBy[p] # sees.by \/ sees.status \in {"PAUSED", "CANCELED"}
<1>1. ASSUME PaidInv, SubscriptionsNext, NEW c \in charged' \ charged
      PROVE  /\ c \in SubscribeCalls /\ subCall[c].at = "charge"
  <2>1. PICK d \in SubscribeCalls : Charge(d)
    BY <1>1 DEF SubscriptionsNext, ReadSubscription, Charge, Activate, Lost, Cancel,
         Pause, Resume
  <2> QED
    BY <1>1, <2>1 DEF Charge
<1>2. ASSUME PaidInv, SubscriptionsNext
      PROVE  Overlap
  <2> SUFFICES ASSUME NEW c \in charged' \ charged, sub[subCall[c].of] = "ACTIVE"
               PROVE  \/ renewedBy[subCall[c].of] # subCall[c].sees.by
                      \/ subCall[c].sees.status \in {"PAUSED", "CANCELED"}
    OBVIOUS
  <2>1. c \in SubscribeCalls /\ subCall[c].at = "charge"
    BY <1>1, <1>2
  <2>2. subCall[c].of \in Providers /\ subCall[c].sees \in Seen
    BY <1>2, <2>1, Forms DEF PaidInv
  <2>3. renewedBy[subCall[c].of] # "none"
    BY <1>2, <2>2 DEF PaidInv, SubscriptionInv, SubscriptionTypeOK
  <2>4. subCall[c].sees.status \in {"none", "PAUSED", "CANCELED"}
    BY <1>2, <2>1, <2>2 DEF PaidInv, Seen
  <2> QED
    BY <1>2, <2>1, <2>3, <2>4 DEF PaidInv
<1>3. UNCHANGED signalVars => Overlap
  BY DEF signalVars
<1>4. PaidInv /\ [SubscriptionsNext]_signalVars => Overlap
  BY <1>2, <1>3
<1> QED
  BY <1>4, PaidInvariant, PTL DEF SubscriptionsSpec, ChargedTwiceNeedsOverlap
-----------------------------------------------------------------------------
(* "View as user".                                                          *)

Cookies == Views \cup {Own, SignedOut}
InFlight == [at : {"jwt", "end", "restore", "done", "page", "start", "begin"},
             kind : {"page", "start", "exit"}, token : Cookies, wasOpen : BOOLEAN]

\* What a session that is shown anywhere, in the browser or under way, has: a
\* row.  A session that is open now was open when any request that still
\* carries it was sent, for no row is opened twice.
HealedInv ==
  /\ ImpersonationInv
  /\ request \in [Requests -> {NoRequest} \cup InFlight]
  /\ cookie \in Views => view[cookie] # "none"
  /\ \A r \in Requests, v \in Views :
       request[r].at = "jwt" /\ request[r].token = v /\ Open(v) => request[r].wasOpen
  /\ \A r \in Requests : request[r].at \in {"end", "begin"} =>
       request[r].token \in Views

\* A request that is under way has every field.
LEMMA UnderWay ==
  ASSUME NEW f \in {NoRequest} \cup InFlight, f.at # "idle"
  PROVE  f \in InFlight /\ f # NoRequest
BY DEF NoRequest

\* One request moves on, nobody's session is opened or begun by it, and every
\* row it carries is there.
LEMMA MovesOn ==
  ASSUME HealedInv, NEW r \in Requests, NEW new \in {NoRequest} \cup InFlight,
         Set(r, new),
         UNCHANGED expired, staff' \in BOOLEAN, memberOk' \in BOOLEAN,
         view' \in [Views -> {"none", "open", "ended"}],
         cookie' \in Cookies,
         cookie' \in Views => view'[cookie'] # "none",
         \A v \in Views : view'[v] = "none" => view[v] = "none",
         \A s \in Requests \ {r}, v \in Views :
           request[s].at = "jwt" /\ request[s].token = v /\ Open(v)' => Open(v),
         new # NoRequest /\ new.token \in Views => view'[new.token] # "none",
         \A v \in Views : new.at = "jwt" /\ new.token = v /\ Open(v)' => new.wasOpen,
         new.at = "page" => new.wasOpen,
         new.at \in {"end", "begin"} => new.token \in Views
  PROVE  HealedInv'
<1> USE DEF HealedInv, ImpersonationInv
<1>1. request' = [request EXCEPT ![r] = new]
  BY DEF Set
<1>2. request' \in [Requests -> {NoRequest} \cup InFlight]
  BY <1>1
<1>3. /\ request'[r] = new
      /\ \A s \in Requests : s # r => request'[s] = request[s]
  BY <1>1
<1>4. ImpersonationTypeOK'
  <2>1. \A s \in Requests : request'[s] # NoRequest =>
          /\ request'[s].token \in Cookies
          /\ request'[s].token \in Views => view'[request'[s].token] # "none"
    <3>1. new # NoRequest => new.token \in Cookies
      BY DEF InFlight
    <3>2. \A s \in Requests : request[s] # NoRequest =>
            /\ request[s].token \in Cookies
            /\ request[s].token \in Views => view[request[s].token] # "none"
      BY DEF ImpersonationTypeOK, Idle, Cookies
    <3> QED
      BY <1>3, <3>1, <3>2
  <2> QED
    BY <2>1 DEF ImpersonationTypeOK, Idle, Cookies
<1>5. ActsWhileOpen'
  BY <1>3 DEF ActsWhileOpen
<1>6. \A s \in Requests, v \in Views :
        request'[s].at = "jwt" /\ request'[s].token = v /\ Open(v)' => request'[s].wasOpen
  BY <1>3
<1>7. \A s \in Requests : request'[s].at \in {"end", "begin"} =>
        request'[s].token \in Views
  BY <1>3
<1> QED
  BY <1>2, <1>4, <1>5, <1>6, <1>7

\* The same for a step of the request alone.
LEMMA MovesAlone ==
  ASSUME HealedInv, NEW r \in Requests, NEW new \in InFlight,
         Set(r, new),
         UNCHANGED <<view, expired, staff, memberOk, cookie>>,
         new.token \in Views => view[new.token] # "none",
         \A v \in Views : new.at = "jwt" /\ new.token = v /\ Open(v) => new.wasOpen,
         new.at = "page" => new.wasOpen,
         new.at \in {"end", "begin"} => new.token \in Views
  PROVE  HealedInv'
<1>1. /\ view \in [Views -> {"none", "open", "ended"}]
      /\ staff \in BOOLEAN /\ memberOk \in BOOLEAN /\ cookie \in Cookies
      /\ cookie \in Views => view[cookie] # "none"
  BY DEF HealedInv, ImpersonationInv, ImpersonationTypeOK, Cookies
<1>2. \A v \in Views : Open(v)' = Open(v)
  BY DEF Open
<1> QED
  BY <1>1, <1>2, MovesOn

\* Sessions close, and the browser shows at most what it may: no request moves.
LEMMA ViewsClose ==
  ASSUME HealedInv, UNCHANGED request, expired \subseteq expired',
         expired' \subseteq Views, staff' \in BOOLEAN, memberOk' \in BOOLEAN,
         view' \in [Views -> {"none", "open", "ended"}],
         cookie' \in Cookies,
         cookie' \in Views => view'[cookie'] # "none",
         \A v \in Views : /\ view'[v] = "none" => view[v] = "none"
                          /\ view'[v] = "open" => view[v] = "open"
  PROVE  HealedInv'
<1> USE DEF HealedInv, ImpersonationInv
<1>1. ImpersonationTypeOK'
  BY DEF ImpersonationTypeOK, Idle, Cookies
<1>2. ActsWhileOpen'
  BY DEF ActsWhileOpen
<1>3. \A v \in Views : Open(v)' => Open(v)
  BY DEF Open
<1> QED
  BY <1>1, <1>2, <1>3

LEMMA HealedStep ==
  ASSUME HealedInv, ImpersonationNext
  PROVE  HealedInv'
<1> USE ImpersonationAssumption
<1>0. /\ view \in [Views -> {"none", "open", "ended"}] /\ expired \subseteq Views
      /\ staff \in BOOLEAN /\ memberOk \in BOOLEAN /\ cookie \in Cookies
      /\ cookie \in Views => view[cookie] # "none"
  BY DEF HealedInv, ImpersonationInv, ImpersonationTypeOK, Cookies
<1>1. \A r \in Requests : request[r].at # "idle" =>
        /\ request[r] \in InFlight
        /\ request[r].token \in Cookies /\ request[r].kind \in {"page", "start", "exit"}
        /\ request[r].wasOpen \in BOOLEAN
        /\ request[r].token \in Views => view[request[r].token] # "none"
  <2>1. \A r \in Requests : request[r].at # "idle" =>
          request[r] \in InFlight /\ request[r] # NoRequest
    BY UnderWay DEF HealedInv
  <2> QED
    BY <2>1 DEF HealedInv, ImpersonationInv, ImpersonationTypeOK, Idle, Cookies, InFlight
<1>2. ASSUME NEW r \in Requests, NEW kind \in {"page", "start", "exit"}, Send(r, kind)
      PROVE  HealedInv'
  <2> DEFINE new == [at |-> "jwt", kind |-> kind, token |-> cookie,
                     wasOpen |-> cookie \in Views /\ Open(cookie)]
  <2>1. Set(r, new) /\ UNCHANGED <<view, expired, staff, memberOk, cookie>>
    BY <1>2 DEF Send
  <2>2. new \in InFlight
    BY <1>0 DEF InFlight
  <2>3. new.token = cookie /\ new.at = "jwt"
        /\ \A v \in Views : cookie = v /\ Open(v) => new.wasOpen
    OBVIOUS
  <2> HIDE DEF new
  <2> QED
    BY <1>0, <2>1, <2>2, <2>3, MovesAlone
<1>3. ASSUME NEW r \in Requests, Respond(r)
      PROVE  HealedInv'
  <2>1. /\ Set(r, NoRequest) /\ cookie' = request[r].token
        /\ UNCHANGED <<view, expired, staff, memberOk>> /\ request[r].at # "idle"
    BY <1>3 DEF Respond
  <2>2. cookie' \in Cookies /\ (cookie' \in Views => view'[cookie'] # "none")
    BY <1>1, <2>1
  <2>3. \A v \in Views : Open(v)' = Open(v)
    BY <2>1 DEF Open
  <2>4. NoRequest.at = "idle"
    BY DEF NoRequest
  <2> QED
    BY <1>0, <2>1, <2>2, <2>3, <2>4, MovesOn
<1>4. ASSUME NEW r \in Requests, End(r)
      PROVE  HealedInv'
  <2> DEFINE new == [request[r] EXCEPT !.at = "restore"]
  <2>1. /\ Set(r, new) /\ request[r].at = "end"
        /\ view' = [view EXCEPT ![request[r].token] = "ended"]
        /\ UNCHANGED <<expired, staff, memberOk, cookie>>
    BY <1>4 DEF End
  <2>2. new \in InFlight /\ new.at = "restore" /\ new.token = request[r].token
    BY <1>1, <2>1 DEF InFlight
  <2>3. request[r].token \in Views
    BY <2>1 DEF HealedInv
  <2>4. /\ view' \in [Views -> {"none", "open", "ended"}]
        /\ \A v \in Views : /\ view'[v] = "none" => view[v] = "none"
                            /\ Open(v)' => Open(v)
    BY <1>0, <2>1, <2>3 DEF Open
  <2>5. cookie' \in Cookies /\ (cookie' \in Views => view'[cookie'] # "none")
    BY <1>0, <2>1, <2>4
  <2>6. new # NoRequest /\ new.token \in Views => view'[new.token] # "none"
    BY <2>1, <2>2, <1>0
  <2>7. \A v \in Views : Open(v)' => Open(v)
    BY <2>4
  <2>8. /\ expired' = expired /\ staff' \in BOOLEAN /\ memberOk' \in BOOLEAN
        /\ new \in {NoRequest} \cup InFlight /\ Set(r, new)
        /\ \A v \in Views : view'[v] = "none" => view[v] = "none"
        /\ view' \in [Views -> {"none", "open", "ended"}]
    BY <1>0, <2>1, <2>2, <2>4
  <2> HIDE DEF new
  <2> QED
    BY <2>2, <2>5, <2>6, <2>7, <2>8, MovesOn
<1>5. ASSUME NEW r \in Requests, Restore(r)
      PROVE  HealedInv'
  <2> DEFINE new == [request[r] EXCEPT !.at = "done",
                       !.token = IF staff THEN Own ELSE SignedOut]
  <2>1. /\ Set(r, new) /\ request[r].at = "restore"
        /\ UNCHANGED <<view, expired, staff, memberOk, cookie>>
    BY <1>5 DEF Restore
  <2>2. new \in InFlight /\ new.at = "done" /\ new.token \in {Own, SignedOut}
    BY <1>1, <2>1 DEF InFlight, Cookies
  <2>3. new.token \in Views => view[new.token] # "none"
    BY <2>2
  <2> HIDE DEF new
  <2> QED
    BY <2>1, <2>2, <2>3, MovesAlone
<1>6. ASSUME NEW r \in Requests, Check(r)
      PROVE  HealedInv'
  <2>1. /\ request[r].at = "jwt" /\ request[r].token \in Views
        /\ UNCHANGED <<view, expired, staff, memberOk, cookie>>
    BY <1>6 DEF Check
  <2>2. PICK place \in {"end", "page"} :
          /\ Set(r, [request[r] EXCEPT !.at = place])
          /\ place = "page" => Open(request[r].token)
    <3>1. CASE Set(r, [request[r] EXCEPT !.at =
                 IF request[r].kind = "exit" \/ ~Open(request[r].token)
                 THEN "end" ELSE "page"])
      BY <3>1
    <3>2. CASE Set(r, [request[r] EXCEPT !.at = "end"])
      BY <3>2
    <3> QED
      BY <1>6, <3>1, <3>2 DEF Check
  <2> DEFINE new == [request[r] EXCEPT !.at = place]
  <2>3. new \in InFlight /\ new.at = place /\ new.token = request[r].token
        /\ new.wasOpen = request[r].wasOpen
    BY <1>1, <2>1 DEF InFlight
  <2>4. place = "page" => new.wasOpen
    <3>1. place = "page" => request[r].wasOpen
      BY <2>1, <2>2 DEF HealedInv
    <3> QED
      BY <2>3, <3>1
  <2>5. Set(r, new)
    BY <2>2
  <2>6. view[request[r].token] # "none"
    BY <1>1, <2>1
  <2> HIDE DEF new
  <2> QED
    BY <2>1, <2>3, <2>4, <2>5, <2>6, MovesAlone
<1>7. ASSUME NEW r \in Requests, OwnRequest(r) \/ Refuse(r) \/ Act(r) \/ Begin(r)
      PROVE  HealedInv'
  <2>1. /\ request[r].at \in {"jwt", "start", "page", "begin"}
        /\ UNCHANGED <<view, expired, staff, memberOk, cookie>>
    BY <1>7 DEF OwnRequest, Refuse, Act, Begin
  <2>2. PICK place \in {"start", "done"}, t \in {request[r].token, Own, SignedOut} :
          Set(r, [request[r] EXCEPT !.at = place, !.token = t])
    <3>1. [request[r] EXCEPT !.at = "start"]
            = [request[r] EXCEPT !.at = "start", !.token = request[r].token]
      BY <1>1, <2>1 DEF InFlight
    <3>2. [request[r] EXCEPT !.at = "done"]
            = [request[r] EXCEPT !.at = "done", !.token = request[r].token]
      BY <1>1, <2>1 DEF InFlight
    <3>3. CASE OwnRequest(r)
      BY <3>1, <3>2, <3>3 DEF OwnRequest
    <3>4. CASE Refuse(r) \/ Act(r)
      BY <3>2, <3>4 DEF Refuse, Act
    <3>5. CASE Begin(r)
      BY <3>2, <3>5 DEF Begin
    <3> QED
      BY <1>7, <3>3, <3>4, <3>5
  <2> DEFINE new == [request[r] EXCEPT !.at = place, !.token = t]
  <2>3. new \in InFlight /\ new.at = place /\ new.token = t
    BY <1>1, <2>1 DEF InFlight, Cookies
  <2>4. t \in Views => view[t] # "none"
    BY <1>1, <2>1
  <2>5. Set(r, new)
    BY <2>2
  <2> HIDE DEF new
  <2> QED
    BY <2>1, <2>3, <2>4, <2>5, MovesAlone
<1>8. ASSUME NEW r \in Requests, NEW v \in Views, Create(r, v)
      PROVE  HealedInv'
  <2> DEFINE new == [request[r] EXCEPT !.at = "begin", !.token = v, !.wasOpen = TRUE]
  <2>1. /\ Set(r, new) /\ request[r].at = "start" /\ view[v] = "none"
        /\ view' = [view EXCEPT ![v] = "open"]
        /\ UNCHANGED <<expired, staff, memberOk, cookie>>
    BY <1>8 DEF Create
  <2>2. new \in InFlight /\ new.at = "begin" /\ new.token = v
    BY <1>1, <2>1 DEF InFlight, Cookies
  <2>3. /\ view' \in [Views -> {"none", "open", "ended"}] /\ view'[v] = "open"
        /\ \A w \in Views : w # v => view'[w] = view[w]
    BY <1>0, <2>1
  <2>4. cookie' \in Cookies /\ (cookie' \in Views => view'[cookie'] # "none")
    BY <1>0, <2>1, <2>3
  <2>5. \A s \in Requests \ {r}, w \in Views :
          request[s].at = "jwt" /\ request[s].token = w /\ Open(w)' => Open(w)
    <3>1. \A s \in Requests, w \in Views :
            request[s].at = "jwt" /\ request[s].token = w => w # v
      BY <1>1, <2>1
    <3>2. \A w \in Views : w # v => (Open(w)' => Open(w))
      BY <2>1, <2>3 DEF Open
    <3> QED
      BY <3>1, <3>2
  <2>6. \A w \in Views : view'[w] = "none" => view[w] = "none"
    BY <2>3
  <2> HIDE DEF new
  <2> QED
    BY <1>0, <2>1, <2>2, <2>3, <2>4, <2>5, <2>6, MovesOn
<1>9. CASE SignOut
  <2>1. cookie' = SignedOut /\ UNCHANGED <<expired, staff, memberOk, request>>
    BY <1>9 DEF SignOut
  <2>2. /\ view' \in [Views -> {"none", "open", "ended"}]
        /\ \A v \in Views : /\ view'[v] = "none" => view[v] = "none"
                            /\ view'[v] = "open" => view[v] = "open"
    BY <1>0, <1>9 DEF SignOut
  <2>3. cookie' \in Cookies /\ cookie' \notin Views
    BY <2>1 DEF Cookies
  <2>4. staff' \in BOOLEAN /\ memberOk' \in BOOLEAN
        /\ expired \subseteq expired' /\ expired' \subseteq Views
    BY <1>0, <2>1
  <2>5. request' = request
    BY <2>1
  <2> QED
    BY <2>2, <2>3, <2>4, <2>5, ViewsClose
<1>10. CASE MemberChanges
  <2>1. /\ memberOk' \in BOOLEAN /\ expired' = expired /\ staff' = staff
        /\ cookie' = cookie /\ request' = request
    BY <1>10 DEF MemberChanges
  <2>2. /\ view' \in [Views -> {"none", "open", "ended"}]
        /\ \A v \in Views : view'[v] = view[v] \/ (view[v] = "open" /\ view'[v] = "ended")
    <3>1. view' = [v \in Views |-> IF memberOk /\ view[v] = "open" THEN "ended"
                                                                  ELSE view[v]]
      BY <1>10 DEF MemberChanges
    <3>2. CASE memberOk = TRUE
      BY <1>0, <3>1, <3>2
    <3>3. CASE memberOk = FALSE
      BY <1>0, <3>1, <3>3
    <3> QED
      BY <1>0, <3>2, <3>3
  <2>3. \A v \in Views : /\ view'[v] = "none" => view[v] = "none"
                         /\ view'[v] = "open" => view[v] = "open"
    BY <2>2
  <2>4. cookie \in Views => view'[cookie] # "none"
    BY <1>0, <2>2
  <2> QED
    BY <1>0, <2>1, <2>2, <2>3, <2>4, ViewsClose
<1>11. CASE StaffChanges
  <2>1. staff' \in BOOLEAN /\ UNCHANGED <<view, expired, memberOk, cookie, request>>
    BY <1>11 DEF StaffChanges
  <2> QED
    BY <1>0, <2>1, ViewsClose
<1>12. ASSUME NEW v \in Views, RevokeView(v) \/ Expire(v)
       PROVE  HealedInv'
  <2>1. /\ staff' = staff /\ memberOk' = memberOk /\ cookie' = cookie
        /\ request' = request /\ expired \subseteq expired' /\ expired' \subseteq Views
    BY <1>0, <1>12 DEF RevokeView, Expire
  <2>2. view' = view \/ (view[v] = "open" /\ view' = [view EXCEPT ![v] = "ended"])
    BY <1>12 DEF RevokeView, Expire
  <2>3. /\ view' \in [Views -> {"none", "open", "ended"}]
        /\ \A w \in Views : view'[w] = view[w] \/ (view[w] = "open" /\ view'[w] = "ended")
    BY <1>0, <2>2
  <2>4. \A w \in Views : /\ view'[w] = "none" => view[w] = "none"
                         /\ view'[w] = "open" => view[w] = "open"
    BY <2>3
  <2>5. cookie \in Views => view'[cookie] # "none"
    BY <1>0, <2>3
  <2> QED
    BY <1>0, <2>1, <2>3, <2>4, <2>5, ViewsClose
<1> QED
  BY <1>2, <1>3, <1>4, <1>5, <1>6, <1>7, <1>8, <1>9, <1>10, <1>11, <1>12
  DEF ImpersonationNext

\* A page or action runs as the member only if the session was open when its
\* request was sent, whatever cookies late responses put back.
THEOREM CookiesHeal == ImpersonationSpec => []ImpersonationInv
<1>1. ImpersonationInit => HealedInv
  BY ImpersonationAssumption
  DEF ImpersonationInit, HealedInv, ImpersonationInv, ImpersonationTypeOK, ActsWhileOpen,
      NoRequest, Idle
<1>2. HealedInv /\ [ImpersonationNext]_viewVars => HealedInv'
  <2>1. ASSUME HealedInv, UNCHANGED viewVars
        PROVE  HealedInv'
    BY <2>1 DEF viewVars, HealedInv, ImpersonationInv, ImpersonationTypeOK, ActsWhileOpen,
         Idle, Open
  <2> QED
    BY <2>1, HealedStep
<1>3. HealedInv => ImpersonationInv
  BY DEF HealedInv
<1> QED
  BY <1>1, <1>2, <1>3, PTL DEF ImpersonationSpec
-----------------------------------------------------------------------------
(* The community.                                                           *)

\* The members who marked t.
RowsOf(rows, t) == {m \in Members : <<m, t>> \in rows}

ToggleCalls == [at : {"target", "read", "remove", "add"}, on : Marked]
CommentCalls == [at : {"post", "parent", "write"}, on : Comments,
                 under : Comments \cup {NoComment}]
DeleteCalls == [at : {"delete"}, on : Comments]
DeletePostCalls == [at : {"deletePost"}, on : {"post"}]
MemberCalls == {NotCalling} \cup ToggleCalls \cup CommentCalls \cup DeleteCalls
                 \cup DeletePostCalls
ModeratorCalls == [at : {"write"}, on : Comments \cup {"post"},
                   from : Status, to : Status]

MarksInv ==
  /\ marks \subseteq Members \X Markable
  /\ markCount \in [Counted -> Nat]
  /\ \A t \in Markable : IsFiniteSet(RowsOf(marks, t))
  /\ \A t \in Counted : markCount[t] = Cardinality(RowsOf(marks, t))

DiscussionTyped ==
  /\ comment \in [Comments -> Status \cup {"none"}]
  /\ author \in [Comments -> Members]
  /\ parent \in [Comments -> Comments \cup {NoComment}]
  /\ depth \in [Comments -> Nat]
  /\ commentCount \in Int
  /\ IsFiniteSet(Published)

\* A call's comment is not written yet and no other call will write it; what it
\* answers is written, and so is what a call deletes: no row goes away.
CallsWrite ==
  /\ call \in [Sessions -> MemberCalls]
  /\ \A s \in Sessions : call[s] \in CommentCalls =>
       /\ comment[call[s].on] = "none"
       /\ call[s].under \in Written \cup {NoComment}
       /\ \A r \in Sessions :
            call[r] \in CommentCalls /\ call[r].on = call[s].on => r = s
  /\ \A s \in Sessions : call[s] \in DeleteCalls => call[s].on \in Written

ModeratorsWrite ==
  /\ modCall \in [Moderators -> {NotCalling} \cup ModeratorCalls]
  /\ \A a \in Moderators :
       modCall[a] # NotCalling /\ modCall[a].on # "post" => modCall[a].on \in Written

PostTyped == post \in Status /\ locked \in BOOLEAN

DiscussionInv ==
  MarksInv /\ DiscussionTyped /\ ThreadsHold /\ CallsWrite /\ ModeratorsWrite /\ PostTyped

LEMMA DiscussionSafe ==
  ASSUME DiscussionInv
  PROVE  CommunityInv
BY DEF DiscussionInv, MarksInv, DiscussionTyped, PostTyped, CommunityInv, CommunityTypeOK,
   MarksCounted, RowsOf

\* One row more or less changes the members of one target by one.
LEMMA RowAdded ==
  ASSUME NEW rows, NEW m \in Members, NEW t, NEW u,
         IsFiniteSet(RowsOf(rows, u)), <<m, t>> \notin rows
  PROVE  /\ IsFiniteSet(RowsOf(rows \cup {<<m, t>>}, u))
         /\ Cardinality(RowsOf(rows \cup {<<m, t>>}, u))
              = Cardinality(RowsOf(rows, u)) + (IF u = t THEN 1 ELSE 0)
<1>1. CASE u = t
  <2>1. RowsOf(rows \cup {<<m, t>>}, u) = RowsOf(rows, u) \cup {m} /\ m \notin RowsOf(rows, u)
    BY <1>1 DEF RowsOf
  <2>2. /\ IsFiniteSet(RowsOf(rows, u) \cup {m})
        /\ Cardinality(RowsOf(rows, u) \cup {m}) = Cardinality(RowsOf(rows, u)) + 1
    BY <2>1, FS_AddElement
  <2> QED
    BY <1>1, <2>1, <2>2
<1>2. CASE u # t
  <2>1. RowsOf(rows \cup {<<m, t>>}, u) = RowsOf(rows, u)
    BY <1>2 DEF RowsOf
  <2>2. Cardinality(RowsOf(rows, u)) \in Nat
    BY FS_CardinalityType
  <2> QED
    BY <1>2, <2>1, <2>2
<1> QED
  BY <1>1, <1>2

LEMMA RowRemoved ==
  ASSUME NEW rows, NEW m \in Members, NEW t, NEW u,
         IsFiniteSet(RowsOf(rows, u)), <<m, t>> \in rows
  PROVE  /\ IsFiniteSet(RowsOf(rows \ {<<m, t>>}, u))
         /\ Cardinality(RowsOf(rows \ {<<m, t>>}, u))
              = Cardinality(RowsOf(rows, u)) - (IF u = t THEN 1 ELSE 0)
<1>1. CASE u = t
  <2>1. RowsOf(rows \ {<<m, t>>}, u) = RowsOf(rows, u) \ {m} /\ m \in RowsOf(rows, u)
    BY <1>1 DEF RowsOf
  <2> QED
    BY <1>1, <2>1, FS_RemoveElement
<1>2. CASE u # t
  <2>1. RowsOf(rows \ {<<m, t>>}, u) = RowsOf(rows, u)
    BY <1>2 DEF RowsOf
  <2>2. Cardinality(RowsOf(rows, u)) \in Nat
    BY FS_CardinalityType
  <2> QED
    BY <1>2, <2>1, <2>2
<1> QED
  BY <1>1, <1>2

\* A toggle's transaction counts the row it writes; what a comment follows is
\* not counted.
LEMMA MarksMove ==
  ASSUME MarksInv, NEW m \in Members, NEW t \in Markable,
         \/ /\ <<m, t>> \notin marks /\ marks' = marks \cup {<<m, t>>}
            /\ Count(t, 1)
         \/ /\ <<m, t>> \in marks /\ marks' = marks \ {<<m, t>>}
            /\ Count(t, -1)
         \/ t = "follow" /\ marks' = marks \cup {<<m, t>>} /\ markCount' = markCount
         \/ marks' = marks /\ markCount' = markCount
  PROVE  MarksInv'
<1> USE DEF MarksInv
<1>0. \A u \in Markable : Cardinality(RowsOf(marks, u)) \in Nat
  BY FS_CardinalityType
<1>1. CASE <<m, t>> \notin marks /\ marks' = marks \cup {<<m, t>>} /\ Count(t, 1)
  <2>1. \A u \in Markable :
          /\ IsFiniteSet(RowsOf(marks', u))
          /\ Cardinality(RowsOf(marks', u))
               = Cardinality(RowsOf(marks, u)) + (IF u = t THEN 1 ELSE 0)
    BY <1>1, RowAdded
  <2>2. \A u \in Counted : u \in Markable
    BY CommunityAssumption DEF Counted, Markable
  <2>3. markCount' = [u \in Counted |-> IF u = t THEN markCount[u] + 1 ELSE markCount[u]]
    BY <1>1 DEF Count
  <2>4. \A u \in Counted : markCount'[u] = Cardinality(RowsOf(marks', u))
    BY <1>0, <2>1, <2>2, <2>3
  <2>5. markCount' \in [Counted -> Nat]
    BY <2>3
  <2>6. marks' \subseteq Members \X Markable
    BY <1>1
  <2> QED
    BY <2>1, <2>4, <2>5, <2>6
<1>2. CASE <<m, t>> \in marks /\ marks' = marks \ {<<m, t>>} /\ Count(t, -1)
  <2>1. \A u \in Markable :
          /\ IsFiniteSet(RowsOf(marks', u))
          /\ Cardinality(RowsOf(marks', u))
               = Cardinality(RowsOf(marks, u)) - (IF u = t THEN 1 ELSE 0)
    BY <1>2, RowRemoved
  <2>2. \A u \in Counted : u \in Markable
    BY CommunityAssumption DEF Counted, Markable
  <2>3. markCount' = [u \in Counted |-> IF u = t THEN markCount[u] + (-1) ELSE markCount[u]]
    BY <1>2 DEF Count
  <2>4. \A u \in Counted : markCount'[u] = Cardinality(RowsOf(marks', u))
    BY <1>0, <2>1, <2>2, <2>3
  <2>5. \A u \in Markable : Cardinality(RowsOf(marks', u)) \in Nat
    BY <2>1, FS_CardinalityType
  <2>6. markCount' \in [Counted -> Nat]
    BY <2>2, <2>3, <2>4, <2>5
  <2>7. marks' \subseteq Members \X Markable
    BY <1>2
  <2> QED
    BY <2>1, <2>4, <2>6, <2>7
<1>3. CASE <<m, t>> \notin marks /\ t = "follow" /\ marks' = marks \cup {<<m, t>>}
           /\ markCount' = markCount
  <2>1. \A u \in Markable :
          /\ IsFiniteSet(RowsOf(marks', u))
          /\ Cardinality(RowsOf(marks', u))
               = Cardinality(RowsOf(marks, u)) + (IF u = t THEN 1 ELSE 0)
    BY <1>3, RowAdded
  <2>2. \A u \in Counted : u \in Markable /\ u # t
    BY <1>3, CommunityAssumption DEF Counted, Markable
  <2>3. \A u \in Counted : markCount'[u] = Cardinality(RowsOf(marks', u))
    <3> SUFFICES ASSUME NEW u \in Counted
                 PROVE  markCount'[u] = Cardinality(RowsOf(marks', u))
      OBVIOUS
    <3>1. Cardinality(RowsOf(marks', u)) = Cardinality(RowsOf(marks, u)) + 0
      BY <2>1, <2>2
    <3> QED
      BY <1>0, <1>3, <2>2, <3>1
  <2>4. marks' \subseteq Members \X Markable
    BY <1>3
  <2> QED
    BY <1>3, <2>1, <2>3, <2>4
<1>4. CASE marks' = marks /\ markCount' = markCount
  BY <1>4
<1>5. CASE <<m, t>> \in marks /\ marks' = marks \cup {<<m, t>>} /\ markCount' = markCount
  <2>1. marks' = marks
    BY <1>5
  <2> QED
    BY <1>4, <1>5, <2>1
<1> QED
  BY <1>1, <1>2, <1>3, <1>4, <1>5

\* One session's call moves on and writes nothing of the discussion.
LEMMA CallMoves ==
  ASSUME DiscussionInv, NEW s \in Sessions, NEW new \in MemberCalls, Goto(s, new),
         UNCHANGED <<commentVars, modCall>>, MarksInv', PostTyped',
         new \in CommentCalls =>
           /\ comment[new.on] = "none" /\ new.under \in Written \cup {NoComment}
           /\ \A r \in Sessions :
                call[r] \in CommentCalls /\ call[r].on = new.on => r = s,
         new \in DeleteCalls => new.on \in Written
  PROVE  DiscussionInv'
<1>1. Published' = Published /\ Written' = Written
  BY DEF Published, Written, commentVars
<1>2. DiscussionTyped' /\ ThreadsHold' /\ ModeratorsWrite'
  BY <1>1 DEF DiscussionInv, DiscussionTyped, ThreadsHold, ModeratorsWrite, commentVars
<1>3. /\ call' \in [Sessions -> MemberCalls] /\ call'[s] = new
      /\ \A r \in Sessions : r # s => call'[r] = call[r]
  BY DEF Goto, DiscussionInv, CallsWrite
<1>4. CallsWrite'
  <2>1. \A r \in Sessions : call'[r] \in CommentCalls =>
          /\ comment[call'[r].on] = "none"
          /\ call'[r].under \in Written \cup {NoComment}
          /\ \A q \in Sessions :
               call'[q] \in CommentCalls /\ call'[q].on = call'[r].on => q = r
    BY <1>3 DEF DiscussionInv, CallsWrite
  <2>2. \A r \in Sessions : call'[r] \in DeleteCalls => call'[r].on \in Written
    BY <1>3 DEF DiscussionInv, CallsWrite
  <2> QED
    BY <1>1, <1>3, <2>1, <2>2 DEF CallsWrite, commentVars
<1> QED
  BY <1>2, <1>4 DEF DiscussionInv

\* What a call is about, by where it stands.
LEMMA CallShapes ==
  ASSUME NEW c \in MemberCalls
  PROVE  /\ c.at \in {"target", "read", "remove", "add"} => c \in ToggleCalls
         /\ c.at \in {"post", "parent", "write"} => c \in CommentCalls
         /\ c.at = "delete" => c \in DeleteCalls
         /\ c.at = "idle" => c = NotCalling
         /\ c \in ToggleCalls => c \notin CommentCalls \cup DeleteCalls /\ c # NotCalling
         /\ c \in CommentCalls =>
              c.at \in {"post", "parent", "write"} /\ c \notin DeleteCalls /\ c # NotCalling
         /\ c \in DeleteCalls => c.at = "delete" /\ c # NotCalling
         /\ c \in DeletePostCalls => c \notin CommentCalls \cup DeleteCalls
BY DEF MemberCalls, ToggleCalls, CommentCalls, DeleteCalls, DeletePostCalls, NotCalling

\* Some rows of the discussion are written, none goes away, and no call that is
\* to write a comment is overtaken.
LEMMA CommentsWritten ==
  ASSUME DiscussionInv, Written \subseteq Written', MarksInv', PostTyped',
         DiscussionTyped', ThreadsHold',
         call' \in [Sessions -> MemberCalls],
         \A s \in Sessions : call'[s] # NotCalling => call'[s] = call[s],
         \A s \in Sessions : call'[s] \in CommentCalls =>
           comment'[call'[s].on] = "none",
         modCall' \in [Moderators -> {NotCalling} \cup ModeratorCalls],
         \A a \in Moderators : modCall'[a] # NotCalling => modCall'[a] = modCall[a]
  PROVE  DiscussionInv'
<1>1. NotCalling \notin CommentCalls \cup DeleteCalls
  BY CallShapes DEF MemberCalls
<1>2. CallsWrite'
  <2>1. \A s \in Sessions : call'[s] \in CommentCalls =>
          /\ comment'[call'[s].on] = "none"
          /\ call'[s].under \in Written' \cup {NoComment}
          /\ \A q \in Sessions :
               call'[q] \in CommentCalls /\ call'[q].on = call'[s].on => q = s
    BY <1>1 DEF DiscussionInv, CallsWrite
  <2>2. \A s \in Sessions : call'[s] \in DeleteCalls => call'[s].on \in Written'
    BY <1>1 DEF DiscussionInv, CallsWrite
  <2> QED
    BY <2>1, <2>2 DEF CallsWrite
<1>3. ModeratorsWrite'
  BY DEF DiscussionInv, ModeratorsWrite
<1> QED
  BY <1>2, <1>3 DEF DiscussionInv

\* Toggles, checks and whatever else writes no comment.
LEMMA QuietCalls ==
  ASSUME DiscussionInv, NEW s \in Sessions,
         \/ CheckTarget(s) \/ ReadMark(s) \/ RemoveMark(s) \/ AddMark(s)
         \/ ReadPost(s) \/ ReadParent(s)
         \/ StartDeletePost(s) \/ DeletePost(s) \/ CallFails(s)
         \/ \E t \in Marked : StartToggle(s, t)
         \/ \E c \in Comments :
              \/ StartDelete(s, c)
              \/ \E p \in Written \cup {NoComment} : StartComment(s, c, p)
  PROVE  DiscussionInv'
<1>1. /\ UNCHANGED <<commentVars, modCall>>
      /\ call[s] \in MemberCalls /\ Member(s) \in Members
      /\ NotCalling \in MemberCalls /\ NotCalling \notin CommentCalls \cup DeleteCalls
  <2>1. UNCHANGED <<commentVars, modCall>>
    BY DEF CheckTarget, ReadMark, RemoveMark, AddMark, ReadPost, ReadParent,
       StartDeletePost, DeletePost, CallFails, StartToggle, StartDelete, StartComment
  <2>2. call[s] \in MemberCalls /\ Member(s) \in Members
    BY DEF DiscussionInv, CallsWrite, Members
  <2> QED
    BY <2>1, <2>2, CallShapes DEF MemberCalls
<1>2. PostTyped'
  BY DEF CheckTarget, ReadMark, RemoveMark, AddMark, ReadPost, ReadParent,
     StartDeletePost, DeletePost, CallFails, StartToggle, StartDelete, StartComment,
     DiscussionInv, PostTyped, Status
<1>3. CASE RemoveMark(s) \/ AddMark(s)
  <2>1. call[s] \in ToggleCalls
    BY <1>1, <1>3, CallShapes DEF RemoveMark, AddMark
  <2>2. PICK t \in Markable : t = call[s].on
    BY <2>1, CommunityAssumption DEF ToggleCalls, Markable
  <2>3. MarksInv'
    BY <1>1, <1>3, <2>2, MarksMove DEF DiscussionInv, RemoveMark, AddMark, markVars
  <2>4. Goto(s, NotCalling)
    BY <1>3 DEF RemoveMark, AddMark
  <2> QED
    BY <1>1, <1>2, <2>3, <2>4, CallMoves
<1>4. CASE \/ CheckTarget(s) \/ ReadMark(s) \/ ReadPost(s) \/ ReadParent(s)
           \/ StartDeletePost(s) \/ DeletePost(s) \/ CallFails(s)
           \/ \E t \in Marked : StartToggle(s, t)
           \/ \E c \in Comments :
                \/ StartDelete(s, c)
                \/ \E p \in Written \cup {NoComment} : StartComment(s, c, p)
  <2>1. MarksInv'
    <3>1. marks' = marks /\ markCount' = markCount
      BY <1>4 DEF CheckTarget, ReadMark, ReadPost, ReadParent, StartDeletePost, DeletePost,
         CallFails, StartToggle, StartDelete, StartComment, markVars
    <3> QED
      BY <3>1 DEF DiscussionInv, MarksInv
  <2>2. CASE CheckTarget(s) \/ ReadMark(s)
    <3>1. PICK place \in {"read", "remove", "add"} :
            Goto(s, [call[s] EXCEPT !.at = place])
      BY <2>2 DEF CheckTarget, ReadMark
    <3>2. call[s] \in ToggleCalls
      BY <1>1, <2>2, CallShapes DEF CheckTarget, ReadMark
    <3>3. [call[s] EXCEPT !.at = place] \in ToggleCalls
      BY <3>2 DEF ToggleCalls
    <3>4. [call[s] EXCEPT !.at = place] \in MemberCalls
      BY <3>3 DEF MemberCalls
    <3>5. [call[s] EXCEPT !.at = place] \notin CommentCalls \cup DeleteCalls
      BY <3>3, <3>4, CallShapes
    <3> QED
      BY <1>1, <1>2, <2>1, <3>1, <3>4, <3>5, CallMoves
  <2>3. CASE ReadPost(s) \/ ReadParent(s)
    <3>1. PICK place \in {"write", "parent"} : Goto(s, [call[s] EXCEPT !.at = place])
      BY <2>3 DEF ReadPost, ReadParent
    <3> DEFINE new == [call[s] EXCEPT !.at = place]
    <3>2. call[s] \in CommentCalls
      BY <1>1, <2>3, CallShapes DEF ReadPost, ReadParent
    <3>3. new \in CommentCalls /\ new.on = call[s].on /\ new.under = call[s].under
      BY <3>2 DEF CommentCalls
    <3>4. new \in MemberCalls
      BY <3>3 DEF MemberCalls
    <3>5. new \notin DeleteCalls
      BY <3>3, <3>4, CallShapes
    <3>6. Goto(s, new)
      BY <3>1
    <3>7. /\ comment[new.on] = "none" /\ new.under \in Written \cup {NoComment}
          /\ \A r \in Sessions :
               call[r] \in CommentCalls /\ call[r].on = new.on => r = s
      BY <3>2, <3>3 DEF DiscussionInv, CallsWrite
    <3> HIDE DEF new
    <3> QED
      BY <1>1, <1>2, <2>1, <3>4, <3>5, <3>6, <3>7, CallMoves
  <2>4. CASE DeletePost(s) \/ CallFails(s)
    <3>1. Goto(s, NotCalling)
      BY <2>4 DEF DeletePost, CallFails
    <3> QED
      BY <1>1, <1>2, <2>1, <3>1, CallMoves
  <2>5. CASE StartDeletePost(s)
    <3> DEFINE new == [at |-> "deletePost", on |-> "post"]
    <3>1. Goto(s, new) /\ new \in MemberCalls /\ new \in DeletePostCalls
      BY <2>5 DEF StartDeletePost, MemberCalls, DeletePostCalls
    <3>2. new \notin CommentCalls \cup DeleteCalls
      BY <3>1, CallShapes
    <3> HIDE DEF new
    <3> QED
      BY <1>1, <1>2, <2>1, <3>1, <3>2, CallMoves
  <2>6. ASSUME NEW t \in Marked, StartToggle(s, t)
        PROVE  DiscussionInv'
    <3> DEFINE new == [at |-> "target", on |-> t]
    <3>1. Goto(s, new) /\ new \in MemberCalls /\ new \in ToggleCalls
      BY <2>6 DEF StartToggle, MemberCalls, ToggleCalls
    <3>2. new \notin CommentCalls \cup DeleteCalls
      BY <3>1, CallShapes
    <3> HIDE DEF new
    <3> QED
      BY <1>1, <1>2, <2>1, <3>1, <3>2, CallMoves
  <2>7. ASSUME NEW c \in Comments, StartDelete(s, c)
        PROVE  DiscussionInv'
    <3> DEFINE new == [at |-> "delete", on |-> c]
    <3>1. /\ Goto(s, new) /\ new \in MemberCalls /\ new \in DeleteCalls
          /\ new.on = c /\ c \in Written
      BY <2>7 DEF StartDelete, MemberCalls, DeleteCalls, Written
    <3>2. new \notin CommentCalls
      BY <3>1, CallShapes
    <3> HIDE DEF new
    <3> QED
      BY <1>1, <1>2, <2>1, <3>1, <3>2, CallMoves
  <2>8. ASSUME NEW c \in Comments, NEW p \in Written \cup {NoComment},
               StartComment(s, c, p)
        PROVE  DiscussionInv'
    <3> DEFINE new == [at |-> "post", on |-> c, under |-> p]
    <3>1. p \in Comments \cup {NoComment}
      BY DEF Written
    <3>2. /\ Goto(s, new) /\ new \in MemberCalls /\ new \in CommentCalls
          /\ new.on = c /\ new.under = p /\ comment[c] = "none"
      BY <2>8, <3>1 DEF StartComment, MemberCalls, CommentCalls
    <3>3. new \notin DeleteCalls
      BY <3>2, CallShapes
    <3>4. \A r \in Sessions : call[r] \in CommentCalls /\ call[r].on = c => r = s
      <4>1. \A r \in Sessions : call[r] # NotCalling => call[r].on # c
        BY <2>8 DEF StartComment
      <4> QED
        BY <1>1, <4>1
    <3> HIDE DEF new
    <3> QED
      BY <1>1, <1>2, <2>1, <3>2, <3>3, <3>4, CallMoves
  <2> QED
    BY <1>4, <2>2, <2>3, <2>4, <2>5, <2>6, <2>7, <2>8
<1> QED
  BY <1>3, <1>4

\* A new comment is a leaf: nothing is attached to it, and it is attached one
\* level below what is written, at most at the maximum depth.
LEMMA CommentJoins ==
  ASSUME DiscussionInv, NEW s \in Sessions, WriteComment(s)
  PROVE  /\ DiscussionInv'
         /\ Cardinality(Published') = Cardinality(Published) + 1
<1>1. call[s] \in CommentCalls
  BY CallShapes DEF WriteComment, DiscussionInv, CallsWrite
<1>2. PICK c \in Comments : c = call[s].on
  BY <1>1 DEF CommentCalls
<1>3. PICK p \in Written \cup {NoComment} : p = call[s].under
  BY <1>1 DEF DiscussionInv, CallsWrite
<1>4. comment[c] = "none" /\ c \notin Written /\ c # NoComment /\ p # c
  BY <1>1, <1>2, <1>3, CommunityAssumption DEF DiscussionInv, CallsWrite, Written
<1>5. PICK up \in Comments \cup {NoComment}, d \in Nat :
        /\ up = Place(p).parent /\ d = Place(p).depth
        /\ d <= MaxDepth
        /\ up = NoComment => d = 0
        /\ up # NoComment => up \in Written /\ d = depth[up] + 1
  <2> USE DEF DiscussionInv, DiscussionTyped, ThreadsHold
  <2>1. CASE p = NoComment
    BY <2>1, CommunityAssumption DEF Place
  <2>2. CASE p # NoComment /\ depth[p] < MaxDepth
    <3>1. p \in Written /\ p \in Comments
      BY <2>2 DEF Written
    <3>2. Place(p).parent = p /\ Place(p).depth = depth[p] + 1
      BY <2>2 DEF Place
    <3> QED
      BY <2>2, <3>1, <3>2, CommunityAssumption
  <2>3. CASE p # NoComment /\ ~(depth[p] < MaxDepth)
    <3>1. p \in Written /\ p \in Comments
      BY <2>3 DEF Written
    <3>2. Place(p).parent = parent[p] /\ Place(p).depth = depth[p]
      BY <2>3 DEF Place
    <3> QED
      BY <3>1, <3>2
  <2> QED
    BY <2>1, <2>2, <2>3
<1>6. /\ comment' = [comment EXCEPT ![c] = "PUBLISHED"]
      /\ author' = [author EXCEPT ![c] = Member(s)]
      /\ parent' = [parent EXCEPT ![c] = up]
      /\ depth' = [depth EXCEPT ![c] = d]
      /\ commentCount' = commentCount + 1
      /\ marks' = marks \cup {<<Member(s), "follow">>} /\ markCount' = markCount
      /\ Goto(s, NotCalling) /\ modCall' = modCall /\ post' = post /\ locked' = locked
  BY <1>2, <1>3, <1>5 DEF WriteComment
<1>7. Published' = Published \cup {c} /\ c \notin Published /\ Written' = Written \cup {c}
  BY <1>4, <1>6 DEF Published, Written, DiscussionInv, DiscussionTyped
<1>8. IsFiniteSet(Published') /\ Cardinality(Published') = Cardinality(Published) + 1
  <2>1. IsFiniteSet(Published)
    BY DEF DiscussionInv, DiscussionTyped
  <2>2. /\ IsFiniteSet(Published \cup {c})
        /\ Cardinality(Published \cup {c}) = Cardinality(Published) + 1
    BY <1>7, <2>1, FS_AddElement
  <2> QED
    BY <1>7, <2>2
<1>9. Member(s) \in Members /\ "follow" \in Markable
  BY DEF Members, Markable
<1>10. MarksInv'
  BY <1>6, <1>9, MarksMove DEF DiscussionInv
<1>11. DiscussionTyped'
  BY <1>6, <1>8, <1>9 DEF DiscussionInv, DiscussionTyped, Status
<1>12. ThreadsHold'
  <2>1. /\ parent'[c] = up /\ depth'[c] = d
        /\ \A e \in Comments : e # c => parent'[e] = parent[e] /\ depth'[e] = depth[e]
    BY <1>6 DEF DiscussionInv, DiscussionTyped
  <2>2. \A e \in Written :
          /\ e \in Comments /\ e # c /\ depth[e] <= MaxDepth
          /\ parent[e] = NoComment => depth[e] = 0
          /\ parent[e] # NoComment =>
               parent[e] \in Written /\ depth[e] = depth[parent[e]] + 1
    BY <1>4 DEF DiscussionInv, ThreadsHold, Written
  <2>3. \A e \in Written :
          /\ depth'[e] <= MaxDepth
          /\ parent'[e] = NoComment => depth'[e] = 0
          /\ parent'[e] # NoComment =>
               parent'[e] \in Written /\ depth'[e] = depth'[parent'[e]] + 1
    BY <2>1, <2>2
  <2>4. /\ d <= MaxDepth /\ (up = NoComment => d = 0)
        /\ up # NoComment => up \in Written /\ d = depth'[up] + 1
    BY <1>5, <2>1, <2>2
  <2> QED
    BY <1>7, <2>1, <2>3, <2>4 DEF ThreadsHold
<1>13. /\ call' \in [Sessions -> MemberCalls] /\ call'[s] = NotCalling
       /\ \A r \in Sessions : r # s => call'[r] = call[r]
       /\ NotCalling \notin CommentCalls
  BY <1>6, CallShapes DEF Goto, DiscussionInv, CallsWrite, MemberCalls
<1>14. \A r \in Sessions : call'[r] \in CommentCalls => comment'[call'[r].on] = "none"
  <2> SUFFICES ASSUME NEW r \in Sessions, call'[r] \in CommentCalls
               PROVE  comment'[call'[r].on] = "none"
    OBVIOUS
  <2>1. r # s /\ call'[r] = call[r] /\ call[r] \in CommentCalls
    BY <1>13
  <2>2. comment[call[r].on] = "none" /\ call[r].on # c
    BY <1>1, <1>2, <2>1 DEF DiscussionInv, CallsWrite
  <2> QED
    BY <1>6, <2>1, <2>2 DEF DiscussionInv, DiscussionTyped
<1>15. /\ modCall' \in [Moderators -> {NotCalling} \cup ModeratorCalls]
       /\ PostTyped' /\ modCall' = modCall
  BY <1>6 DEF DiscussionInv, ModeratorsWrite, PostTyped
<1> QED
  BY <1>7, <1>8, <1>10, <1>11, <1>12, <1>13, <1>14, <1>15, CommentsWritten

\* A written comment gets another status: the rows stay, and the published
\* comments change by it alone.
LEMMA StatusChanges ==
  ASSUME DiscussionInv, NEW c \in Written, NEW to \in Status,
         comment' = [comment EXCEPT ![c] = to],
         commentCount' \in Int,
         UNCHANGED <<author, parent, depth>>
  PROVE  /\ DiscussionTyped' /\ ThreadsHold' /\ Written' = Written
         /\ \A e \in Comments : comment[e] = "none" => comment'[e] = "none"
         /\ Cardinality(Published') - Cardinality(Published) = Delta(comment[c], to)
<1>1. c \in Comments /\ comment[c] # "none" /\ to # "none"
  BY DEF Written, Status
<1>2. /\ comment' \in [Comments -> Status \cup {"none"}] /\ comment'[c] = to
      /\ \A e \in Comments : e # c => comment'[e] = comment[e]
  BY <1>1 DEF DiscussionInv, DiscussionTyped
<1>3. Written' = Written
  BY <1>1, <1>2 DEF Written
<1>4. ThreadsHold'
  BY <1>3 DEF DiscussionInv, ThreadsHold
<1>5. /\ IsFiniteSet(Published) /\ Cardinality(Published) \in Nat
      /\ c \in Published <=> comment[c] = "PUBLISHED"
  BY <1>1, FS_CardinalityType DEF DiscussionInv, DiscussionTyped, Published
<1>6. CASE to = "PUBLISHED"
  <2>1. Published' = Published \cup {c}
    BY <1>1, <1>2, <1>6 DEF Published
  <2>2. /\ IsFiniteSet(Published')
        /\ Cardinality(Published')
             = IF c \in Published THEN Cardinality(Published) ELSE Cardinality(Published) + 1
    BY <1>5, <2>1, FS_AddElement
  <2>3. Cardinality(Published') - Cardinality(Published) = Delta(comment[c], to)
    BY <1>5, <1>6, <2>2 DEF Delta
  <2> QED
    BY <1>1, <1>2, <1>3, <1>4, <2>2, <2>3 DEF DiscussionInv, DiscussionTyped
<1>7. CASE to # "PUBLISHED"
  <2>1. Published' = Published \ {c}
    BY <1>1, <1>2, <1>7 DEF Published
  <2>2. /\ IsFiniteSet(Published')
        /\ Cardinality(Published')
             = IF c \in Published THEN Cardinality(Published) - 1 ELSE Cardinality(Published)
    BY <1>5, <2>1, FS_RemoveElement
  <2>3. Cardinality(Published') - Cardinality(Published) = Delta(comment[c], to)
    BY <1>5, <1>7, <2>2 DEF Delta
  <2> QED
    BY <1>1, <1>2, <1>3, <1>4, <2>2, <2>3 DEF DiscussionInv, DiscussionTyped
<1> QED
  BY <1>6, <1>7

\* What each step does to the invariant and to the comment count.
Drifts ==
  \/ commentCount' - commentCount = Cardinality(Published') - Cardinality(Published)
  \/ \E a \in Moderators :
       /\ modCall[a] # NotCalling /\ modCall'[a] = NotCalling
       /\ StaleRead(modCall[a].on, modCall[a].from)
  \/ \E s \in Sessions :
       /\ call[s].at = "delete" /\ call'[s] = NotCalling
       /\ StaleRead(call[s].on, "PUBLISHED")

LEMMA SameComments ==
  ASSUME DiscussionInv, UNCHANGED <<comment, commentCount>>
  PROVE  Drifts
<1>1. Published' = Published
  BY DEF Published
<1>2. Cardinality(Published) \in Nat /\ commentCount \in Int
  BY FS_CardinalityType DEF DiscussionInv, DiscussionTyped
<1> QED
  BY <1>1, <1>2 DEF Drifts

LEMMA CommentDeleted ==
  ASSUME DiscussionInv, NEW s \in Sessions, Delete(s)
  PROVE  DiscussionInv' /\ Drifts
<1>1. call[s] \in DeleteCalls
  BY CallShapes DEF Delete, DiscussionInv, CallsWrite
<1>2. PICK c \in Written : c = call[s].on
  BY <1>1 DEF DiscussionInv, CallsWrite
<1>3. /\ comment' = [comment EXCEPT ![c] = "REMOVED"] /\ commentCount' = commentCount - 1
      /\ Goto(s, NotCalling) /\ modCall' = modCall /\ post' = post /\ locked' = locked
      /\ UNCHANGED <<author, parent, depth, marks, markCount>>
  BY <1>2 DEF Delete, markVars
<1>4. commentCount \in Int
  BY DEF DiscussionInv, DiscussionTyped
<1>5. /\ DiscussionTyped' /\ ThreadsHold' /\ Written' = Written
      /\ \A e \in Comments : comment[e] = "none" => comment'[e] = "none"
      /\ Cardinality(Published') - Cardinality(Published) = Delta(comment[c], "REMOVED")
  <2>1. "REMOVED" \in Status /\ commentCount' \in Int
        /\ UNCHANGED <<author, parent, depth>>
    BY <1>3, <1>4 DEF Status
  <2> QED
    BY <1>3, <2>1, StatusChanges
<1>6. /\ call' \in [Sessions -> MemberCalls] /\ call'[s] = NotCalling
      /\ \A r \in Sessions : r # s => call'[r] = call[r]
      /\ NotCalling \notin CommentCalls
  BY <1>3, CallShapes DEF Goto, DiscussionInv, CallsWrite, MemberCalls
<1>7. \A r \in Sessions : call'[r] \in CommentCalls => comment'[call'[r].on] = "none"
  <2> SUFFICES ASSUME NEW r \in Sessions, call'[r] \in CommentCalls
               PROVE  comment'[call'[r].on] = "none"
    OBVIOUS
  <2>1. call'[r] = call[r] /\ call[r] \in CommentCalls
    BY <1>6
  <2>2. comment[call[r].on] = "none" /\ call[r].on \in Comments
    BY <2>1 DEF DiscussionInv, CallsWrite, CommentCalls
  <2> QED
    BY <1>5, <2>1, <2>2
<1>8. MarksInv' /\ PostTyped'
  BY <1>3 DEF DiscussionInv, MarksInv, PostTyped
<1>9. modCall' \in [Moderators -> {NotCalling} \cup ModeratorCalls]
  BY <1>3 DEF DiscussionInv, ModeratorsWrite
<1>10. DiscussionInv'
  BY <1>3, <1>5, <1>6, <1>7, <1>8, <1>9, CommentsWritten
<1>11. Drifts
  <2>1. CASE comment[c] = "PUBLISHED"
    BY <1>3, <1>4, <1>5, <2>1 DEF Delta, Drifts
  <2>2. CASE comment[c] # "PUBLISHED"
    <3>1. StaleRead(call[s].on, "PUBLISHED")
      BY <1>2, <2>2 DEF StaleRead, Written
    <3>2. call[s].at = "delete"
      BY DEF Delete
    <3> QED
      BY <1>6, <3>1, <3>2 DEF Drifts
  <2> QED
    BY <2>1, <2>2
<1> QED
  BY <1>10, <1>11

LEMMA ModeratorSteps ==
  ASSUME DiscussionInv, NEW a \in Moderators, ModeratorStep(a)
  PROVE  DiscussionInv' /\ Drifts
<1>1. ASSUME NEW t \in Comments \cup {"post"}, NEW to \in Status, OpenModeration(a, t, to)
      PROVE  DiscussionInv' /\ Drifts
  <2>1. /\ UNCHANGED <<post, locked, commentVars, markVars, call>>
        /\ StatusOf(t) \notin {to, "none"}
        /\ modCall' = [modCall EXCEPT ![a] =
             [at |-> "write", on |-> t, from |-> StatusOf(t), to |-> to]]
    BY <1>1 DEF OpenModeration
  <2>2. StatusOf(t) \in Status
    BY <2>1 DEF StatusOf, DiscussionInv, DiscussionTyped, PostTyped, Status
  <2>3. [at |-> "write", on |-> t, from |-> StatusOf(t), to |-> to] \in ModeratorCalls
    BY <2>2 DEF ModeratorCalls
  <2>4. t # "post" => t \in Written
    BY <2>1 DEF StatusOf, Written
  <2>5. Published' = Published /\ Written' = Written
    BY <2>1 DEF Published, Written, commentVars
  <2>6. ModeratorsWrite'
    BY <2>1, <2>3, <2>4, <2>5 DEF DiscussionInv, ModeratorsWrite
  <2>7. MarksInv' /\ DiscussionTyped' /\ ThreadsHold' /\ CallsWrite' /\ PostTyped'
    BY <2>1, <2>5 DEF DiscussionInv, MarksInv, DiscussionTyped, ThreadsHold, CallsWrite,
       PostTyped, commentVars, markVars
  <2>8. Drifts
    BY <2>1, SameComments DEF commentVars
  <2> QED
    BY <2>6, <2>7, <2>8 DEF DiscussionInv
<1>2. ASSUME Moderate(a)
      PROVE  DiscussionInv' /\ Drifts
  <2>1. /\ modCall[a] \in ModeratorCalls /\ modCall[a] # NotCalling
        /\ modCall' = [modCall EXCEPT ![a] = NotCalling]
        /\ UNCHANGED <<locked, author, parent, depth, markVars, call>>
    BY <1>2 DEF Moderate, DiscussionInv, ModeratorsWrite
  <2>2. /\ modCall' \in [Moderators -> {NotCalling} \cup ModeratorCalls]
        /\ \A b \in Moderators : modCall'[b] # NotCalling => modCall'[b] = modCall[b]
        /\ modCall'[a] = NotCalling
    BY <2>1 DEF DiscussionInv, ModeratorsWrite
  <2>3. /\ call' = call /\ call \in [Sessions -> MemberCalls] /\ MarksInv'
        /\ \A r \in Sessions : call[r] \in CommentCalls =>
             call[r].on \in Comments /\ comment[call[r].on] = "none"
    BY <2>1 DEF DiscussionInv, CallsWrite, CommentCalls, MarksInv, markVars
  <2>4. CASE modCall[a].on = "post"
    <3>1. post' = modCall[a].to /\ UNCHANGED <<comment, commentCount>>
      BY <1>2, <2>4 DEF Moderate
    <3>2. Published' = Published /\ Written' = Written
      BY <3>1 DEF Published, Written
    <3>3. DiscussionTyped' /\ ThreadsHold'
      BY <2>1, <3>1, <3>2 DEF DiscussionInv, DiscussionTyped, ThreadsHold
    <3>4. PostTyped'
      BY <2>1, <3>1 DEF DiscussionInv, PostTyped, ModeratorCalls
    <3>5. Drifts
      BY <3>1, SameComments
    <3> QED
      BY <2>2, <2>3, <3>1, <3>2, <3>3, <3>4, <3>5, CommentsWritten
  <2>5. CASE modCall[a].on # "post"
    <3>1. PICK c \in Written : c = modCall[a].on
      BY <2>1, <2>5 DEF DiscussionInv, ModeratorsWrite
    <3>2. PICK from \in Status, to \in Status : from = modCall[a].from /\ to = modCall[a].to
      BY <2>1 DEF ModeratorCalls
    <3>3. /\ comment' = [comment EXCEPT ![c] = to]
          /\ commentCount' = commentCount + Delta(from, to) /\ post' = post
      BY <1>2, <2>5, <3>1, <3>2 DEF Moderate
    <3>4. Delta(from, to) \in Int /\ commentCount \in Int
      BY DEF Delta, DiscussionInv, DiscussionTyped
    <3>5. /\ DiscussionTyped' /\ ThreadsHold' /\ Written' = Written
          /\ \A e \in Comments : comment[e] = "none" => comment'[e] = "none"
          /\ Cardinality(Published') - Cardinality(Published) = Delta(comment[c], to)
      <4>1. commentCount' \in Int /\ UNCHANGED <<author, parent, depth>>
        BY <2>1, <3>3, <3>4
      <4> QED
        BY <3>3, <4>1, StatusChanges
    <3>6. PostTyped'
      BY <2>1, <3>3 DEF DiscussionInv, PostTyped
    <3>7. DiscussionInv'
      BY <2>2, <2>3, <3>5, <3>6, CommentsWritten
    <3>8. Drifts
      <4>1. CASE comment[c] = from
        BY <3>3, <3>4, <3>5, <4>1 DEF Drifts
      <4>2. CASE comment[c] # from
        <5>1. StaleRead(modCall[a].on, modCall[a].from)
          BY <3>1, <3>2, <4>2 DEF StaleRead, Written
        <5> QED
          BY <2>1, <2>2, <5>1 DEF Drifts
      <4> QED
        BY <4>1, <4>2
    <3> QED
      BY <3>7, <3>8
  <2> QED
    BY <2>4, <2>5
<1> QED
  BY <1>1, <1>2 DEF ModeratorStep

LEMMA CommunityStep ==
  ASSUME DiscussionInv, CommunityNext
  PROVE  DiscussionInv' /\ Drifts
<1>1. ASSUME NEW s \in Sessions, WriteComment(s)
      PROVE  DiscussionInv' /\ Drifts
  <2>1. /\ DiscussionInv' /\ commentCount' = commentCount + 1
        /\ Cardinality(Published') = Cardinality(Published) + 1
    BY <1>1, CommentJoins DEF WriteComment
  <2>2. Cardinality(Published) \in Nat /\ commentCount \in Int
    BY FS_CardinalityType DEF DiscussionInv, DiscussionTyped
  <2> QED
    BY <2>1, <2>2 DEF Drifts
<1>2. ASSUME NEW s \in Sessions, MemberStep(s), ~WriteComment(s), ~Delete(s)
      PROVE  DiscussionInv' /\ Drifts
  <2>1. DiscussionInv'
    BY <1>2, QuietCalls DEF MemberStep
  <2>2. UNCHANGED <<comment, commentCount>>
    BY <1>2 DEF MemberStep, CheckTarget, ReadMark, RemoveMark, AddMark, ReadPost,
       ReadParent, StartDeletePost, DeletePost, CallFails, StartToggle, StartDelete,
       StartComment, commentVars
  <2> QED
    BY <2>1, <2>2, SameComments
<1>3. CASE LockPost
  <2>1. /\ UNCHANGED <<post, commentVars, markVars, call, modCall>>
        /\ locked' \in BOOLEAN
    BY <1>3 DEF LockPost
  <2>2. Published' = Published /\ Written' = Written
    BY <2>1 DEF Published, Written, commentVars
  <2>3. DiscussionInv'
    BY <2>1, <2>2 DEF DiscussionInv, MarksInv, DiscussionTyped, ThreadsHold, CallsWrite,
       ModeratorsWrite, PostTyped, commentVars, markVars
  <2> QED
    BY <2>1, <2>3, SameComments DEF commentVars
<1> QED
  BY <1>1, <1>2, <1>3, CommentDeleted, ModeratorSteps DEF CommunityNext

LEMMA DiscussionInvariant == CommunitySpec => []DiscussionInv
<1>1. ASSUME CommunityInit
      PROVE  DiscussionInv
  <2>1. Published = {} /\ Written = {}
    BY <1>1 DEF CommunityInit, Published, Written
  <2>2. DiscussionTyped /\ ThreadsHold
    BY <1>1, <2>1, FS_EmptySet DEF CommunityInit, DiscussionTyped, ThreadsHold, Members
  <2>3. MarksInv
    <3>1. \A t \in Markable : RowsOf(marks, t) = {}
      BY <1>1 DEF CommunityInit, RowsOf
    <3>2. \A t \in Counted : t \in Markable
      BY CommunityAssumption DEF Counted, Markable
    <3> QED
      BY <1>1, <3>1, <3>2, FS_EmptySet DEF CommunityInit, MarksInv
  <2>4. NotCalling \in MemberCalls /\ NotCalling \notin CommentCalls \cup DeleteCalls
    BY CallShapes DEF MemberCalls
  <2>5. CallsWrite /\ ModeratorsWrite /\ PostTyped
    BY <1>1, <2>4 DEF CommunityInit, CallsWrite, ModeratorsWrite, PostTyped, Status
  <2> QED
    BY <2>2, <2>3, <2>5 DEF DiscussionInv
<1>2. ASSUME DiscussionInv, UNCHANGED communityVars
      PROVE  DiscussionInv'
  <2>1. UNCHANGED <<post, locked, commentVars, markVars, call, modCall>>
    BY <1>2 DEF communityVars
  <2>2. Published' = Published /\ Written' = Written
    BY <2>1 DEF Published, Written, commentVars
  <2> QED
    BY <1>2, <2>1, <2>2 DEF DiscussionInv, MarksInv, DiscussionTyped, ThreadsHold,
       CallsWrite, ModeratorsWrite, PostTyped, commentVars, markVars
<1>3. DiscussionInv /\ [CommunityNext]_communityVars => DiscussionInv'
  BY <1>2, CommunityStep
<1> QED
  BY <1>1, <1>3, PTL DEF CommunitySpec

\* Likes and saves are counted as often as there are rows, for any number of
\* tabs, and threads stay whole and no deeper than the maximum.
THEOREM CommunityHolds == CommunitySpec => []CommunityInv
BY DiscussionInvariant, DiscussionSafe, PTL

\* The comment count drifts from the published comments only by a write whose
\* comment changed after the writer read it.
THEOREM DriftsOnlyStale == CommunitySpec => DriftNeedsStaleRead
<1>1. ASSUME DiscussionInv, UNCHANGED communityVars
      PROVE  Drifts
  BY <1>1, SameComments DEF communityVars, commentVars
<1>2. DiscussionInv /\ [CommunityNext]_communityVars => Drifts
  BY <1>1, CommunityStep
<1> QED
  BY <1>2, DiscussionInvariant, PTL DEF CommunitySpec, DriftNeedsStaleRead, Drifts
-----------------------------------------------------------------------------
(* The roles of the staff: their type, and that only a grant or revocation  *)
(* that overwrites what it did not see takes the last active Super          *)
(* Administrator or leaves a rank behind.                                   *)

\* A rank below ADMIN is one of three roles.
LEMMA LowRanks ==
  \A r \in Roles : Rank[r] < Rank["ADMIN"] => r \in {"USER", "SELLER", "MODERATOR"}
BY SMT DEF Roles, Rank

LEMMA RoleNames == Roles = {"USER", "SELLER", "MODERATOR", "ADMIN", "SUPER_ADMIN"}
BY DEF Roles, Rank

\* A call that reads an account is well typed.
LEMMA ReadTyped ==
  ASSUME AccountsTypeOK, NEW a \in Accounts, NEW u \in Accounts, NEW s \in Scopes,
         NEW op, ReadForGrant(a, u, s, op)
  PROVE  AccountsTypeOK'
<1>1. role[u] \in Roles
  BY DEF AccountsTypeOK
<1>2. role[u] \in {"USER", "SELLER", "MODERATOR"}
  BY <1>1, LowRanks DEF ReadForGrant, GrantAllowed
<1>3. role[u] \in Roles \ {"ADMIN", "SUPER_ADMIN"}
  BY <1>1, <1>2
<1> QED
  BY <1>3 DEF AccountsTypeOK, ReadForGrant

LEMMA ChangeTyped ==
  ASSUME AccountsTypeOK, NEW a \in Accounts, NEW u \in Accounts, NEW new \in Roles,
         ChangeRole(a, u, new)
  PROVE  AccountsTypeOK'
<1>1. role' \in [Accounts -> Roles]
  BY DEF AccountsTypeOK, ChangeRole
<1>2. grants' \subseteq Accounts \X Scopes
  BY DEF AccountsTypeOK, ChangeRole
<1> QED
  BY <1>1, <1>2 DEF AccountsTypeOK, ChangeRole

LEMMA CallTyped ==
  ASSUME AccountsTypeOK, NEW c \in grantCalls, CountOthers(c) \/ Grant(c) \/ Revoke(c)
  PROVE  AccountsTypeOK'
<1>0. c.of \in Accounts /\ c.scope \in Scopes
  BY DEF AccountsTypeOK
<1>1. CASE CountOthers(c)
  <2> DEFINE d == [c EXCEPT !.others = IF Others(c) = {} THEN "none" ELSE "some"]
  <2>1. d.of = c.of /\ d.scope = c.scope /\ d.role = c.role
    BY DEF d
  <2>2. grantCalls' = (grantCalls \ {c}) \cup {d}
    BY <1>1 DEF CountOthers
  <2>3. UNCHANGED <<role, sellers, suspended, grants>>
    BY <1>1 DEF CountOthers
  <2> HIDE DEF d
  <2> QED
    BY <2>1, <2>2, <2>3 DEF AccountsTypeOK
<1>2. CASE Grant(c)
  <2>1. role' \in [Accounts -> Roles]
    BY <1>0, <1>2, RoleNames DEF AccountsTypeOK, Grant
  <2>2. grants' \subseteq Accounts \X Scopes
    BY <1>0, <1>2 DEF AccountsTypeOK, Grant
  <2> QED
    BY <1>2, <2>1, <2>2 DEF AccountsTypeOK, Grant
<1>3. CASE Revoke(c)
  <2>1. role' \in [Accounts -> Roles]
    BY <1>0, <1>3, RoleNames DEF AccountsTypeOK, Revoke
  <2>2. grants' \subseteq Accounts \X Scopes
    BY <1>0, <1>3 DEF AccountsTypeOK, Revoke
  <2> QED
    BY <1>3, <2>1, <2>2 DEF AccountsTypeOK, Revoke
<1> QED
  BY <1>1, <1>2, <1>3

\* Roles, seller profiles, suspensions, grants and what calls read have their
\* types; in particular a call only ever read an account below ADMIN.
THEOREM AccountsTyped == AccountsSpec => []AccountsTypeOK
<1>1. AccountsInit => AccountsTypeOK
  BY AccountsAssumption, RoleNames DEF AccountsInit, AccountsTypeOK
<1>2. AccountsTypeOK /\ [AccountsNext]_accountVars => AccountsTypeOK'
  <2> SUFFICES ASSUME AccountsTypeOK, [AccountsNext]_accountVars
               PROVE  AccountsTypeOK'
    OBVIOUS
  <2>1. CASE UNCHANGED accountVars
    BY <2>1 DEF AccountsTypeOK, accountVars
  <2>2. ASSUME NEW a \in Accounts, NEW u \in Accounts, NEW new \in Roles,
               ChangeRole(a, u, new)
        PROVE  AccountsTypeOK'
    BY <2>2, ChangeTyped
  <2>3. ASSUME NEW a \in Accounts, NEW u \in Accounts, Suspend(a, u) \/ Reactivate(a, u)
        PROVE  AccountsTypeOK'
    BY <2>3 DEF AccountsTypeOK, Suspend, Reactivate
  <2>4. ASSUME NEW a \in Accounts, NEW u \in Accounts, NEW s \in Scopes,
               NEW op \in {"grant", "revoke"}, ReadForGrant(a, u, s, op)
        PROVE  AccountsTypeOK'
    BY <2>4, ReadTyped
  <2>5. ASSUME NEW u \in Accounts, BecomeSeller(u)
        PROVE  AccountsTypeOK'
    <3>1. role' \in [Accounts -> Roles]
      BY <2>5, RoleNames DEF AccountsTypeOK, BecomeSeller
    <3> QED
      BY <2>5, <3>1 DEF AccountsTypeOK, BecomeSeller
  <2>6. ASSUME NEW c \in grantCalls, CountOthers(c) \/ Grant(c) \/ Revoke(c)
        PROVE  AccountsTypeOK'
    BY <2>6, CallTyped
  <2> QED
    BY <2>1, <2>2, <2>3, <2>4, <2>5, <2>6 DEF AccountsNext
<1> QED
  BY <1>1, <1>2, PTL DEF AccountsSpec
-----------------------------------------------------------------------------
\* Whoever is left when the target is not the only active Super Administrator.
LEMMA AnotherRemains ==
  ASSUME NEW u, ActiveSuperAdmins # {}, ActiveSuperAdmins # {u},
         \A v \in Accounts \ {u} : role'[v] = role[v] /\ (v \in suspended' <=> v \in suspended)
  PROVE  ActiveSuperAdmins' # {}
<1>1. PICK v \in ActiveSuperAdmins : v # u
  OBVIOUS
<1>2. v \in ActiveSuperAdmins'
  BY <1>1 DEF ActiveSuperAdmins
<1> QED
  BY <1>2

\* Steps that write for a call already read: they overwrite a Super
\* Administrator only if the account was promoted since.
LEMMA CallKeepsAdmins ==
  ASSUME AccountsTypeOK, NEW c \in grantCalls, CountOthers(c) \/ Grant(c) \/ Revoke(c),
         ActiveSuperAdmins # {}, ActiveSuperAdmins' = {}
  PROVE  \E d \in grantCalls \ grantCalls' : Overtaken(d)
<1>1. UNCHANGED suspended
  BY DEF CountOthers, Grant, Revoke
<1>2. role' # role
  BY <1>1 DEF ActiveSuperAdmins
<1>3. Grant(c) \/ Revoke(c)
  BY <1>2 DEF CountOthers
<1>4. c \notin grantCalls'
  BY <1>3 DEF Grant, Revoke
<1>5. PICK r \in Roles : role' = [role EXCEPT ![c.of] = r]
  BY <1>2, <1>3, RoleNames DEF Grant, Revoke
<1>6. PICK v \in Accounts : v \in ActiveSuperAdmins
  BY DEF ActiveSuperAdmins
<1>7. role'[v] # "SUPER_ADMIN"
  BY <1>1, <1>6 DEF ActiveSuperAdmins
<1>8. v = c.of
  BY <1>5, <1>6, <1>7 DEF ActiveSuperAdmins, AccountsTypeOK
<1>9. c.role # "SUPER_ADMIN" /\ role[c.of] = "SUPER_ADMIN"
  BY <1>6, <1>8 DEF ActiveSuperAdmins, AccountsTypeOK
<1> QED
  BY <1>4, <1>9 DEF Overtaken

\* The step that revokes the last scope takes the rank it saw.
LEMMA RevocationTakesRank ==
  ASSUME AccountsTypeOK, NEW c \in grantCalls, CountOthers(c) \/ Grant(c) \/ Revoke(c)
  PROVE  RankGoesWithLastScope
<1> SUFFICES ASSUME NEW d \in grantCalls \ grantCalls',
                    d.op = "revoke", d.others # "unread",
                    ~Overtaken(d), d.others = "none" <=> Others(d) = {},
                    <<d.of, d.scope>> \in grants,
                    \A s \in Scopes : <<d.of, s>> \notin grants'
             PROVE  role'[d.of] # "MODERATOR"
  BY DEF RankGoesWithLastScope
<1>1. d = c
  BY DEF CountOthers, Grant, Revoke
<1>2. Revoke(c)
  BY <1>1 DEF CountOthers, Grant
<1>3. grants' = grants \ {<<c.of, c.scope>>}
  BY <1>1, <1>2 DEF Revoke
<1>4. Others(c) = {}
  <2>1. ASSUME NEW g \in Others(c)
        PROVE  FALSE
    <3>1. g \in grants /\ g[1] = c.of /\ g[2] # c.scope /\ g \in Accounts \X Scopes
      BY <2>1 DEF Others, AccountsTypeOK
    <3>2. g = <<c.of, g[2]>> /\ g[2] \in Scopes
      BY <3>1
    <3>3. g \in grants'
      BY <1>3, <3>1, <3>2
    <3> QED
      BY <1>1, <3>2, <3>3
  <2> QED
    BY <2>1
<1>5. c.others = "none" /\ role[c.of] = c.role /\ c.of \in Accounts
  BY <1>1, <1>4 DEF Overtaken, AccountsTypeOK
<1>6. CASE c.role = "MODERATOR"
  <2>1. role' = [role EXCEPT ![c.of] = IF c.of \in sellers THEN "SELLER" ELSE "USER"]
    BY <1>1, <1>2, <1>5, <1>6 DEF Revoke
  <2> QED
    BY <1>1, <1>5, <2>1 DEF AccountsTypeOK
<1>7. CASE c.role # "MODERATOR"
  <2>1. role' = role
    BY <1>1, <1>2, <1>7 DEF Revoke
  <2> QED
    BY <1>1, <1>5, <1>7, <2>1
<1> QED
  BY <1>6, <1>7

\* No step strands the site without an active Super Administrator, or an account
\* with a rank and no scope, but a grant or revocation whose account changed
\* after it was read.
THEOREM StaffIsKept == AccountsSpec => StaffKept
<1>1. AccountsTypeOK /\ [AccountsNext]_accountVars
        => [LastSuperAdminKept /\ RankGoesWithLastScope]_accountVars
  <2> SUFFICES ASSUME AccountsTypeOK, AccountsNext
               PROVE  LastSuperAdminKept /\ RankGoesWithLastScope
    OBVIOUS
  <2>1. ASSUME NEW a \in Accounts, NEW u \in Accounts, NEW new \in Roles,
               ChangeRole(a, u, new)
        PROVE  LastSuperAdminKept /\ RankGoesWithLastScope
    <3>1. \A v \in Accounts \ {u} :
            role'[v] = role[v] /\ (v \in suspended' <=> v \in suspended)
      BY <2>1 DEF ChangeRole, AccountsTypeOK
    <3>2. ActiveSuperAdmins # {u} /\ grantCalls' = grantCalls
      BY <2>1 DEF ChangeRole, RoleChangeAllowed
    <3> QED
      BY <3>1, <3>2, AnotherRemains DEF LastSuperAdminKept, RankGoesWithLastScope
  <2>2. ASSUME NEW a \in Accounts, NEW u \in Accounts, Suspend(a, u)
        PROVE  LastSuperAdminKept /\ RankGoesWithLastScope
    <3>1. \A v \in Accounts \ {u} :
            role'[v] = role[v] /\ (v \in suspended' <=> v \in suspended)
      BY <2>2 DEF Suspend
    <3>2. ActiveSuperAdmins # {u} /\ grantCalls' = grantCalls
      BY <2>2 DEF Suspend
    <3> QED
      BY <3>1, <3>2, AnotherRemains DEF LastSuperAdminKept, RankGoesWithLastScope
  <2>3. ASSUME NEW a \in Accounts, NEW u \in Accounts, Reactivate(a, u)
        PROVE  LastSuperAdminKept /\ RankGoesWithLastScope
    <3>1. ActiveSuperAdmins \subseteq ActiveSuperAdmins' /\ grantCalls' = grantCalls
      BY <2>3 DEF Reactivate, ActiveSuperAdmins
    <3> QED
      BY <3>1 DEF LastSuperAdminKept, RankGoesWithLastScope
  <2>4. ASSUME NEW a \in Accounts, NEW u \in Accounts, NEW s \in Scopes,
               NEW op \in {"grant", "revoke"}, ReadForGrant(a, u, s, op)
        PROVE  LastSuperAdminKept /\ RankGoesWithLastScope
    <3>1. ActiveSuperAdmins' = ActiveSuperAdmins /\ grantCalls \subseteq grantCalls'
      BY <2>4 DEF ReadForGrant, ActiveSuperAdmins
    <3> QED
      BY <3>1 DEF LastSuperAdminKept, RankGoesWithLastScope
  <2>5. ASSUME NEW u \in Accounts, BecomeSeller(u)
        PROVE  LastSuperAdminKept /\ RankGoesWithLastScope
    <3>1. \A v \in Accounts : role[v] = "SUPER_ADMIN" => role'[v] = "SUPER_ADMIN"
      BY <2>5 DEF BecomeSeller, AccountsTypeOK
    <3>2. ActiveSuperAdmins \subseteq ActiveSuperAdmins' /\ grantCalls' = grantCalls
      BY <2>5, <3>1 DEF BecomeSeller, ActiveSuperAdmins
    <3> QED
      BY <3>2 DEF LastSuperAdminKept, RankGoesWithLastScope
  <2>6. ASSUME NEW c \in grantCalls, CountOthers(c) \/ Grant(c) \/ Revoke(c)
        PROVE  LastSuperAdminKept /\ RankGoesWithLastScope
    BY <2>6, CallKeepsAdmins, RevocationTakesRank DEF LastSuperAdminKept
  <2> QED
    BY <2>1, <2>2, <2>3, <2>4, <2>5, <2>6 DEF AccountsNext
<1> QED
  BY <1>1, AccountsTyped, PTL DEF AccountsSpec, StaffKept
=============================================================================
