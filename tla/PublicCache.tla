---------------------------- MODULE PublicCache -----------------------------
(***************************************************************************)
(* One key of the in-process cache (lib/cache.ts) between the pages that   *)
(* read it and the writers that drop it: recomputeRatingSummary,           *)
(* updateOwnProduct and createSignal after their write, closeSignal and    *)
(* cancelSignal before it.                                                 *)
(*                                                                         *)
(* The cached data is the number of writes to the rows behind it.  The     *)
(* Redis tier, which no writer drops, and the copying of values are left   *)
(* out.                                                                    *)
(***************************************************************************)
EXTENDS Naturals

CONSTANTS
  Pages,     \* requests that want the value
  Writers,
  Early,     \* the writers that drop the key before they write
  Ttl,       \* ttlSeconds of the key
  MaxLoad,   \* bound on the time a computation takes
  MaxTime,   \* bound on the clock
  Nothing    \* no entry, no load, not read yet

Entries == [value : Nat, freshUntil : Nat, staleUntil : Nat]
Loads   == [since : Nat, value : Nat \cup {Nothing}]

ASSUME CacheAssumption ==
  /\ Early \subseteq Writers
  /\ Ttl \in Nat \ {0} /\ {MaxLoad, MaxTime} \subseteq Nat
  /\ Nothing \notin Nat \cup Loads

VARIABLES
  now,
  row,       \* number of writes to the rows
  writer,    \* "idle", "half" (one of its two steps made), "done"
  wrote,     \* number and end of each writer's write
  entry,     \* memory.entries: value, freshUntil, staleUntil
  load,      \* memory.inflight: its start, and the value once it was read
  waiting,   \* pages that wait for the load
  shown      \* the last value a page got, and when

cacheVars == <<now, row, writer, wrote, entry, load, waiting, shown>>
rowVars == <<row, writer, wrote>>

CacheTypeOK ==
  /\ now \in 0 .. MaxTime /\ row \in Nat
  /\ writer \in [Writers -> {"idle", "half", "done"}]
  /\ wrote \in [Writers -> [number : Nat, end : Nat]]
  /\ entry # Nothing => entry \in Entries
  /\ load # Nothing => load \in Loads
  /\ waiting \subseteq Pages
  /\ waiting # {} => load # Nothing
  /\ shown # Nothing => shown \in [value : Nat, at : Nat]

CacheInit ==
  /\ now = 0 /\ row = 0
  /\ writer = [w \in Writers |-> "idle"]
  /\ wrote = [w \in Writers |-> [number |-> 0, end |-> 0]]
  /\ entry = Nothing /\ load = Nothing
  /\ waiting = {} /\ shown = Nothing
-----------------------------------------------------------------------------
(* A writer: two steps, with awaits between them.                          *)

Step(w) ==
  writer' = [writer EXCEPT ![w] = IF @ = "idle" THEN "half" ELSE "done"]

WriteRows(w) ==
  /\ writer[w] = IF w \in Early THEN "half" ELSE "idle"
  /\ row' = row + 1
  /\ wrote' = [wrote EXCEPT ![w] = [number |-> row + 1, end |-> now]]
  /\ Step(w)
  /\ UNCHANGED <<now, entry, load, waiting, shown>>

\* invalidateCachePrefix drops what is stored, not what is being computed.
Invalidate(w) ==
  /\ writer[w] = IF w \in Early THEN "idle" ELSE "half"
  /\ entry' = Nothing
  /\ wrote' = [wrote EXCEPT ![w].end = now]
  /\ Step(w)
  /\ UNCHANGED <<now, row, load, waiting, shown>>
-----------------------------------------------------------------------------
(* A page.                                                                 *)

Fresh == entry # Nothing /\ now < entry.freshUntil

\* Mutant: what was stored once is served until it is refreshed.
StaleForever == entry # Nothing /\ ~Fresh

Stale == entry # Nothing /\ ~Fresh /\ now < entry.staleUntil

Begin == load' = IF load = Nothing THEN [since |-> now, value |-> Nothing]
                                   ELSE load

Serve(v) == shown' = [value |-> v, at |-> now]

ServeFresh ==
  /\ Fresh
  /\ Serve(entry.value)
  /\ UNCHANGED <<now, rowVars, entry, load, waiting>>

\* The page gets what there is; a refresh is begun unless one is under way.
ServeStale ==
  /\ Stale
  /\ Serve(entry.value)
  /\ Begin
  /\ UNCHANGED <<now, rowVars, entry, waiting>>

Wait(p) ==
  /\ p \notin waiting
  /\ ~Fresh /\ ~Stale
  /\ Begin
  /\ waiting' = waiting \cup {p}
  /\ UNCHANGED <<now, rowVars, entry, shown>>
-----------------------------------------------------------------------------
(* The computation the pages share.                                        *)

ReadRows ==
  /\ load # Nothing /\ load.value = Nothing
  /\ load' = [load EXCEPT !.value = row]
  /\ UNCHANGED <<now, rowVars, entry, waiting, shown>>

StoreValue ==
  /\ load # Nothing /\ load.value # Nothing
  /\ entry' = [value |-> load.value, freshUntil |-> now + Ttl,
               staleUntil |-> now + 2 * Ttl]
  /\ (IF waiting = {} THEN UNCHANGED shown ELSE Serve(load.value))
  /\ load' = Nothing /\ waiting' = {}
  /\ UNCHANGED <<now, rowVars>>

\* A query fails: those who wait get the error, what is stored stays.
LoadFails ==
  /\ load # Nothing
  /\ load' = Nothing /\ waiting' = {}
  /\ UNCHANGED <<now, rowVars, entry, shown>>

\* The cache is full and this was its oldest entry.
Evict ==
  /\ entry # Nothing
  /\ entry' = Nothing
  /\ UNCHANGED <<now, rowVars, load, waiting, shown>>

\* Time passes; no computation takes longer than MaxLoad.
Tick ==
  /\ now < MaxTime
  /\ load # Nothing => now < load.since + MaxLoad
  /\ now' = now + 1
  /\ UNCHANGED <<rowVars, entry, load, waiting, shown>>

CacheNext ==
  \/ \E w \in Writers : WriteRows(w) \/ Invalidate(w)
  \/ ServeFresh \/ ServeStale \/ \E p \in Pages : Wait(p)
  \/ ReadRows \/ StoreValue \/ LoadFails \/ Evict \/ Tick

CacheSpec == CacheInit /\ [][CacheNext]_cacheVars
-----------------------------------------------------------------------------
(* Properties.                                                             *)

\* How old a page's value may be: a computation that began before a write may
\* store what it read after the writer dropped the key, and that is then
\* fresh for Ttl and stale for another Ttl; but a write that ended longer ago
\* is seen by everybody, refreshed, evicted or failed as the value may be.
StaleAtMost ==
  shown # Nothing =>
    \A w \in Writers :
      writer[w] = "done" /\ shown.at >= wrote[w].end + MaxLoad + 2 * Ttl
      => shown.value >= wrote[w].number
-----------------------------------------------------------------------------
(* A sentence of the code that its behaviour contradicts.                  *)

\* The key is dropped "after the write, so nobody can re-cache the old
\* numbers": once a writer is done, what is stored includes its write.
OldNumbersNotRecached ==
  \A w \in Writers :
    writer[w] = "done" /\ entry # Nothing => entry.value >= wrote[w].number
=============================================================================
