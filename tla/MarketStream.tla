---------------------------- MODULE MarketStream ----------------------------
(***************************************************************************)
(* The shared upstream WebSocket of the live chart                         *)
(* (market-data/providers/twelvedata-provider.ts,                          *)
(* market-data/subscription-registry.ts, api/market-data/stream/route.ts). *)
(*                                                                         *)
(* Each step is one turn of the event loop: a browser opens or closes its  *)
(* event stream, a socket reports "open" or "close", a timer fires.  The   *)
(* handlers of a socket outlive its place in this.ws: close() is answered  *)
(* by a "close" event in a later turn.  Ticks and bars are left out.       *)
(***************************************************************************)
EXTENDS Naturals, FiniteSets

CONSTANTS
  Browsers,    \* event streams that browsers may hold open
  Symbols,
  Intervals,
  Sockets,     \* bound on the WebSocket objects that are not closed at once
  None

BarKeys == Symbols \X Intervals

ASSUME StreamAssumption == None \notin Sockets \cup BarKeys

VARIABLES
  watched,     \* the bar key each browser is subscribed to
  refCount,    \* symbolRefCounts
  ws,          \* this.ws
  socket,      \* readyState of each WebSocket object; "closed" ones are reused
  upstream,    \* the symbols each socket is subscribed to
  reconnect,   \* is reconnectTimer set?
  heartbeat    \* heartbeatTimer: the socket whose "open" started it

streamVars == <<watched, refCount, ws, socket, upstream, reconnect, heartbeat>>

Retained == {y \in Symbols : refCount[y] > 0}
Watching(k) == {b \in Browsers : watched[b] = k}

\* A symbol is counted once per bar key that somebody watches, and nobody
\* reconnects for nothing.
StreamTypeOK ==
  /\ watched \in [Browsers -> BarKeys \cup {None}]
  /\ refCount = [y \in Symbols |->
       Cardinality({i \in Intervals : Watching(<<y, i>>) # {}})]
  /\ ws \in Sockets \cup {None}
  /\ socket \in [Sockets -> {"closed", "connecting", "open", "closing"}]
  /\ upstream \in [Sockets -> SUBSET Symbols]
  /\ heartbeat \in Sockets \cup {None}
  /\ reconnect \in BOOLEAN
  /\ reconnect => Retained # {}
  /\ ws # None => socket[ws] \in {"connecting", "open"}

StreamInit ==
  /\ watched = [b \in Browsers |-> None]
  /\ refCount = [y \in Symbols |-> 0]
  /\ ws = None
  /\ socket = [s \in Sockets |-> "closed"]
  /\ upstream = [s \in Sockets |-> {}]
  /\ reconnect = FALSE /\ heartbeat = None
-----------------------------------------------------------------------------
\* ensureConnected.
EnsureConnected ==
  IF ws # None THEN UNCHANGED <<ws, socket>>
  ELSE \E s \in Sockets :
         /\ socket[s] = "closed"
         /\ ws' = s /\ socket' = [socket EXCEPT ![s] = "connecting"]

\* send, through this.ws if it is open: "subscribe" adds symbols to what the
\* connection carries, "unsubscribe" takes them off it.
Send(added, dropped) ==
  IF ws # None /\ socket[ws] = "open"
  THEN upstream' = [upstream EXCEPT ![ws] = (@ \cup added) \ dropped]
  ELSE UNCHANGED upstream

\* subscribeBars: the first browser of a bar key retains its symbol.
Watch(b, k) ==
  /\ watched[b] = None
  /\ watched' = [watched EXCEPT ![b] = k]
  /\ IF Watching(k) # {} THEN UNCHANGED <<refCount, ws, socket, upstream>>
     ELSE /\ refCount' = [refCount EXCEPT ![k[1]] = @ + 1]
          /\ IF refCount[k[1]] > 0 THEN UNCHANGED <<ws, socket, upstream>>
             ELSE EnsureConnected /\ Send({k[1]}, {})
  /\ UNCHANGED <<reconnect, heartbeat>>

\* disconnect: the socket's handlers stay.
Disconnect ==
  /\ reconnect' = FALSE /\ heartbeat' = None /\ ws' = None
  /\ socket' = IF ws = None THEN socket
               ELSE [socket EXCEPT ![ws] = "closing"]

\* unsubscribeBars when a browser goes away: the last one of a bar key
\* releases its symbol, the last symbol the connection.
Leave(b) ==
  LET k == watched[b] IN
  /\ k # None
  /\ watched' = [watched EXCEPT ![b] = None]
  /\ IF Watching(k) # {b}
     THEN UNCHANGED <<refCount, ws, socket, upstream, reconnect, heartbeat>>
     ELSE /\ refCount' = [refCount EXCEPT ![k[1]] = @ - 1]
          /\ IF refCount[k[1]] > 1
             THEN UNCHANGED <<ws, socket, upstream, reconnect, heartbeat>>
             ELSE /\ Send({}, {k[1]})
                  /\ IF Retained = {k[1]} THEN Disconnect
                     ELSE UNCHANGED <<ws, socket, reconnect, heartbeat>>

\* The "open" event of a socket subscribes every symbol, through this.ws
\* (mutant: it subscribes nothing).
OpenWithoutSubscribing(s) ==
  /\ socket[s] = "connecting"
  /\ socket' = [socket EXCEPT ![s] = "open"]
  /\ heartbeat' = s
  /\ UNCHANGED <<watched, refCount, ws, upstream, reconnect>>

Opened(s) ==
  /\ socket[s] = "connecting"
  /\ socket' = [socket EXCEPT ![s] = "open"]
  /\ upstream' = IF ws # None /\ socket'[ws] = "open"
                 THEN [upstream EXCEPT ![ws] = @ \cup Retained] ELSE upstream
  /\ heartbeat' = s
  /\ UNCHANGED <<watched, refCount, ws, reconnect>>

\* handleClose, after close() or a failure of the network: whichever socket
\* it is, the stream forgets this.ws (mutant: and never comes back).
CloseForGood(s) ==
  /\ socket[s] # "closed"
  /\ socket' = [socket EXCEPT ![s] = "closed"]
  /\ upstream' = [upstream EXCEPT ![s] = {}]
  /\ heartbeat' = None /\ ws' = None
  /\ UNCHANGED <<watched, refCount, reconnect>>

Closed(s) ==
  /\ socket[s] # "closed"
  /\ socket' = [socket EXCEPT ![s] = "closed"]
  /\ upstream' = [upstream EXCEPT ![s] = {}]
  /\ heartbeat' = None /\ ws' = None
  /\ reconnect' = (reconnect \/ Retained # {})
  /\ UNCHANGED <<watched, refCount>>

\* The reconnect timer fires (mutant: it opens a socket beside this.ws).
ReconnectAnyway ==
  /\ reconnect
  /\ reconnect' = FALSE
  /\ \E s \in Sockets : /\ socket[s] = "closed"
                        /\ ws' = s
                        /\ socket' = [socket EXCEPT ![s] = "connecting"]
  /\ UNCHANGED <<watched, refCount, upstream, heartbeat>>

Reconnect ==
  /\ reconnect
  /\ reconnect' = FALSE
  /\ IF Retained # {} THEN EnsureConnected ELSE UNCHANGED <<ws, socket>>
  /\ UNCHANGED <<watched, refCount, upstream, heartbeat>>

StreamNext ==
  \/ \E b \in Browsers : Leave(b) \/ \E k \in BarKeys : Watch(b, k)
  \/ \E s \in Sockets : Opened(s) \/ Closed(s)
  \/ Reconnect

StreamSpec == StreamInit /\ [][StreamNext]_streamVars

\* close() is answered, a set timer fires, and a connection that is tried
\* again and again opens in the end.  Browsers and failures are free.
StreamFairness ==
  /\ WF_streamVars(Reconnect)
  /\ \A s \in Sockets : WF_streamVars(socket[s] = "closing" /\ Closed(s))
  /\ SF_streamVars(ws # None /\ Opened(ws))
  /\ WF_streamVars(ws # None /\ socket[ws] = "connecting"
                   /\ (Opened(ws) \/ Closed(ws)))

FairStreamSpec == StreamSpec /\ StreamFairness
-----------------------------------------------------------------------------
\* Whatever order subscriptions, releases, "open" and "close" events come in,
\* the connection in use carries exactly the symbols somebody watches.
CarriesWhatIsWatched ==
  ws # None /\ socket[ws] = "open" => upstream[ws] = Retained

\* Every state is well typed, and the connection in use carries what is watched.
StreamInv == StreamTypeOK /\ CarriesWhatIsWatched

\* The stream loses sight of a connection only when an abandoned socket's
\* "close" event arrives after a new socket was opened.
Strays == {s \in Sockets \ {ws} : socket[s] \in {"connecting", "open"}}
StrayNeedsLateClose ==
  [][Strays' \subseteq Strays
     \/ \E s \in Sockets \ {ws} : socket[s] # "closed" /\ socket'[s] = "closed"]_streamVars

\* A symbol that stays watched is carried in the end, whatever closes come.
WatchedIsCarried ==
  \A y \in Symbols : refCount[y] > 0 ~>
    refCount[y] = 0 \/ (ws # None /\ socket[ws] = "open" /\ y \in upstream[ws])

\* twelvedata-provider.ts:97: "Manages exactly one shared upstream WebSocket
\* connection for the whole process".
OneConnection ==
  Cardinality({s \in Sockets : socket[s] \in {"connecting", "open"}}) <= 1
=============================================================================
