---------------------------- MODULE CalendarSync ----------------------------
(***************************************************************************)
(* Synchronisation of the economic calendar (services/calendar/            *)
(* auto-sync.ts and sync-service.ts): several passes, started by page      *)
(* views and the cron endpoint for the sources they claim, or by the queue *)
(* worker with no claim, copy what the providers list into one table.      *)
(*                                                                         *)
(* An upstream event is a number: 0 while it has no figure, n for its nth  *)
(* figure, Unlisted when the provider does not return it.  All events are  *)
(* high-impact ones that lie ahead, inside the window of every pass.  The  *)
(* age of a source stands for lastSyncAt: "now" is under a minute,         *)
(* "recent" under the interval.  The log of revisions is left out, and     *)
(* nobody enables or disables a source.                                    *)
(***************************************************************************)
EXTENDS Naturals, FiniteSets

CONSTANTS
  Sources,     \* enabled sources other than "manual"
  Events,
  SourceOf,    \* the source of each event
  Passes,      \* processes that run one pass at a time each
  Workers,     \* those of them that are queue workers
  MaxFigure,   \* bound on the figures of an event
  MaxChanges,  \* bound on the changes upstream
  MaxAlerts,   \* bound on the alerts counted for an event
  Unlisted

ASSUME CalendarAssumption ==
  /\ SourceOf \in [Events -> Sources] /\ Workers \subseteq Passes
  /\ {MaxFigure, MaxChanges, MaxAlerts} \subseteq Nat /\ Unlisted \notin Nat

VARIABLES
  upstream,    \* what the provider lists of each event
  changes,     \* how often that has changed
  eventRow,         \* EconomicEvent: status ("none" for no row) and actual
  alerts,      \* alerts sent for each event
  age,         \* of each source: "never", "now", "recent" or "due"
  failed,      \* sources whose lastSyncStatus is FAILED
  pass         \* where each pass stands and what it has read

tableVars == <<eventRow, alerts>>
sourceVars == <<age, failed>>
providerVars == <<upstream, changes>>
calendarVars == <<providerVars, tableVars, sourceVars, pass>>

Figures == 0 .. MaxFigure
RowStatus == {"none", "SCHEDULED", "RELEASED", "CANCELLED"}
NoPass == [at |-> "idle"]
Running(p) == "source" \in DOMAIN pass[p]
RunningOf(s) == {p \in Passes : Running(p) /\ pass[p].source = s}
At(p, place) == pass[p].at = place
Go(p, to) == pass' = [pass EXCEPT ![p] = to]

\* A running pass has a source in work that is not among those left, and has
\* planned nothing for another source's events.
CalendarTypeOK ==
  /\ upstream \in [Events -> Figures \cup {Unlisted}]
  /\ changes \in 0 .. MaxChanges
  /\ eventRow \in [Events -> [status : RowStatus, actual : Figures]]
  /\ alerts \in [Events -> 0 .. MaxAlerts]
  /\ age \in [Sources -> {"never", "now", "recent", "due"}]
  /\ failed \subseteq Sources
  /\ \A p \in Passes : Running(p) =>
       /\ pass[p].source \in Sources \ pass[p].rest
       /\ \A e \in pass[p].creates \cup pass[p].updates \cup pass[p].gone :
            SourceOf[e] = pass[p].source

CalendarInit ==
  /\ upstream \in [Events -> {0, Unlisted}] /\ changes = 0
  /\ eventRow = [e \in Events |-> [status |-> "none", actual |-> 0]]
  /\ alerts = [e \in Events |-> 0]
  /\ age = [s \in Sources |-> "never"] /\ failed = {}
  /\ pass = [p \in Passes |-> NoPass]
-----------------------------------------------------------------------------
(* runCalendarSyncIfDue.                                                   *)

\* Ages old enough for a claim.
OldEnough(forced) ==
  IF forced THEN {"never", "recent", "due"} ELSE {"never", "due"}

\* A page view or the cron endpoint reads the sources; a forced call goes on
\* to claim all of them.
ReadDue(p, forced) ==
  LET due == {s \in Sources : forced \/ age[s] \in OldEnough(FALSE)} IN
  /\ p \notin Workers /\ At(p, "idle") /\ due # {}
  /\ Go(p, [at |-> "claim", forced |-> forced, due |-> due, claimed |-> {}])
  /\ UNCHANGED <<providerVars, tableVars, sourceVars>>

\* claimSource: a compare-and-set on one source's lastSyncAt.
Claim(p, s) ==
  /\ At(p, "claim") /\ s \in pass[p].due
  /\ IF age[s] \in OldEnough(pass[p].forced)
     THEN /\ age' = [age EXCEPT ![s] = "now"] /\ failed' = failed \ {s}
          /\ Go(p, [pass[p] EXCEPT !.due = @ \ {s}, !.claimed = @ \cup {s}])
     ELSE /\ Go(p, [pass[p] EXCEPT !.due = @ \ {s}])
          /\ UNCHANGED sourceVars
  /\ UNCHANGED <<providerVars, tableVars>>

\* runCalendarSync goes on to its next source; "alone" tells whether no other
\* pass was at that source meanwhile (no part of the code).
NextSource(p, claimed, rest) ==
  \E s \in rest : LET others == RunningOf(s) \ {p} IN
    pass' = [q \in Passes |->
      IF q = p THEN [at |-> "fetch", claimed |-> claimed, source |-> s,
                     rest |-> rest \ {s}, got |-> <<>>, creates |-> {},
                     updates |-> {}, gone |-> {},
                     alone |-> others = {}]
      ELSE IF q \in others THEN [pass[q] EXCEPT !.alone = FALSE] ELSE pass[q]]

\* A pass that claimed anything runs every source; the queue worker runs them
\* whatever was claimed.
Run(p) ==
  /\ \/ p \in Workers /\ At(p, "idle") /\ NextSource(p, {}, Sources)
     \/ /\ At(p, "claim") /\ pass[p].due = {}
        /\ IF pass[p].claimed = {} THEN Go(p, NoPass)
           ELSE NextSource(p, pass[p].claimed, Sources)
  /\ UNCHANGED <<providerVars, tableVars, sourceVars>>

\* markSyncResult, and the next source or the look at the failed ones.
EndSource(p, bad) ==
  LET s == pass[p].source IN
  /\ age' = [age EXCEPT ![s] = "now"]
  /\ failed' = IF bad THEN failed \cup {s} ELSE failed \ {s}
  /\ IF pass[p].rest # {} THEN NextSource(p, pass[p].claimed, pass[p].rest)
     ELSE Go(p, [at |-> "retry", claimed |-> pass[p].claimed])

\* A claimed source that failed is due before a full interval has passed.
RetrySooner(p) ==
  /\ At(p, "retry")
  /\ age' = [s \in Sources |->
       IF s \in pass[p].claimed \cap failed THEN "recent" ELSE age[s]]
  /\ Go(p, NoPass)
  /\ UNCHANGED <<providerVars, tableVars, failed>>
-----------------------------------------------------------------------------
(* runCalendarSync, for one source.                                        *)

StatusOf(figure) == IF figure = 0 THEN "SCHEDULED" ELSE "RELEASED"
Listed(p) == {e \in DOMAIN pass[p].got : pass[p].got[e] # Unlisted}

\* provider.getEvents.
Fetch(p) ==
  /\ At(p, "fetch")
  /\ LET mine == {e \in Events : SourceOf[e] = pass[p].source} IN
     Go(p, [pass[p] EXCEPT !.at = "read", !.got = [e \in mine |-> upstream[e]]])
  /\ UNCHANGED <<providerVars, tableVars, sourceVars>>

\* needsRowUpdate (mutant: a row that has a figure is left alone).
NeedsRowUpdateOnce(r, figure) == r.actual = 0 /\ figure # 0
NeedsRowUpdate(r, figure) ==
  \/ figure # 0 /\ figure # r.actual
  \/ StatusOf(figure) # r.status

\* findExistingByExternalId, and the comparison with what was fetched.
ReadExisting(p) ==
  LET old == {e \in Listed(p) : eventRow[e].status # "none"}
      updates == {e \in old : NeedsRowUpdate(eventRow[e], pass[p].got[e])} IN
  /\ At(p, "read")
  /\ Go(p, [pass[p] EXCEPT !.at = "write", !.creates = Listed(p) \ old,
                            !.updates = updates])
  /\ UNCHANGED <<providerVars, tableVars, sourceVars>>

\* One row is updated, by the comparison made before: a figure that is not
\* reported is kept, and the status is written whether it changes or not.
UpdateRow(p, e) ==
  LET figure == pass[p].got[e] IN
  /\ At(p, "write") /\ e \in pass[p].updates
  /\ eventRow' = [eventRow EXCEPT ![e] = [status |-> StatusOf(figure),
               actual |-> IF figure = 0 THEN @.actual ELSE figure]]
  /\ Go(p, [pass[p] EXCEPT !.updates = @ \ {e}])
  /\ UNCHANGED <<providerVars, alerts, sourceVars>>

\* createMany with skipDuplicates.
CreateRows(p) ==
  /\ At(p, "write") /\ pass[p].updates = {}
  /\ eventRow' = [e \in Events |->
       IF e \in pass[p].creates /\ eventRow[e].status = "none"
       THEN [status |-> StatusOf(pass[p].got[e]), actual |-> pass[p].got[e]]
       ELSE eventRow[e]]
  /\ Go(p, [pass[p] EXCEPT !.at = "alert"])
  /\ UNCHANGED <<providerVars, alerts, sourceVars>>

\* Alerts for the rows the pass meant to create (mutant: for every event).
AlertListed(p) ==
  /\ At(p, "alert")
  /\ alerts' = [e \in Events |->
       IF e \in Listed(p) /\ alerts[e] < MaxAlerts
       THEN alerts[e] + 1 ELSE alerts[e]]
  /\ Go(p, [pass[p] EXCEPT !.at = "scheduled", !.creates = {}])
  /\ UNCHANGED <<providerVars, eventRow, sourceVars>>

Alert(p) ==
  /\ At(p, "alert")
  /\ alerts' = [e \in Events |->
       IF e \in pass[p].creates /\ alerts[e] < MaxAlerts
       THEN alerts[e] + 1 ELSE alerts[e]]
  /\ Go(p, [pass[p] EXCEPT !.at = "scheduled", !.creates = {}])
  /\ UNCHANGED <<providerVars, eventRow, sourceVars>>

\* The scheduled rows of the source that the provider stopped returning; an
\* empty answer counts for nothing.
Disappeared(p) ==
  IF Listed(p) = {} THEN {}
  ELSE {e \in (DOMAIN pass[p].got) \ Listed(p) : eventRow[e].status = "SCHEDULED"}

ReadScheduled(p) ==
  /\ At(p, "scheduled")
  /\ Go(p, [pass[p] EXCEPT !.at = "cancel", !.gone = Disappeared(p)])
  /\ UNCHANGED <<providerVars, tableVars, sourceVars>>

\* They are cancelled by id, whatever they are now.
CancelRows(p) ==
  /\ At(p, "cancel")
  /\ eventRow' = [e \in Events |->
       IF e \in pass[p].gone THEN [eventRow[e] EXCEPT !.status = "CANCELLED"] ELSE eventRow[e]]
  /\ Go(p, [pass[p] EXCEPT !.at = "mark", !.gone = {}])
  /\ UNCHANGED <<providerVars, alerts, sourceVars>>

MarkSuccess(p) ==
  /\ At(p, "mark") /\ EndSource(p, FALSE)
  /\ UNCHANGED <<providerVars, tableVars>>

\* A call of the provider or the database fails: the source is marked FAILED
\* and what was written stays.
FailSource(p) ==
  /\ Running(p)
  /\ EndSource(p, TRUE)
  /\ UNCHANGED <<providerVars, tableVars>>

\* The process ends.
Die(p) ==
  /\ ~At(p, "idle")
  /\ Go(p, NoPass)
  /\ UNCHANGED <<providerVars, tableVars, sourceVars>>
-----------------------------------------------------------------------------
\* The provider lists an event, drops it, or publishes its next figure.
Publish(e) ==
  /\ changes < MaxChanges /\ changes' = changes + 1
  /\ \/ upstream[e] = Unlisted /\ \E n \in {0, eventRow[e].actual} :
          upstream' = [upstream EXCEPT ![e] = n]
     \/ upstream[e] # Unlisted /\ upstream' = [upstream EXCEPT ![e] = Unlisted]
     \/ upstream[e] \in 0 .. MaxFigure - 1
        /\ upstream' = [upstream EXCEPT ![e] = @ + 1]
  /\ UNCHANGED <<tableVars, sourceVars, pass>>

Age(s) ==
  /\ \/ age[s] = "now" /\ age' = [age EXCEPT ![s] = "recent"]
     \/ age[s] = "recent" /\ age' = [age EXCEPT ![s] = "due"]
  /\ UNCHANGED <<providerVars, tableVars, failed, pass>>

SourceStep(p) ==
  \/ Fetch(p) \/ ReadExisting(p) \/ CreateRows(p) \/ Alert(p)
  \/ ReadScheduled(p) \/ CancelRows(p) \/ MarkSuccess(p)
  \/ \E e \in Events : UpdateRow(p, e)

CalendarNext ==
  \/ \E p \in Passes :
       \/ \E forced \in BOOLEAN : ReadDue(p, forced)
       \/ \E s \in Sources : Claim(p, s)
       \/ Run(p) \/ SourceStep(p) \/ RetrySooner(p) \/ FailSource(p) \/ Die(p)
  \/ \E e \in Events : Publish(e)
  \/ \E s \in Sources : Age(s)

CalendarSpec == CalendarInit /\ [][CalendarNext]_calendarVars
-----------------------------------------------------------------------------
\* A pass that no other pass met at its source leaves the table as the
\* provider listed it: every listed event with its status and figure, and no
\* dropped event scheduled unless the provider listed nothing at all.
LonePassCopies ==
  \A p \in Passes : At(p, "mark") /\ pass[p].alone =>
    /\ \A e \in Listed(p) :
         /\ eventRow[e].status = StatusOf(pass[p].got[e])
         /\ pass[p].got[e] \in {0, eventRow[e].actual}
    /\ Listed(p) # {} =>
         \A e \in (DOMAIN pass[p].got) \ Listed(p) : eventRow[e].status # "SCHEDULED"

\* Every pass holds what is its source's, and leaves the table as listed.
CalendarInv == CalendarTypeOK /\ LonePassCopies

\* A second alert for one event takes two passes at its source at once.
AlertedTwiceNeedsOverlap ==
  [][\A e \in Events : alerts'[e] > 1 /\ alerts'[e] > alerts[e] =>
       \E p \in Passes : At(p, "alert") /\ ~pass[p].alone]_calendarVars

\* auto-sync.ts:22: "Which process syncs is decided by an atomic
\* compare-and-set on the DataSource row (claimSource), so concurrent page
\* views / server instances / the cron endpoint never double-run a pass."
NeverDoubleRun == \A s \in Sources : Cardinality(RunningOf(s) \ Workers) <= 1

\* dispatch-service.ts: "Fired once per genuinely new HIGH-impact event".
AlertedOnce == \A e \in Events : alerts[e] <= 1
=============================================================================
