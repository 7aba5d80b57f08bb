--------------------------- MODULE EventReminders ---------------------------
(***************************************************************************)
(* "Remind me before this event": one member's subscriptions to one event  *)
(* of the calendar (alerts/actions.ts, alert-service.ts,                   *)
(* scheduleEventReminder in dispatch-service.ts), the delayed jobs they    *)
(* make and the worker that runs them (queue/workers/                      *)
(* event-reminder-worker.ts), while the event is moved or deleted.         *)
(*                                                                         *)
(* A job is named by the alert row it is for, and the queue, which is      *)
(* external, ignores a job whose name it still has.  Time is counted in    *)
(* units of the 30 minutes of notice.  The only channel is the one the     *)
(* buttons use, a notification on the site.                                *)
(***************************************************************************)
EXTENDS Naturals

CONSTANTS
  SubscribePages,    \* pages with the button, each with one call at a time
  AlertIds,
  NoAlert,
  LastHour,          \* bound of the clock
  EventTimes,        \* where the event may be
  MaxRepeats         \* bound on the attempts that fail

ASSUME ReminderAssumption ==
  /\ NoAlert \notin AlertIds /\ {LastHour, MaxRepeats} \subseteq Nat
  /\ EventTimes \subseteq Nat \ {0}

VARIABLES
  hour,        \* the clock
  event,       \* EconomicEvent: has it a row, and its eventTime
  alert,       \* the member's Alert row for the event
  usedIds,     \* alert ids ever given
  pageCall,    \* where the call of each page stands
  reminder,    \* the job of each alert
  notices,     \* notifications: for which alert, when, of an event when
  promised,    \* alerts whose call found the notice still ahead
  lost,        \* alerts whose job the queue did not take
  moved,       \* alerts that existed when the event moved
  repeats,     \* attempts that failed
  forgotten    \* alerts whose completed job the queue has forgotten

reminderVars == <<hour, event, alert, usedIds, pageCall, reminder, notices,
                  promised, lost, moved, repeats, forgotten>>
historyVars == <<promised, lost, moved, repeats, forgotten>>

NoCallYet == [at |-> "idle", for |-> NoAlert, due |-> 0]
NoReminder == [at |-> "none", due |-> 0, time |-> 0]
JobPlace == {"none", "delayed", "active", "done"}

\* Jobs are of alerts that existed, and only one of them is the member's.
ReminderTypeOK ==
  /\ hour \in 0 .. LastHour
  /\ event \in [row : BOOLEAN, time : EventTimes]
  /\ alert \in usedIds \cup {NoAlert} /\ usedIds \subseteq AlertIds
  /\ \A c \in SubscribePages :
       /\ pageCall[c].at \in {"idle", "read", "add"}
       /\ pageCall[c].for \in usedIds \cup {NoAlert}
  /\ \A i \in AlertIds :
       /\ reminder[i].at \in JobPlace
       /\ reminder[i].at # "none" => i \in usedIds
  /\ promised \cup lost \cup moved \cup forgotten \subseteq usedIds

ReminderInit ==
  /\ hour = 0
  /\ event \in [row : {TRUE}, time : EventTimes]
  /\ alert = NoAlert /\ usedIds = {}
  /\ pageCall = [c \in SubscribePages |-> NoCallYet]
  /\ reminder = [i \in AlertIds |-> NoReminder]
  /\ notices = {} /\ promised = {} /\ lost = {} /\ moved = {}
  /\ repeats = 0 /\ forgotten = {}
-----------------------------------------------------------------------------
(* The buttons.                                                            *)

\* subscribeToAlert: an upsert; a row that exists keeps its id.
UpsertAlert(c) ==
  /\ pageCall[c].at = "idle"
  /\ \E i \in IF alert = NoAlert THEN AlertIds \ usedIds ELSE {alert} :
       /\ alert' = i
       /\ usedIds' = usedIds \cup {i}
       /\ pageCall' = [pageCall EXCEPT ![c] = [at |-> "read", for |-> i, due |-> 0]]
  /\ UNCHANGED <<hour, event, reminder, notices, historyVars>>

\* Mutant: a job is made whenever the event is ahead.
EventAhead(t) == t > hour

\* The event is read for its time: no job when the notice is due already.
NoticeAhead(t) == t - 1 > hour

ReadEvent(c) ==
  /\ pageCall[c].at = "read"
  /\ IF event.row /\ NoticeAhead(event.time)
     THEN /\ pageCall' = [pageCall EXCEPT ![c].at = "add",
                                          ![c].due = event.time - 1]
          /\ promised' = promised \cup {pageCall[c].for}
     ELSE /\ pageCall' = [pageCall EXCEPT ![c] = NoCallYet]
          /\ UNCHANGED promised
  /\ UNCHANGED <<hour, event, alert, usedIds, reminder, notices, lost, moved,
                 repeats, forgotten>>

\* The queue takes the job unless it has one of that name.
AddReminder(c) ==
  LET i == pageCall[c].for IN
  /\ pageCall[c].at = "add"
  /\ reminder' = IF reminder[i].at # "none" THEN reminder
                 ELSE [reminder EXCEPT ![i] =
                         [at |-> "delayed", due |-> pageCall[c].due, time |-> 0]]
  /\ pageCall' = [pageCall EXCEPT ![c] = NoCallYet]
  /\ UNCHANGED <<hour, event, alert, usedIds, notices, historyVars>>

\* The queue does not answer; nobody waits for it.
AddFails(c) ==
  /\ pageCall[c].at = "add"
  /\ lost' = lost \cup {pageCall[c].for}
  /\ pageCall' = [pageCall EXCEPT ![c] = NoCallYet]
  /\ UNCHANGED <<hour, event, alert, usedIds, reminder, notices, promised, moved,
                 repeats, forgotten>>

\* unsubscribeFromAlert deletes the row and leaves its job.
Unsubscribe ==
  /\ alert # NoAlert
  /\ alert' = NoAlert
  /\ UNCHANGED <<hour, event, usedIds, pageCall, reminder, notices, historyVars>>
-----------------------------------------------------------------------------
(* The event: synchronisation or an administrator moves it, an             *)
(* administrator deletes it.  No job is changed.                           *)

Scheduled ==
  {i \in AlertIds : \/ reminder[i].at \in {"delayed", "active"}
                    \/ \E c \in SubscribePages :
                         pageCall[c].at = "add" /\ pageCall[c].for = i}

MoveEvent(t) ==
  /\ event.row /\ t # event.time /\ t > hour
  /\ event' = [event EXCEPT !.time = t]
  /\ moved' = moved \cup usedIds
  /\ UNCHANGED <<hour, alert, usedIds, pageCall, reminder, notices, promised, lost,
                 repeats, forgotten>>

DeleteEvent ==
  /\ event.row
  /\ event' = [event EXCEPT !.row = FALSE]
  /\ UNCHANGED <<hour, alert, usedIds, pageCall, reminder, notices, historyVars>>

HourPasses ==
  /\ hour < LastHour
  /\ hour' = hour + 1
  /\ UNCHANGED <<event, alert, usedIds, pageCall, reminder, notices, historyVars>>
-----------------------------------------------------------------------------
(* The worker.                                                             *)

\* It reads alert and event, and has nothing to do when one is gone.
StartReminder(i) ==
  /\ reminder[i].at = "delayed" /\ reminder[i].due <= hour
  /\ reminder' = [reminder EXCEPT
       ![i].at = IF alert = i /\ event.row THEN "active" ELSE "done",
       ![i].time = event.time]
  /\ UNCHANGED <<hour, event, alert, usedIds, pageCall, notices, historyVars>>

Notice(i) ==
  [for |-> i, at |-> hour, time |-> reminder[i].time, attempt |-> repeats]

\* The notification; nothing later looks at whether it was created.
Notify(i) ==
  /\ reminder[i].at = "active"
  /\ notices' = notices \cup {Notice(i)}
  /\ reminder' = [reminder EXCEPT ![i].at = "done"]
  /\ UNCHANGED <<hour, event, alert, usedIds, pageCall, historyVars>>

\* An attempt fails before or after the notification, and is made again.
ReminderFails(i) ==
  /\ reminder[i].at = "active" /\ repeats < MaxRepeats
  /\ notices' \in {notices, notices \cup {Notice(i)}}
  /\ reminder' = [reminder EXCEPT ![i].at = "delayed"]
  /\ repeats' = repeats + 1
  /\ UNCHANGED <<hour, event, alert, usedIds, pageCall, promised, lost, moved,
                 forgotten>>

\* The queue keeps the last hundred completed jobs only.
ForgetReminder(i) ==
  /\ reminder[i].at = "done"
  /\ reminder' = [reminder EXCEPT ![i] = NoReminder]
  /\ forgotten' = forgotten \cup {i}
  /\ UNCHANGED <<hour, event, alert, usedIds, pageCall, notices, promised, lost, moved,
                 repeats>>

ReminderNext ==
  \/ \E c \in SubscribePages :
       UpsertAlert(c) \/ ReadEvent(c) \/ AddReminder(c) \/ AddFails(c)
  \/ \E t \in EventTimes : MoveEvent(t)
  \/ Unsubscribe \/ DeleteEvent \/ HourPasses
  \/ \E i \in AlertIds :
       StartReminder(i) \/ Notify(i) \/ ReminderFails(i) \/ ForgetReminder(i)

ReminderSpec == ReminderInit /\ [][ReminderNext]_reminderVars
-----------------------------------------------------------------------------
(* Properties.                                                             *)

SentFor(i) == {n \in notices : n.for = i}

\* Who subscribed in time is reminded or still will be: the job of an alert
\* that exists is not lost to other calls, other pages or the deletion of an
\* earlier alert, unless the queue refused it.
PromiseIsKept ==
  event.row /\ alert \in promised \ lost =>
    SentFor(alert) # {} \/ alert \in Scheduled

\* Reminders come too early only when the event was moved after the alert.
EarlyNeedsMove == \A n \in notices : n.at + 1 < n.time => n.for \in moved

\* A member who subscribes from several pages, and again after unsubscribing,
\* is reminded once, unless the event was moved, an attempt was repeated or the
\* queue had forgotten the job when a slow call added it again.
RemindedTwiceNeedsCause ==
  \A m, n \in notices : m = n \/ moved # {} \/ repeats > 0 \/ forgotten # {}

ReminderInv ==
  /\ ReminderTypeOK
  /\ PromiseIsKept
  /\ EarlyNeedsMove
  /\ RemindedTwiceNeedsCause
-----------------------------------------------------------------------------
(* A sentence of the documents that the code contradicts.                  *)

\* "Economic event reminders fire 30 minutes ahead": no earlier.
FiresAhead == \A n \in notices : n.at + 1 >= n.time
=============================================================================
