----------------------------- MODULE MCCatalogue ----------------------------
(***************************************************************************)
(* Finite instances of one listing, of its uploads, of the page it is made *)
(* with, of the public cache, of the economic calendar, of the reminders   *)
(* of one event and of the news, side by side: the modules share no state, *)
(* so a behaviour is one of any of them, chosen by `part` once and for     *)
(* all, while the others rest in their first state.                        *)
(***************************************************************************)
EXTENDS Listings, ProductAssets, ProductWizard, PublicCache, CalendarSync,
        EventReminders, NewsSync

VARIABLE part

shopVars == <<part, listingVars, assetVars, wizardVars, cacheVars>>
feedVars == <<part, calendarVars, reminderVars, newsVars>>
catalogueVars == <<shopVars, feedVars>>

CatalogueInit ==
  /\ part \in {"listings", "assets", "wizard", "cache", "calendar",
               "reminders", "news"}
  /\ ListingsInit
  /\ AssetsInit
  /\ WizardInit
  /\ CacheInit
  /\ CalendarInit
  /\ ReminderInit
  /\ NewsInit
  \* The provider lists every event at first.
  /\ \A e \in Events : upstream[e] = 0
  \* The instant of the event matters only to its reminders.
  /\ part # "reminders" => \A t \in EventTimes : event.time <= t

ListingsPart ==
  /\ part = "listings" /\ ListingsNext
  /\ UNCHANGED <<assetVars, wizardVars, cacheVars, feedVars>>
AssetsPart ==
  /\ part = "assets" /\ AssetsNext
  /\ UNCHANGED <<listingVars, wizardVars, cacheVars, feedVars>>
WizardPart ==
  /\ part = "wizard" /\ WizardNext
  /\ UNCHANGED <<listingVars, assetVars, cacheVars, feedVars>>
CachePart ==
  /\ part = "cache" /\ CacheNext
  /\ UNCHANGED <<listingVars, assetVars, wizardVars, feedVars>>
CalendarPart ==
  /\ part = "calendar" /\ CalendarNext
  /\ UNCHANGED <<shopVars, reminderVars, newsVars>>
RemindersPart ==
  /\ part = "reminders" /\ ReminderNext
  /\ UNCHANGED <<shopVars, calendarVars, newsVars>>
NewsPart ==
  /\ part = "news" /\ NewsNext
  /\ UNCHANGED <<shopVars, calendarVars, reminderVars>>

CatalogueNext ==
  \/ ListingsPart
  \/ AssetsPart
  \/ WizardPart
  \/ CachePart
  \/ CalendarPart
  \/ RemindersPart
  \/ NewsPart

CatalogueSpec == CatalogueInit /\ [][CatalogueNext]_catalogueVars

\* Bounds on what the seller enters: a wrong offer price, then a right one.
EditBounds == [basics |-> 1, pricing |-> 2, compatibility |-> 1]

\* There is one source of events.
Home == [e \in Events |-> CHOOSE s \in Sources : TRUE]

\* Three articles: the first and the third have one title, the second has no
\* currency and the third no topic.  Nothing that is checked here reads whose
\* alerts they are.
Published == <<"n1", "n2", "n3">>
Titles == [a \in Articles |-> IF a = "n2" THEN "other" ELSE "same"]
Topics == [a \in Articles |-> IF a = "n3" THEN Blank ELSE "rates"]
Currencies == [a \in Articles |-> IF a = "n2" THEN Blank ELSE "USD"]

\* Bound of the uploads: files and cover photos share nothing but storage, so
\* the product has the one or the other.
FilesOrCovers ==
  \/ \A i \in Items : state[i] = "none"
  \/ \A c \in CoverCalls : coverCall[c].at = "idle"

\* Bound of the news: one article is deleted or seen twice.
OneExcused == Cardinality(excused) <= 1

\* Bound of the reminders: one kind of disturbance in a behaviour.
OneDisturbance ==
  Cardinality({n \in 1 .. 5 : <<moved # {}, repeats > 0, forgotten # {},
                                lost # {}, ~event.row>>[n]}) <= 1
=============================================================================
