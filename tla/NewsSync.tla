------------------------------ MODULE NewsSync ------------------------------
(***************************************************************************)
(* Synchronisation of news and the alerts it sends (news/sync-service.ts,  *)
(* dispatchNewsAlert in alerts/dispatch-service.ts).  Queue workers copy   *)
(* the articles a provider lists, newest first, into rows that are unique  *)
(* by external id and by the slug of the title, and announce those they    *)
(* saw no row for.                                                         *)
(*                                                                         *)
(* There is one enabled source whose provider lists anything.  An article  *)
(* is its external id; its title, topic and currency do not change, and    *)
(* neither do members' alert rows.  Whether a row is published or a draft  *)
(* is left out, because only administrators change it, and so are the      *)
(* articles administrators write: their slugs end in a time stamp.         *)
(***************************************************************************)
EXTENDS Naturals, Sequences, FiniteSetsExt, Functions

CONSTANTS
  Timeline,      \* articles in the order the provider publishes them
  Slug,          \* slugify(title)
  Topic,         \* the topic and the currency of each article, or Blank
  Currency,
  Blank,
  AlertRows,     \* Alert rows: [user, type, target]
  NewsWorkers,   \* worker processes, each with one job at a time
  FeedLength     \* how many articles the provider lists

Articles == Range(Timeline)

ASSUME NewsAssumption ==
  /\ Timeline \in Seq(Range(Timeline)) /\ FeedLength \in Nat
  /\ {Articles} = {DOMAIN Slug, DOMAIN Topic, DOMAIN Currency}
  /\ \A w \in AlertRows : w.target # Blank

VARIABLES
  published,     \* how many articles the provider has published
  saved,         \* articles that have a row
  job,           \* of each worker: what it fetched, how far it is, what it saw
  dispatching,   \* <<worker, article>>: announcements under way
  timesTold,     \* how often each article was announced, up to 2
  excused        \* articles that were deleted, or two jobs saw no row for

newsVars == <<published, saved, job, dispatching, timesTold, excused>>

\* What the provider lists, newest first.
Feed == [n \in 1 .. Min({published, FeedLength}) |-> Timeline[published + 1 - n]]

NoJob == [list |-> <<>>, done |-> 0, at |-> "idle"]
Working(j) == job[j].at # "idle"
Current(j) == job[j].list[job[j].done + 1]
JobAt(j, place) == job' = [job EXCEPT ![j].at = place]

NewsTypeOK ==
  /\ published \in 0 .. Len(Timeline)
  /\ saved \subseteq Articles
  /\ \A j \in NewsWorkers :
       /\ job[j].done <= Len(job[j].list)
       /\ job[j].at \in {"idle", "next", "known", "unknown"}
  /\ dispatching \subseteq NewsWorkers \X Articles
  /\ timesTold \in [Articles -> 0 .. 2]
  /\ excused \subseteq Articles

NewsInit ==
  /\ published = 0
  /\ job = [j \in NewsWorkers |-> NoJob]
  /\ saved = {} /\ dispatching = {} /\ excused = {}
  /\ timesTold = [a \in Articles |-> 0]
-----------------------------------------------------------------------------
(* runNewsSync.                                                            *)

ProviderPublishes ==
  /\ published < Len(Timeline)
  /\ published' = published + 1
  /\ UNCHANGED <<saved, job, dispatching, timesTold, excused>>

FetchArticles(j) ==
  /\ ~Working(j) /\ published > 0
  /\ job' = [job EXCEPT ![j] = [list |-> Feed, done |-> 0, at |-> "next"]]
  /\ UNCHANGED <<published, saved, dispatching, timesTold, excused>>

\* Is there a row?  Two jobs that see none for one article excuse it.
LookUpArticle(j) ==
  /\ job[j].at = "next" /\ job[j].done < Len(job[j].list)
  /\ LET a == Current(j)
         others == {k \in NewsWorkers \ {j} : job[k].at = "unknown" /\ Current(k) = a}
     IN  /\ JobAt(j, IF a \notin saved THEN "unknown" ELSE "known")
         /\ excused' = IF a \notin saved /\ others # {}
                       THEN excused \cup {a} ELSE excused
  /\ UNCHANGED <<published, saved, dispatching, timesTold>>

\* Mutant: rows are not unique by slug.
SlugNeverTaken(a) == FALSE

\* The slug is unique, and slugify gives equal titles equal slugs.
SlugTaken(a) == \E b \in saved \ {a} : Slug[b] = Slug[a]

\* The upsert.  A row that exists keeps its slug; a new one whose
\* slug is taken makes the upsert throw and ends the source's pass.
SaveArticle(j) ==
  LET a == Current(j) IN
  /\ job[j].at \in {"known", "unknown"}
  /\ IF a \notin saved /\ SlugTaken(a)
     THEN /\ job' = [job EXCEPT ![j] = NoJob]
          /\ UNCHANGED <<saved, dispatching>>
     ELSE /\ saved' = saved \cup {a}
          /\ dispatching' = IF job[j].at = "unknown"
                            THEN dispatching \cup {<<j, a>>} ELSE dispatching
          /\ job' = [job EXCEPT ![j].done = @ + 1, ![j].at = "next"]
  /\ UNCHANGED <<published, timesTold, excused>>

FinishNews(j) ==
  /\ job[j].at = "next" /\ job[j].done = Len(job[j].list)
  /\ job' = [job EXCEPT ![j] = NoJob]
  /\ UNCHANGED <<published, saved, dispatching, timesTold, excused>>

\* An awaited call throws, or the process ends and its announcements with it.
NewsJobFails(j) ==
  /\ Working(j)
  /\ job' = [job EXCEPT ![j] = NoJob]
  /\ \/ UNCHANGED dispatching
     \/ dispatching' = {d \in dispatching : d[1] # j}
  /\ UNCHANGED <<published, saved, timesTold, excused>>
-----------------------------------------------------------------------------
(* dispatchNewsAlert, which nobody waits for.                              *)

\* A topic or currency the article lacks is `undefined` in the query, which
\* then asks for every alert of the type.
Matches(a, w) ==
  \/ w.type = "NEWS_TOPIC" /\ Topic[a] \in {w.target, Blank}
  \/ w.type = "CURRENCY" /\ Currency[a] \in {w.target, Blank}

\* What the buttons that make an alert row say it is for.
AskedFor(a, w) ==
  \/ w.type = "NEWS_TOPIC" /\ Topic[a] = w.target
  \/ w.type = "CURRENCY" /\ Currency[a] = w.target

\* Whose alert rows an announcement of the article finds.
Told(a) == IF Topic[a] = Blank /\ Currency[a] = Blank THEN {}
           ELSE {w \in AlertRows : Matches(a, w)}

Announce(j, a) ==
  /\ <<j, a>> \in dispatching
  /\ dispatching' = dispatching \ {<<j, a>>}
  /\ timesTold' = [timesTold EXCEPT ![a] = IF @ = 2 THEN 2 ELSE @ + 1]
  /\ UNCHANGED <<published, saved, job, excused>>
-----------------------------------------------------------------------------
(* Administrators (admin/news-actions.ts).                                 *)

DeleteArticle(a) ==
  /\ a \in saved
  /\ saved' = saved \ {a}
  /\ excused' = excused \cup {a}
  /\ UNCHANGED <<published, job, dispatching, timesTold>>

NewsNext ==
  \/ ProviderPublishes
  \/ \E a \in Articles : DeleteArticle(a)
  \/ \E j \in NewsWorkers :
       \/ FetchArticles(j) \/ LookUpArticle(j) \/ SaveArticle(j) \/ FinishNews(j)
       \/ NewsJobFails(j)
       \/ \E a \in Articles : Announce(j, a)

NewsSpec == NewsInit /\ [][NewsNext]_newsVars
-----------------------------------------------------------------------------
(* Properties.                                                             *)

\* A job never passes an article it did not save: what it has behind it has a
\* row, unless an administrator deleted it.  So one title that occurs twice in
\* the provider's list keeps everything older than it out.
NothingPassedOver ==
  \A j \in NewsWorkers : Working(j) =>
    \A n \in 1 .. job[j].done :
      job[j].list[n] \in excused \cup saved

\* No two rows have one slug, by which readers find an article.
SlugsDiffer ==
  \A a, b \in saved : a # b => Slug[a] # Slug[b]

\* An article is announced twice only when two jobs saw no row for it, or when
\* an administrator deleted it and the provider still lists it.
AnnouncedAgainNeedsCause == \A a \in Articles : timesTold[a] > 1 => a \in excused

NewsInv ==
  /\ NewsTypeOK
  /\ NothingPassedOver
  /\ SlugsDiffer
  /\ AnnouncedAgainNeedsCause

-----------------------------------------------------------------------------
(* A sentence of the code that its behaviour contradicts.                  *)

\* "Alert me on <topic> news", "Alert me on new <currency> events": who is told
\* of an article asked to be.
ToldAsAsked ==
  \A a \in Articles :
    timesTold[a] > 0 => \A w \in Told(a) : AskedFor(a, w)
=============================================================================
