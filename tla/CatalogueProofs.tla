--------------------------- MODULE CatalogueProofs --------------------------
(***************************************************************************)
(* What visitors are shown and told, for any number of pages, writers,     *)
(* calls, jobs and alerts and any times: how old what the cache shows may  *)
(* be, what of a listing was approved, what the page a listing is made     *)
(* with hands over and attaches, whom the reminders of an event reach,     *)
(* what the news jobs save and announce, and what the passes over the      *)
(* economic calendar write.  The modules share no state.                   *)
(***************************************************************************)
EXTENDS PublicCache, Listings, ProductWizard, EventReminders, NewsSync, ProductAssets,
        CalendarSync, SequenceTheorems, TLAPS

(* The public cache.                                                        *)

\* A computation under way is at most MaxLoad old, and saw every write that
\* ended before it began.
LoadInv ==
  load # Nothing =>
    /\ load.since <= now /\ now <= load.since + MaxLoad
    /\ load.value # Nothing =>
         \A w \in Writers :
           wrote[w].end < load.since => wrote[w].number <= load.value

\* What is stored was stored at staleUntil - 2 * Ttl, MaxLoad after its
\* computation began at the latest.
EntryInv ==
  entry # Nothing =>
    /\ entry.freshUntil <= entry.staleUntil
    /\ entry.staleUntil <= now + 2 * Ttl
    /\ \A w \in Writers :
         wrote[w].end + MaxLoad + 2 * Ttl < entry.staleUntil =>
           wrote[w].number <= entry.value

ShownInv ==
  shown # Nothing =>
    /\ shown.at <= now
    /\ \A w \in Writers :
         wrote[w].end + MaxLoad + 2 * Ttl <= shown.at =>
           wrote[w].number <= shown.value

AgeInv == CacheTypeOK /\ LoadInv /\ EntryInv /\ ShownInv

\* What the invariant says at the start: nothing was computed or shown yet.
LEMMA AgeInit == CacheInit => AgeInv
BY CacheAssumption DEF CacheInit, AgeInv, CacheTypeOK, Entries, Loads, LoadInv, EntryInv,
     ShownInv

\* Every step keeps the types.
LEMMA CacheTypeStep ==
  ASSUME CacheTypeOK, [CacheNext]_cacheVars
  PROVE  CacheTypeOK'
<1> USE CacheAssumption DEF Entries, Loads
<1>1. ASSUME NEW w \in Writers, WriteRows(w) PROVE CacheTypeOK'
  BY <1>1 DEF CacheTypeOK, WriteRows, Step
<1>2. ASSUME NEW w \in Writers, Invalidate(w) PROVE CacheTypeOK'
  BY <1>2 DEF CacheTypeOK, Invalidate, Step
<1>3. CASE ServeFresh
  BY <1>3 DEF CacheTypeOK, ServeFresh, Serve, Fresh, rowVars
<1>4. CASE ServeStale
  BY <1>4 DEF CacheTypeOK, ServeStale, Serve, Stale, Begin, rowVars
<1>5. ASSUME NEW p \in Pages, Wait(p) PROVE CacheTypeOK'
  BY <1>5 DEF CacheTypeOK, Wait, Begin, rowVars
<1>6. CASE ReadRows
  BY <1>6 DEF CacheTypeOK, ReadRows, rowVars
<1>7. CASE StoreValue
  BY <1>7 DEF CacheTypeOK, StoreValue, Serve, rowVars
<1>8. CASE LoadFails
  BY <1>8 DEF CacheTypeOK, LoadFails, rowVars
<1>9. CASE Evict
  BY <1>9 DEF CacheTypeOK, Evict, rowVars
<1>10. CASE Tick
  BY <1>10 DEF CacheTypeOK, Tick, rowVars
<1>11. CASE UNCHANGED cacheVars
  BY <1>11 DEF CacheTypeOK, cacheVars
<1> QED
  BY <1>1, <1>2, <1>3, <1>4, <1>5, <1>6, <1>7, <1>8, <1>9, <1>10, <1>11
     DEF CacheNext

\* A write and a drop of the key both end now: no computation, stored value or
\* page is later than that.
LEMMA AgeWriterStep ==
  ASSUME AgeInv, CacheTypeOK', NEW w \in Writers, WriteRows(w) \/ Invalidate(w)
  PROVE  LoadInv' /\ EntryInv' /\ ShownInv'
<1> USE CacheAssumption DEF AgeInv, CacheTypeOK, Entries, Loads
<1>1. /\ now' = now /\ load' = load /\ shown' = shown
      /\ wrote'[w].end = now
      /\ \A v \in Writers \ {w} : wrote'[v] = wrote[v]
      /\ entry' = entry \/ entry' = Nothing
  BY DEF WriteRows, Invalidate
<1>2. LoadInv'
  BY <1>1 DEF LoadInv
<1>3. EntryInv'
  BY <1>1 DEF EntryInv
<1>4. ShownInv'
  <2> SUFFICES ASSUME shown # Nothing, NEW v \in Writers,
                      wrote'[v].end + MaxLoad + 2 * Ttl <= shown.at
               PROVE  v # w
    BY <1>1 DEF ShownInv
  <2>1. shown.at <= now /\ shown.at \in Nat /\ now \in Nat
    BY <1>1 DEF ShownInv
  <2>2. MaxLoad \in Nat /\ Ttl \in Nat /\ Ttl > 0
    OBVIOUS
  <2>3. ~(now + MaxLoad + 2 * Ttl <= shown.at)
    BY <2>1, <2>2
  <2> QED
    BY <1>1, <2>3
<1> QED BY <1>2, <1>3, <1>4

\* A page gets what is stored before it is too old, and may begin a load.
LEMMA AgePageStep ==
  ASSUME AgeInv, CacheTypeOK',
         ServeFresh \/ ServeStale \/ \E p \in Pages : Wait(p)
  PROVE  LoadInv' /\ EntryInv' /\ ShownInv'
<1> USE CacheAssumption DEF AgeInv, CacheTypeOK, Entries, Loads
<1>1. /\ now' = now /\ entry' = entry /\ wrote' = wrote
      /\ load' = load \/ load' = [since |-> now, value |-> Nothing]
  BY DEF ServeFresh, ServeStale, Wait, Begin, rowVars
<1>2. LoadInv'
  BY <1>1 DEF LoadInv
<1>3. EntryInv'
  BY <1>1 DEF EntryInv
<1>4. \/ shown' = shown
      \/ /\ entry # Nothing /\ now < entry.staleUntil
         /\ shown' = [value |-> entry.value, at |-> now]
  BY DEF ServeFresh, ServeStale, Wait, Fresh, Stale, Serve, EntryInv
<1>5. ShownInv'
  BY <1>1, <1>4 DEF ShownInv, EntryInv
<1> QED BY <1>2, <1>3, <1>5

\* A computation reads the rows: whatever was written is in what it reads.
LEMMA AgeReadStep ==
  ASSUME AgeInv, CacheTypeOK', ReadRows,
         \A w \in Writers : wrote[w].number <= row
  PROVE  LoadInv' /\ EntryInv' /\ ShownInv'
<1> USE CacheAssumption DEF AgeInv, CacheTypeOK, Entries, Loads
<1>1. /\ now' = now /\ entry' = entry /\ wrote' = wrote /\ shown' = shown
      /\ load # Nothing /\ load' = [load EXCEPT !.value = row]
  BY DEF ReadRows, rowVars
<1>2. LoadInv'
  BY <1>1 DEF LoadInv
<1>3. EntryInv'
  BY <1>1 DEF EntryInv
<1>4. ShownInv'
  BY <1>1 DEF ShownInv
<1> QED BY <1>2, <1>3, <1>4

\* A computation stores its value and answers those who wait.
LEMMA AgeStoreStep ==
  ASSUME AgeInv, CacheTypeOK', StoreValue
  PROVE  LoadInv' /\ EntryInv' /\ ShownInv'
<1> USE CacheAssumption DEF AgeInv, CacheTypeOK, Entries, Loads
<1>1. /\ now' = now /\ wrote' = wrote /\ load' = Nothing
      /\ load # Nothing /\ load.value # Nothing
      /\ entry' = [value |-> load.value, freshUntil |-> now + Ttl,
                   staleUntil |-> now + 2 * Ttl]
      /\ shown' = shown \/ shown' = [value |-> load.value, at |-> now]
  BY DEF StoreValue, Serve, rowVars
<1>2. LoadInv'
  BY <1>1 DEF LoadInv
<1>3. ASSUME NEW w \in Writers, wrote[w].end + MaxLoad < now
      PROVE  wrote[w].number <= load.value
  BY <1>1, <1>3 DEF LoadInv
<1>4. EntryInv'
  BY <1>1, <1>3 DEF EntryInv
<1>5. ShownInv'
  BY <1>1, <1>3 DEF ShownInv
<1> QED BY <1>2, <1>4, <1>5

\* Time passes, or something is lost.
LEMMA AgeOtherStep ==
  ASSUME AgeInv, CacheTypeOK', LoadFails \/ Evict \/ Tick \/ UNCHANGED cacheVars
  PROVE  LoadInv' /\ EntryInv' /\ ShownInv'
<1> USE CacheAssumption DEF AgeInv, CacheTypeOK, Entries, Loads
<1>1. /\ now' = now \/ now' = now + 1
      /\ wrote' = wrote /\ shown' = shown
      /\ entry' = entry \/ entry' = Nothing
      /\ load' = load \/ load' = Nothing
      /\ load' # Nothing => now' <= load.since + MaxLoad
  BY DEF LoadFails, Evict, Tick, rowVars, cacheVars, LoadInv
<1>2. LoadInv'
  BY <1>1 DEF LoadInv
<1>3. EntryInv'
  BY <1>1 DEF EntryInv
<1>4. ShownInv'
  BY <1>1 DEF ShownInv
<1> QED BY <1>2, <1>3, <1>4

\* No writer's number is above the number of writes.
NumbersInv == CacheTypeOK /\ \A w \in Writers : wrote[w].number <= row

\* The numbering of the writes, needed where a computation reads the rows.
LEMMA NumbersStep ==
  ASSUME NumbersInv, CacheTypeOK', [CacheNext]_cacheVars
  PROVE  NumbersInv'
<1> USE DEF NumbersInv, CacheTypeOK
<1>1. ASSUME NEW w \in Writers, WriteRows(w) PROVE NumbersInv'
  BY <1>1 DEF WriteRows
<1>2. ASSUME NEW w \in Writers, Invalidate(w) PROVE NumbersInv'
  BY <1>2 DEF Invalidate
<1>3. CASE UNCHANGED <<row, wrote>>
  BY <1>3
<1>4. \/ \E w \in Writers : WriteRows(w) \/ Invalidate(w)
      \/ UNCHANGED <<row, wrote>>
  BY DEF CacheNext, ServeFresh, ServeStale, Wait, ReadRows, StoreValue,
         LoadFails, Evict, Tick, rowVars, cacheVars
<1> QED BY <1>1, <1>2, <1>3, <1>4

\* Types hold in every behaviour of the cache.
THEOREM CacheTyped == CacheSpec => []CacheTypeOK
<1>1. CacheInit => CacheTypeOK
  BY AgeInit DEF AgeInv
<1>2. CacheTypeOK /\ [CacheNext]_cacheVars => CacheTypeOK'
  BY CacheTypeStep
<1> QED BY <1>1, <1>2, PTL DEF CacheSpec

\* A write that ended MaxLoad + 2 * Ttl ago is in what every page is shown,
\* whatever was dropped, recomputed, evicted or failed meanwhile.
THEOREM CacheAge == CacheSpec => []StaleAtMost
<1>1. CacheInit => AgeInv /\ NumbersInv
  <2> SUFFICES ASSUME CacheInit PROVE AgeInv /\ NumbersInv
    OBVIOUS
  <2>1. AgeInv
    BY AgeInit
  <2>2. NumbersInv
    BY <2>1 DEF CacheInit, AgeInv, NumbersInv
  <2> QED BY <2>1, <2>2
<1>2. AgeInv /\ NumbersInv /\ [CacheNext]_cacheVars => AgeInv' /\ NumbersInv'
  <2> SUFFICES ASSUME AgeInv, NumbersInv, [CacheNext]_cacheVars
               PROVE  AgeInv' /\ NumbersInv'
    OBVIOUS
  <2>1. CacheTypeOK'
    BY CacheTypeStep DEF AgeInv
  <2>2. NumbersInv'
    BY <2>1, NumbersStep
  <2>3. LoadInv' /\ EntryInv' /\ ShownInv'
    <3>1. CASE \E w \in Writers : WriteRows(w) \/ Invalidate(w)
      BY <2>1, <3>1, AgeWriterStep
    <3>2. CASE ServeFresh \/ ServeStale \/ \E p \in Pages : Wait(p)
      BY <2>1, <3>2, AgePageStep
    <3>3. CASE ReadRows
      BY <2>1, <3>3, AgeReadStep DEF NumbersInv
    <3>4. CASE StoreValue
      BY <2>1, <3>4, AgeStoreStep
    <3>5. CASE LoadFails \/ Evict \/ Tick \/ UNCHANGED cacheVars
      BY <2>1, <3>5, AgeOtherStep
    <3> QED BY <3>1, <3>2, <3>3, <3>4, <3>5 DEF CacheNext
  <2> QED BY <2>1, <2>2, <2>3 DEF AgeInv
<1>3. AgeInv => StaleAtMost
  BY CacheAssumption DEF AgeInv, CacheTypeOK, ShownInv, StaleAtMost
<1> QED BY <1>1, <1>2, <1>3, PTL DEF CacheSpec

-----------------------------------------------------------------------------
(* Listings.                                                                *)

\* A listing that was ever published was reviewed, and a restoration that read
\* publishedAt as set read what stays true.
ListingHistory ==
  /\ ListingTypeOK
  /\ everPublished => reviewed # {}
  /\ \A c \in ListingCalls : reader[c] = "set" => everPublished

LEMMA CallsRead ==
  ASSUME ListingHistory, NEW c \in ListingCalls,
         NEW seen \in ListingStatus \cup PublishedAt \cup {"unread", "done"},
         reader' = [reader EXCEPT ![c] = seen]
  PROVE  /\ reader' \in [ListingCalls -> ListingStatus \cup PublishedAt \cup {"unread", "done"}]
         /\ reader'[c] = seen
         /\ \A d \in ListingCalls : d # c => reader'[d] = reader[d]
BY DEF ListingHistory, ListingTypeOK

LEMMA ListingStep ==
  ASSUME ListingHistory, [ListingsNext]_listingVars
  PROVE  ListingHistory'
<1>0. ListingTypeOK
  BY DEF ListingHistory
<1>1. ASSUME NEW e \in Edits, ReadForEdit(e)
      PROVE  ListingHistory'
  <2>1. e \in ListingCalls /\ reader' = [reader EXCEPT ![e] = listing]
        /\ UNCHANGED <<listing, everPublished, content, reviewed>>
    BY <1>1 DEF ReadForEdit, ListingCalls
  <2>2. listing \in ListingStatus /\ listing # "set"
    BY <1>0 DEF ListingTypeOK, ListingStatus
  <2> QED
    BY <1>0, <2>1, <2>2, CallsRead DEF ListingHistory, ListingTypeOK
<1>2. ASSUME NEW e \in Edits, Edit(e)
      PROVE  ListingHistory'
  <2>1. e \in ListingCalls /\ reader' = [reader EXCEPT ![e] = "done"]
        /\ content' = content + 1 /\ UNCHANGED <<everPublished, reviewed>>
        /\ listing' \in {listing, "PENDING_REVIEW"}
    BY <1>2 DEF Edit, EndCall, ListingCalls
  <2> QED
    BY <1>0, <2>1, CallsRead DEF ListingHistory, ListingTypeOK, ListingStatus
<1>3. CASE \/ SubmitForReview \/ ClaimForReview \/ RejectProduct \/ ApproveProduct
           \/ SuspendProduct \/ Unpublish \/ Remove
  <2>1. CASE ApproveProduct
    BY <1>0, <2>1 DEF ListingHistory, ListingTypeOK, ApproveProduct, ListingStatus
  <2>2. CASE SubmitForReview \/ ClaimForReview \/ RejectProduct \/ Unpublish \/ Remove
    <3>1. /\ listing' \in {"PENDING_REVIEW", "UNDER_REVIEW", "REJECTED", "DRAFT", "ARCHIVED"}
          /\ UNCHANGED <<everPublished, content, reviewed, reader>>
      BY <2>2 DEF SubmitForReview, ClaimForReview, RejectProduct, Unpublish, Remove, Decide
    <3> QED
      BY <1>0, <3>1 DEF ListingHistory, ListingTypeOK, ListingStatus
  <2>3. CASE SuspendProduct
    BY <1>0, <2>3 DEF ListingHistory, ListingTypeOK, SuspendProduct, Decide, ListingStatus
  <2> QED
    BY <1>3, <2>1, <2>2, <2>3
<1>4. ASSUME NEW c \in Restorers, ReadPublishedAt(c)
      PROVE  ListingHistory'
  <2>1. PICK seen \in PublishedAt : seen = IF everPublished THEN "set" ELSE "null"
    BY DEF PublishedAt
  <2>2. c \in ListingCalls /\ reader' = [reader EXCEPT ![c] = seen]
        /\ UNCHANGED <<listing, everPublished, content, reviewed>>
    BY <1>4, <2>1 DEF ReadPublishedAt, ListingCalls
  <2> QED
    BY <1>0, <2>1, <2>2, CallsRead DEF ListingHistory, ListingTypeOK
<1>5. ASSUME NEW c \in Restorers, Restore(c)
      PROVE  ListingHistory'
  <2>1. /\ c \in ListingCalls /\ reader' = [reader EXCEPT ![c] = "done"]
        /\ UNCHANGED <<everPublished, content, reviewed>>
        /\ listing' \in {"PUBLISHED", "PENDING_REVIEW"}
        /\ listing' = "PUBLISHED" => reader[c] = "set"
    BY <1>5 DEF Restore, RestoredTo, EndCall, ListingCalls
  <2>2. (reader[c] = "set") => (everPublished = TRUE)
    BY <1>0, <2>1 DEF ListingHistory, ListingTypeOK
  <2>3. /\ reader' \in [ListingCalls -> ListingStatus \cup PublishedAt \cup {"unread", "done"}]
        /\ \A d \in ListingCalls : reader'[d] = "set" => reader[d] = "set"
    BY <2>1, CallsRead
  <2> QED
    BY <1>0, <2>1, <2>2, <2>3 DEF ListingHistory, ListingTypeOK, ListingStatus
<1>6. CASE UNCHANGED listingVars
  BY <1>6 DEF listingVars, ListingHistory, ListingTypeOK
<1> QED
  BY <1>1, <1>2, <1>3, <1>4, <1>5, <1>6 DEF ListingsNext

\* What edits read, what was reviewed and what is listed agree in every state.
THEOREM ListingHistoryHolds == ListingsSpec => []ListingHistory
<1>1. ListingsInit => ListingHistory
  <2> SUFFICES ASSUME ListingsInit PROVE ListingHistory
    OBVIOUS
  <2>1. /\ reader = [c \in ListingCalls |-> "unread"]
        /\ listing = "DRAFT" /\ everPublished = FALSE /\ content = 0 /\ reviewed = {}
    BY DEF ListingsInit
  <2>2. ListingTypeOK
    BY <2>1 DEF ListingTypeOK, ListingStatus
  <2> QED
    BY <2>1, <2>2 DEF ListingHistory
<1>2. ListingHistory /\ [ListingsNext]_listingVars => ListingHistory'
  BY ListingStep
<1> QED
  BY <1>1, <1>2, PTL DEF ListingsSpec

\* ListingInv: whatever edits, decisions and restorations overlap
\* (updateOwnProduct, approveProduct, transitionListing), a listing reaches the
\* marketplace for the first time by an approval only.
THEOREM ListingsApproved == ListingsSpec => []ListingInv
<1>1. ListingHistory => ListingInv
  BY DEF ListingHistory, ListingInv, NeverLiveUnapproved, Live, ListingTypeOK
<1> QED
  BY <1>1, ListingHistoryHolds, PTL

\* DecisionsHold: what a live listing's row says was approved, and what was
\* taken down stays down until a moderator restores it, but for edits that read
\* the row before.
THEOREM OnlyStaleEditsUndo == ListingsSpec => DecisionsHold
<1>1. ListingHistory /\ [ListingsNext]_listingVars =>
        [UnreviewedOnlyBehindReview /\ TakenDownStaysDown]_listingVars
  <2> SUFFICES ASSUME ListingHistory, ListingsNext
               PROVE  UnreviewedOnlyBehindReview /\ TakenDownStaysDown
    OBVIOUS
  <2>0. ListingTypeOK
    BY DEF ListingHistory
  <2>1. ASSUME NEW e \in Edits, Edit(e)
        PROVE  UnreviewedOnlyBehindReview /\ TakenDownStaysDown
    <3>1. /\ e \in ListingCalls /\ reader[e] \in ListingStatus
          /\ reader' = [reader EXCEPT ![e] = "done"] /\ reviewed' = reviewed
          /\ listing' = IF ResetsReview(reader[e]) THEN "PENDING_REVIEW" ELSE listing
      BY <2>1 DEF Edit, EndCall, ListingCalls
    <3>2. Edited(e)
      BY <2>0, <3>1, CallsRead DEF Edited, ListingStatus
    <3> QED
      BY <3>1, <3>2 DEF UnreviewedOnlyBehindReview, TakenDownStaysDown, LiveUnreviewed, Live,
         ResetsReview, TakenDown
  <2>2. ASSUME NEW c \in Restorers, Restore(c)
        PROVE  UnreviewedOnlyBehindReview /\ TakenDownStaysDown
    <3>1. /\ c \in ListingCalls /\ reader[c] \in PublishedAt
          /\ reader' = [reader EXCEPT ![c] = "done"] /\ listing' = RestoredTo(reader[c])
      BY <2>2 DEF Restore, EndCall, ListingCalls
    <3>2. Restored(c)
      BY <2>0, <3>1, CallsRead DEF Restored, PublishedAt
    <3> QED
      BY <3>1, <3>2 DEF UnreviewedOnlyBehindReview, TakenDownStaysDown, LiveUnreviewed, Live,
         RestoredTo
  <2>3. CASE \/ SubmitForReview \/ ClaimForReview \/ RejectProduct \/ ApproveProduct
             \/ SuspendProduct \/ Unpublish \/ Remove
             \/ (\E e \in Edits : ReadForEdit(e))
             \/ (\E c \in Restorers : ReadPublishedAt(c))
    <3>1. \/ listing' # "PUBLISHED"
          \/ content' \in reviewed'
          \/ UNCHANGED <<listing, content, reviewed>>
      BY <2>3 DEF SubmitForReview, ClaimForReview, RejectProduct, ApproveProduct,
         SuspendProduct, Unpublish, Remove, Decide, ReadForEdit, ReadPublishedAt
    <3>2. listing \in TakenDown => listing' \in TakenDown
      BY <2>3 DEF SubmitForReview, Submittable, ClaimForReview, RejectProduct, ApproveProduct,
         SuspendProduct, Unpublish, Remove, Decide, ReadForEdit, ReadPublishedAt, TakenDown,
         Reviewable
    <3> QED
      BY <3>1, <3>2 DEF UnreviewedOnlyBehindReview, TakenDownStaysDown, LiveUnreviewed, Live
  <2> QED
    BY <2>1, <2>2, <2>3 DEF ListingsNext
<1> QED
  BY <1>1, ListingHistoryHolds, PTL DEF ListingsSpec, DecisionsHold

-----------------------------------------------------------------------------
(* The page a listing is made with.                                         *)

\* The groups of fields that are saved in the background.
Saved == {"pricing", "compatibility"}

\* Where the page is: beyond "Description" there is a product, behind a step
\* what was entered there has been handed over, and the last step alone ends.
PlaceInv ==
  /\ busy /\ step = 2 => ~product
  /\ finishing # "no" => step = 5
  /\ step >= 3 => product
  /\ step > 3 => entered["pricing"] = sent["pricing"]
  /\ step > 4 => entered["compatibility"] = sent["compatibility"]

\* Before the page knows of a draft, each draft made or still to be made cost a
\* lost answer, and no save is queued or under way.
DraftInv ==
  /\ drafts + lateDrafts <= 1 + faults
  /\ IF product THEN drafts > 0
     ELSE /\ drafts + lateDrafts <= faults /\ saves = <<>> /\ lateSaves = {}
          /\ \A g \in Saved : sent[g] = 0 /\ stored[g] = 0

\* One upload at a time, of the photo in the preview.
PhotoInv ==
  /\ upload = IF coverState = "uploading" THEN {cover} ELSE {}
  /\ ~product => coverState = "idle"
  /\ CoverAsShown

\* The last queued save of a group carries the version handed over last; of a
\* group without a queued save the row has that version, or a save has failed, as
\* it has when the server is still at work on one.
IsLast(i) == \A j \in DOMAIN saves : j > i => saves[j][1] # saves[i][1]
Queued(g) == \E i \in DOMAIN saves : saves[i][1] = g

SavesInv ==
  /\ \A i \in DOMAIN saves : IsLast(i) => saves[i][2] = sent[saves[i][1]]
  /\ \A g \in Saved : Queued(g) \/ stored[g] = sent[g] \/ failure \/ warned
  /\ lateSaves # {} => failure \/ warned
  /\ finishing = "submits" => saves = <<>> /\ ~failure

PageInv == WizardTypeOK /\ PlaceInv /\ DraftInv /\ PhotoInv /\ SavesInv

\* The steps by their places.
LEMMA StepRange == Len(Steps) = 5 /\ DOMAIN Steps = 1 .. 5
BY DEF Steps

LEMMA StepPlaces ==
  ASSUME step \in DOMAIN Steps
  PROVE  /\ step \in 1 .. 5 /\ Len(Steps) = 5
         /\ OnStep("basics") <=> step = 1
         /\ OnStep("description") <=> step = 2
         /\ OnStep("pricing") <=> step = 3
         /\ OnStep("compatibility") <=> step = 4
         /\ OnStep("submit") <=> step = 5
         /\ step = 3 => Steps[step] = "pricing"
         /\ step = 4 => Steps[step] = "compatibility"
         /\ Steps[step] \in Saved <=> step \in {3, 4}
BY DEF Steps, OnStep, Saved

LEMMA WizardTypeStep ==
  ASSUME PageInv, [WizardNext]_wizardVars
  PROVE  WizardTypeOK'
<1>0. WizardTypeOK
  BY DEF PageInv
<1>a. DOMAIN Steps = 1 .. 5
  BY DEF Steps
<1>1. ASSUME NEW g \in Groups, Enter(g)
      PROVE  WizardTypeOK'
  <2>1. entered' \in [Groups -> Nat]
    BY <1>0, <1>1 DEF WizardTypeOK, Enter
  <2>2. problem' \in BOOLEAN
    <3>1. problem' = ~Valid(g, entered[g] + 1) \/ problem' = problem
      BY <1>1 DEF Enter
    <3> QED
      BY <1>0, <3>1 DEF WizardTypeOK
  <2> QED
    BY <1>0, <1>1, <2>1, <2>2 DEF WizardTypeOK, Enter, savesVars, photoVars,
       productVars, lateVars
<1>2. CASE ChooseCover \/ RetryCover
  <2>1. /\ upload' \subseteq Nat /\ cover' \in Nat
        /\ coverState' \in {"idle", "uploading", "saved", "failed"}
    <3>1. /\ cover \in Nat /\ upload \subseteq Nat
          /\ coverState \in {"idle", "uploading", "saved", "failed"}
      BY <1>0 DEF WizardTypeOK
    <3>2. CASE ChooseCover
      <4>1. /\ cover' = cover + 1
            /\ upload' = upload \cup {cover + 1} \/ upload' = upload
            /\ coverState' \in {"uploading", "idle"}
        BY <3>2 DEF ChooseCover, BeginUpload
      <4>2. cover + 1 \in Nat
        BY <3>1
      <4>3. upload' \subseteq Nat
        BY <3>1, <4>1, <4>2, Zenon
      <4> QED
        BY <4>1, <4>2, <4>3, Zenon
    <3>3. CASE RetryCover
      <4>1. /\ cover' = cover /\ upload' = upload \cup {cover}
            /\ coverState' = "uploading"
        BY <3>3 DEF RetryCover, BeginUpload
      <4> QED
        BY <3>1, <4>1
    <3> QED
      BY <1>2, <3>2, <3>3
  <2>2. UNCHANGED <<step, busy, entered, problem, product, saves, sent, failure, finishing,
                    warned, drafts, stored, inReview, storedCover, storedLate, lateVars>>
    BY <1>2 DEF ChooseCover, RetryCover, wizardPage, formVars, savesVars, productVars
  <2> QED
    BY <1>0, <2>1, <2>2 DEF WizardTypeOK, lateVars
<1>3. CASE Create
  BY <1>0, <1>3 DEF WizardTypeOK, Create, Groups, formVars, photoVars, productVars, lateVars
<1>4. CASE GoOn
  <2>1. step' \in 1 .. 5 /\ problem' = FALSE
    <3>1. step \in 1 .. 5 /\ Len(Steps) = 5
      BY <1>0, StepPlaces DEF WizardTypeOK
    <3> QED
      BY <1>4, <3>1 DEF GoOn
  <2>2. sent' \in [Groups -> Nat] /\ saves' \in Seq(Saved \X Nat)
    <3>1. CASE product /\ Steps[step] \in {"pricing", "compatibility"}
      <4>1. PICK g \in Saved : g = Steps[step]
        BY <3>1 DEF Saved
      <4>2. g \in Groups /\ entered[g] \in Nat
        BY <1>0 DEF Saved, Groups, WizardTypeOK
      <4>3. /\ saves' = Append(saves, <<g, entered[g]>>)
            /\ sent' = [sent EXCEPT ![g] = entered[g]]
        BY <1>4, <3>1, <4>1 DEF GoOn, Save
      <4> QED
        BY <1>0, <4>2, <4>3 DEF WizardTypeOK, Saved
    <3>2. CASE UNCHANGED <<saves, sent>>
      BY <1>0, <3>2 DEF WizardTypeOK, Saved
    <3> QED
      BY <1>4, <3>1, <3>2 DEF GoOn
  <2> QED
    BY <1>0, <1>a, <1>4, <2>1, <2>2 DEF WizardTypeOK, GoOn, photoVars, productVars, lateVars,
       Saved
<1>5. CASE Back
  <2>1. step' \in 1 .. 5
    BY <1>0, <1>5, StepPlaces DEF Back, WizardTypeOK
  <2> QED
    BY <1>0, <1>a, <1>5, <2>1 DEF WizardTypeOK, Back, savesVars, photoVars, productVars,
       lateVars
<1>6. CASE Finish \/ Settled
  BY <1>0, <1>6 DEF WizardTypeOK, Finish, Settled, formVars, savesVars, photoVars,
     productVars, lateVars
<1>7. ASSUME NEW answered \in BOOLEAN
      PROVE  /\ \A photo \in upload : UploadCover(photo, answered) => WizardTypeOK'
             /\ Created(answered) => WizardTypeOK'
             /\ SaveEnds(answered) => WizardTypeOK'
             /\ Submitted(answered) => WizardTypeOK'
  <2>0. Lose => faults' \in Nat
    BY <1>0 DEF Lose, WizardTypeOK
  <2>1. ASSUME NEW photo \in upload, UploadCover(photo, answered)
        PROVE  WizardTypeOK'
    <3>1. /\ coverState' \in {"idle", "uploading", "saved", "failed"}
          /\ upload' \subseteq Nat /\ storedCover' \in Nat /\ faults' \in Nat
      BY <1>0, <2>0, <2>1 DEF WizardTypeOK, UploadCover
    <3>2. lateCovers' \subseteq Nat \X Nat
      BY <1>0, <2>1 DEF WizardTypeOK, UploadCover
    <3>3. storedLate' \in BOOLEAN
      BY <1>0, <2>1 DEF WizardTypeOK, UploadCover
    <3>4. UNCHANGED <<step, busy, entered, problem, product, saves, sent, failure, finishing,
                      warned, drafts, stored, inReview, cover, lateDrafts, lateSaves,
                      lateSubmit>>
      BY <2>1 DEF UploadCover, wizardPage, formVars, savesVars, productVars
    <3> QED
      BY <1>0, <3>1, <3>2, <3>3, <3>4 DEF WizardTypeOK
  <2>2. ASSUME Created(answered)
        PROVE  WizardTypeOK'
    <3>1. step = 2 /\ finishing = "no"
      BY <1>0, <2>2, StepPlaces DEF PageInv, PlaceInv, Created, WizardTypeOK
    <3>4. step' \in 1 .. 5 /\ problem' \in BOOLEAN /\ product' \in BOOLEAN
      <4>1. \/ step' = 3 /\ problem' = FALSE /\ product' = TRUE
            \/ step' = step /\ problem' = problem /\ product' = product
        <5>1. CASE answered
          BY <2>2, <3>1, <5>1 DEF Created
        <5>2. CASE ~answered
          BY <2>2, <5>2 DEF Created
        <5> QED
          BY <5>1, <5>2
      <4>2. problem \in BOOLEAN /\ product \in BOOLEAN
        BY <1>0 DEF WizardTypeOK
      <4>3. step' \in 1 .. 5
        BY <3>1, <4>1
      <4>4. problem' \in BOOLEAN /\ product' \in BOOLEAN
        BY <4>1, <4>2, Zenon
      <4> QED
        BY <4>3, <4>4
    <3>5. /\ stored' \in [Groups -> Nat] /\ drafts' \in Nat /\ faults' \in Nat
          /\ lateDrafts' \in Nat
      <4>1. \/ /\ stored' = [g \in Groups |-> IF g = "basics" THEN sent[g] ELSE 0]
               /\ drafts' = drafts + 1 /\ faults' = faults /\ lateDrafts' = lateDrafts
            \/ /\ stored' = stored /\ drafts' = drafts
               /\ Lose /\ lateDrafts' = lateDrafts + 1
        <5>1. CASE answered
          BY <2>2, <5>1 DEF Created
        <5>2. CASE ~answered
          BY <2>2, <5>2 DEF Created
        <5> QED
          BY <5>1, <5>2
      <4>3. /\ stored \in [Groups -> Nat] /\ sent \in [Groups -> Nat]
            /\ {drafts, lateDrafts, faults} \subseteq Nat
        BY <1>0 DEF WizardTypeOK
      <4> QED
        BY <2>0, <4>1, <4>3
    <3>2. coverState' \in {"idle", "uploading", "saved", "failed"} /\ upload' \subseteq Nat
      BY <1>0, <2>2 DEF Created, WizardTypeOK, BeginUpload
    <3>6. /\ busy' = FALSE
          /\ UNCHANGED <<entered, saves, sent, failure, finishing, warned, cover, storedCover,
                         storedLate, inReview, lateCovers, lateSaves, lateSubmit>>
      BY <2>2 DEF Created, savesVars
    <3> QED
      BY <1>0, <1>a, <3>1, <3>2, <3>4, <3>5, <3>6 DEF WizardTypeOK
  <2>3. ASSUME SaveEnds(answered)
        PROVE  WizardTypeOK'
    <3>1. saves' = Tail(saves) /\ saves # <<>> /\ Head(saves) \in Saved \X Nat
      BY <1>0, <2>3 DEF SaveEnds, WizardTypeOK, Saved
    <3>3. PICK g \in Saved, v \in Nat : g = Head(saves)[1] /\ v = Head(saves)[2]
      BY <3>1
    <3>4. /\ faults' = faults \/ Lose
          /\ stored' = stored \/ stored' = [stored EXCEPT ![g] = v]
          /\ lateSaves' = lateSaves \/ lateSaves' = lateSaves \cup {<<faults, Head(saves)>>}
      BY <2>3, <3>3 DEF SaveEnds
    <3>5. failure' \in BOOLEAN
      <4>1. failure' = (failure \/ ~answered)
        BY <2>3 DEF SaveEnds
      <4> QED
        BY <1>0, <4>1 DEF WizardTypeOK
    <3>2. saves' \in Seq(Saved \X Nat) /\ stored' \in [Groups -> Nat] /\ faults' \in Nat
      <4>1. saves \in Seq(Saved \X Nat) /\ stored \in [Groups -> Nat] /\ faults \in Nat
        BY <1>0 DEF WizardTypeOK, Saved
      <4>2. stored' \in [Groups -> Nat]
        BY <3>4, <4>1
      <4> QED
        BY <2>0, <3>1, <3>4, <4>1, <4>2
    <3>6. lateSaves' \subseteq Nat \X (Saved \X Nat)
      <4>1. lateSaves \subseteq Nat \X (Saved \X Nat) /\ faults \in Nat
        BY <1>0 DEF WizardTypeOK, Saved
      <4> QED
        BY <3>1, <3>4, <4>1
    <3>7. UNCHANGED <<step, busy, entered, problem, product, sent, finishing, warned, cover,
                      coverState, upload, storedCover, storedLate, drafts, inReview,
                      lateDrafts, lateCovers, lateSubmit>>
      BY <2>3 DEF SaveEnds, formVars, photoVars
    <3> QED
      BY <1>0, <3>2, <3>5, <3>6, <3>7 DEF WizardTypeOK, Saved
  <2>4. ASSUME Submitted(answered)
        PROVE  WizardTypeOK'
    <3>1. faults' \in Nat
      BY <1>0, <2>0, <2>4 DEF Submitted, WizardTypeOK
    <3>2. busy' = answered /\ finishing' = (IF answered THEN "done" ELSE "no")
      BY <2>4 DEF Submitted, AfterSubmit
    <3>3. inReview' \in BOOLEAN /\ lateSubmit' \in BOOLEAN
      <4>1. inReview' \in {TRUE, inReview} /\ lateSubmit' \in {TRUE, lateSubmit}
        BY <2>4 DEF Submitted
      <4>2. inReview \in BOOLEAN /\ lateSubmit \in BOOLEAN
        BY <1>0 DEF WizardTypeOK
      <4> QED
        BY <4>1, <4>2, Zenon
    <3>4. UNCHANGED <<step, entered, problem, product, saves, sent, failure, warned, cover,
                      coverState, upload, storedCover, storedLate, drafts, stored,
                      lateDrafts, lateCovers, lateSaves>>
      BY <2>4 DEF Submitted, formVars, savesVars, photoVars
    <3> QED
      BY <1>0, <3>1, <3>2, <3>3, <3>4 DEF WizardTypeOK
  <2> QED
    BY <2>1, <2>2, <2>3, <2>4
<1>8. CASE UNCHANGED wizardVars
  BY <1>0, <1>8 DEF WizardTypeOK, wizardVars
<1>9. ASSUME NEW call \in lateCovers, LateCover(call)
      PROVE  WizardTypeOK'
  <2>1. /\ storedCover' \in Nat /\ lateCovers' \subseteq Nat \X Nat /\ storedLate' = TRUE
    BY <1>0, <1>9 DEF WizardTypeOK, LateCover
  <2>2. UNCHANGED <<step, busy, entered, problem, product, saves, sent, failure, finishing,
                    warned, drafts, stored, inReview, cover, coverState, upload, faults,
                    lateDrafts, lateSaves, lateSubmit>>
    BY <1>9 DEF LateCover, wizardPage, formVars, savesVars, productVars
  <2> QED
    BY <1>0, <2>1, <2>2 DEF WizardTypeOK
<1>10. ASSUME NEW call \in lateSaves, LateSave(call)
       PROVE  WizardTypeOK'
  <2>1. PICK n \in Nat, g \in Saved, v \in Nat : call = <<n, <<g, v>>>>
    <3>1. call \in Nat \X (Saved \X Nat)
      BY <1>0 DEF WizardTypeOK, Saved
    <3> QED
      BY <3>1
  <2>2. stored' \in [Groups -> Nat]
    <3>1. stored' = [stored EXCEPT ![g] = v]
      BY <1>10, <2>1 DEF LateSave
    <3> QED
      BY <1>0, <3>1 DEF WizardTypeOK
  <2>3. lateSaves' \subseteq lateSaves
    BY <1>10 DEF LateSave
  <2>4. UNCHANGED <<step, busy, entered, problem, product, saves, sent, failure, finishing,
                    warned, drafts, inReview, cover, coverState, upload, storedCover,
                    storedLate, faults, lateDrafts, lateCovers, lateSubmit>>
    BY <1>10 DEF LateSave, wizardPage, formVars, savesVars, photoVars
  <2> QED
    BY <1>0, <2>2, <2>3, <2>4 DEF WizardTypeOK
<1>11. CASE LateDraft
  BY <1>0, <1>11 DEF WizardTypeOK, LateDraft, wizardPage, formVars, savesVars, photoVars
<1>12. CASE LateSubmit
  <2>1. /\ inReview' = TRUE /\ lateSubmit' = FALSE
        /\ UNCHANGED <<step, busy, entered, problem, product, saves, sent, failure, finishing,
                       warned, drafts, stored, cover, coverState, upload, storedCover,
                       storedLate, faults, lateDrafts, lateCovers, lateSaves>>
    BY <1>12 DEF LateSubmit, wizardPage, formVars, savesVars, photoVars
  <2> QED
    BY <1>0, <2>1 DEF WizardTypeOK
<1> QED
  BY <1>1, <1>2, <1>3, <1>4, <1>5, <1>6, <1>7, <1>8, <1>9, <1>10, <1>11, <1>12
     DEF WizardNext

LEMMA PlaceStep ==
  ASSUME PageInv, [WizardNext]_wizardVars
  PROVE  PlaceInv'
<1>0. WizardTypeOK /\ PlaceInv /\ DraftInv
  BY DEF PageInv
<1>a. step \in DOMAIN Steps /\ entered \in [Groups -> Nat] /\ sent \in [Groups -> Nat]
  BY <1>0 DEF WizardTypeOK
<1>1. ASSUME NEW g \in Groups, Enter(g)
      PROVE  PlaceInv'
  <2>1. \A f \in Saved : f # g => entered'[f] = entered[f]
    BY <1>1, <1>a DEF Enter, Saved, Groups
  <2>2. (g = "pricing" => step = 3) /\ (g = "compatibility" => step = 4)
    BY <1>1, <1>a, StepPlaces DEF Enter
  <2> QED
    BY <1>0, <1>1, <2>1, <2>2 DEF PlaceInv, Enter, Saved, savesVars
<1>2. CASE Create
  <2>1. /\ step = 2 /\ ~product /\ UNCHANGED <<step, entered, product, finishing>>
        /\ \A f \in Saved : sent'[f] = sent[f]
    BY <1>2, <1>a, StepPlaces DEF Create, NeedsDraft, formVars, Saved, Groups
  <2> QED
    BY <1>0, <2>1 DEF PlaceInv
<1>3. CASE GoOn
  <2>1. /\ ~busy /\ step' = step + 1 /\ step \in 1 .. 4
        /\ UNCHANGED <<busy, entered, product, finishing>>
        /\ step = 2 => product
    <3>1. /\ ~busy /\ step' = step + 1 /\ step < Len(Steps) /\ ~NeedsDraft
          /\ UNCHANGED <<busy, entered, product, finishing>>
      BY <1>3, Zenon DEF GoOn
    <3>2. step \in 1 .. 4
      BY <1>a, <3>1, StepRange
    <3>3. step = 2 => product
      BY <1>a, <3>1, StepPlaces DEF NeedsDraft
    <3> QED
      BY <3>1, <3>2, <3>3
  <2>2. step \in {3, 4} => Save(Steps[step])
    BY <1>0, <1>3, <1>a, StepPlaces DEF GoOn, PlaceInv, Saved
  <2>3. CASE step = 3
    <3>1. sent'["pricing"] = entered["pricing"]
      <4>1. Save("pricing")
        BY <1>a, <2>2, <2>3, StepPlaces
      <4> QED
        BY <1>a, <4>1 DEF Save, Groups
    <3> QED
      BY <1>0, <2>1, <2>3, <3>1 DEF PlaceInv
  <2>4. CASE step = 4
    <3>1. /\ sent'["compatibility"] = entered["compatibility"]
          /\ sent'["pricing"] = sent["pricing"]
      <4>1. Save("compatibility")
        BY <1>a, <2>2, <2>4, StepPlaces
      <4> QED
        BY <1>a, <4>1 DEF Save, Groups
    <3> QED
      BY <1>0, <2>1, <2>4, <3>1 DEF PlaceInv
  <2>5. CASE step \in {1, 2}
    BY <1>0, <2>1, <2>5 DEF PlaceInv
  <2> QED
    BY <2>1, <2>3, <2>4, <2>5
<1>4. CASE Back
  <2>1. /\ ~busy /\ step' = step - 1 /\ step \in 2 .. 5
        /\ UNCHANGED <<busy, entered, product, sent, finishing>>
    BY <1>4, <1>a, StepPlaces DEF Back, savesVars
  <2> QED
    BY <1>0, <2>1 DEF PlaceInv, WizardTypeOK
<1>5. CASE Finish
  <2>1. step = 5 /\ product /\ UNCHANGED <<step, entered, product, sent>>
    BY <1>5, <1>a, StepPlaces DEF Finish, savesVars, formVars
  <2> QED
    BY <1>0, <2>1 DEF PlaceInv
<1>6. CASE Settled
  <2>1. finishing = "waits" /\ UNCHANGED <<step, entered, product, sent>>
    BY <1>6 DEF Settled, formVars
  <2> QED
    BY <1>0, <2>1 DEF PlaceInv
<1>7. ASSUME NEW answered \in BOOLEAN, Created(answered)
      PROVE  PlaceInv'
  <2>1. step = 2 /\ ~product /\ finishing = "no"
    BY <1>0, <1>7, <1>a, StepPlaces DEF Created, PlaceInv
  <2>2. busy' = FALSE /\ finishing' = finishing
    BY <1>7 DEF Created
  <2>3. step' = step \/ (step' = 3 /\ product' = TRUE)
    <3>1. CASE answered
      BY <1>7, <2>1, <3>1 DEF Created
    <3>2. CASE ~answered
      BY <1>7, <3>2 DEF Created
    <3> QED
      BY <3>1, <3>2
  <2> QED
    BY <2>1, <2>2, <2>3 DEF PlaceInv
<1>8. ASSUME NEW answered \in BOOLEAN, Submitted(answered)
      PROVE  PlaceInv'
  <2>1. finishing = "submits" /\ UNCHANGED <<step, entered, product, sent>>
    BY <1>8 DEF Submitted, savesVars, formVars
  <2> QED
    BY <1>0, <2>1 DEF PlaceInv
<1>9. CASE UNCHANGED <<step, busy, entered, product, sent, finishing>>
  BY <1>0, <1>9 DEF PlaceInv
<1>10. ASSUME NEW answered \in BOOLEAN
       PROVE  (\E photo \in upload : UploadCover(photo, answered))
              \/ SaveEnds(answered)
              => UNCHANGED <<step, busy, entered, product, sent, finishing>>
  BY DEF UploadCover, SaveEnds, wizardPage, formVars, savesVars
<1>11. \/ ChooseCover \/ RetryCover \/ LateDraft \/ LateSubmit \/ UNCHANGED wizardVars
       \/ \E call \in lateCovers : LateCover(call)
       \/ \E call \in lateSaves : LateSave(call)
       => UNCHANGED <<step, busy, entered, product, sent, finishing>>
  BY DEF ChooseCover, RetryCover, LateDraft, LateSubmit, LateCover, LateSave, wizardPage,
     formVars, savesVars, wizardVars
<1> QED
  BY <1>1, <1>2, <1>3, <1>4, <1>5, <1>6, <1>7, <1>8, <1>9, <1>10, <1>11 DEF WizardNext

LEMMA DraftStep ==
  ASSUME PageInv, [WizardNext]_wizardVars
  PROVE  DraftInv'
<1>0. WizardTypeOK /\ PlaceInv /\ DraftInv
  BY DEF PageInv
<1>a. /\ step \in DOMAIN Steps /\ sent \in [Groups -> Nat] /\ stored \in [Groups -> Nat]
      /\ drafts \in Nat /\ faults \in Nat /\ lateDrafts \in Nat
  BY <1>0 DEF WizardTypeOK
<1>1. CASE Create
  <2>1. /\ UNCHANGED <<product, saves, drafts, stored, faults, lateDrafts, lateSaves>>
        /\ \A f \in Saved : sent'[f] = sent[f]
    BY <1>1, <1>a DEF Create, productVars, lateVars, Saved, Groups
  <2> QED
    BY <1>0, <2>1 DEF DraftInv
<1>2. CASE GoOn
  <2>1. /\ UNCHANGED <<product, drafts, stored, faults, lateDrafts, lateSaves>>
        /\ product \/ UNCHANGED <<saves, sent>>
    BY <1>2 DEF GoOn, productVars, lateVars
  <2> QED
    BY <1>0, <2>1 DEF DraftInv
<1>3. ASSUME NEW answered \in BOOLEAN, Created(answered)
      PROVE  DraftInv'
  <2>1. ~product
    BY <1>0, <1>3, <1>a, StepPlaces DEF Created, PlaceInv
  <2>2. UNCHANGED <<saves, sent, lateSaves>>
    BY <1>3 DEF Created, savesVars
  <2>3. CASE answered
    <3>1. drafts' = drafts + 1 /\ product' = TRUE /\ UNCHANGED <<faults, lateDrafts>>
      BY <1>3, <2>3 DEF Created
    <3> QED
      BY <1>0, <1>a, <2>1, <3>1 DEF DraftInv
  <2>4. CASE ~answered
    <3>1. /\ faults' = faults + 1 /\ lateDrafts' = lateDrafts + 1
          /\ UNCHANGED <<product, drafts, stored>>
      BY <1>3, <2>4 DEF Created, Lose
    <3> QED
      BY <1>0, <1>a, <2>1, <2>2, <3>1 DEF DraftInv
  <2> QED
    BY <2>3, <2>4
<1>4. ASSUME NEW answered \in BOOLEAN, SaveEnds(answered)
      PROVE  DraftInv'
  <2>1. saves # <<>> /\ UNCHANGED <<product, sent, drafts, lateDrafts>>
    BY <1>4 DEF SaveEnds
  <2>2. faults' = faults \/ faults' = faults + 1
    BY <1>4 DEF SaveEnds, Lose
  <2>3. product /\ product'
    BY <1>0, <2>1 DEF DraftInv
  <2>4. drafts > 0 /\ drafts + lateDrafts <= 1 + faults
    BY <1>0, <2>3 DEF DraftInv
  <2>5. drafts' > 0 /\ drafts' + lateDrafts' <= 1 + faults'
    BY <1>a, <2>1, <2>2, <2>4
  <2> QED
    BY <2>3, <2>5 DEF DraftInv
<1>5. ASSUME UNCHANGED <<product, saves, sent, drafts, stored, lateDrafts, lateSaves>>,
             faults' = faults \/ faults' = faults + 1
      PROVE  DraftInv'
  <2>1. drafts' + lateDrafts' <= 1 + faults'
    BY <1>0, <1>5, <1>a DEF DraftInv
  <2>2. CASE product
    BY <1>0, <1>5, <2>1, <2>2 DEF DraftInv
  <2>3. CASE ~product
    <3>1. drafts + lateDrafts <= faults
      BY <1>0, <2>3 DEF DraftInv
    <3>2. drafts' + lateDrafts' <= faults'
      BY <1>5, <1>a, <3>1
    <3>3. /\ saves' = <<>> /\ lateSaves' = {}
          /\ \A g \in Saved : sent'[g] = 0 /\ stored'[g] = 0
      BY <1>0, <1>5, <2>3 DEF DraftInv
    <3>4. ~product'
      BY <1>5, <2>3
    <3> QED
      BY <2>1, <3>2, <3>3, <3>4 DEF DraftInv
  <2> QED
    BY <2>2, <2>3
<1>6. ASSUME NEW answered \in BOOLEAN,
             \/ Submitted(answered)
             \/ \E photo \in upload : UploadCover(photo, answered)
      PROVE  DraftInv'
  <2>1. UNCHANGED <<product, saves, sent, drafts, stored, lateDrafts, lateSaves>>
    BY <1>6 DEF Submitted, UploadCover, wizardPage, savesVars, productVars
  <2>2. faults' = faults \/ faults' = faults + 1
    BY <1>6 DEF Submitted, UploadCover, Lose
  <2> QED
    BY <1>5, <2>1, <2>2
<1>7. CASE \/ \E g \in Groups : Enter(g)
           \/ ChooseCover \/ RetryCover \/ Back \/ Finish \/ Settled \/ UNCHANGED wizardVars
  <2>1. UNCHANGED <<product, saves, sent, drafts, stored, lateDrafts, lateSaves, faults>>
    BY <1>7 DEF Enter, ChooseCover, RetryCover, Back, Finish, Settled, wizardVars, wizardPage,
       savesVars, productVars, lateVars
  <2> QED
    BY <1>5, <2>1
<1>8. CASE LateSubmit \/ \E call \in lateCovers : LateCover(call)
  <2>1. UNCHANGED <<product, saves, sent, drafts, stored, lateDrafts, lateSaves, faults>>
    BY <1>8 DEF LateSubmit, LateCover, wizardPage, savesVars, productVars
  <2> QED
    BY <1>5, <2>1
<1>9. CASE LateDraft
  <2>1. /\ UNCHANGED <<product, saves, sent, stored, lateSaves, faults>>
        /\ drafts' = drafts + 1 /\ lateDrafts' = lateDrafts - 1
    BY <1>9 DEF LateDraft, wizardPage, savesVars
  <2> QED
    BY <1>0, <1>a, <2>1 DEF DraftInv
<1>10. ASSUME NEW call \in lateSaves, LateSave(call)
       PROVE  DraftInv'
  <2>1. product /\ drafts > 0
    BY <1>0, <1>10 DEF DraftInv
  <2>2. UNCHANGED <<product, drafts, lateDrafts, faults>>
    BY <1>10 DEF LateSave, wizardPage
  <2> QED
    BY <1>0, <2>1, <2>2 DEF DraftInv
<1> QED
  BY <1>1, <1>2, <1>3, <1>4, <1>6, <1>7, <1>8, <1>9, <1>10 DEF WizardNext


LEMMA PhotoStep ==
  ASSUME PageInv, [WizardNext]_wizardVars
  PROVE  PhotoInv'
<1>0. WizardTypeOK /\ PlaceInv /\ PhotoInv
  BY DEF PageInv
<1>1. CASE ChooseCover
  <2>1. /\ coverState # "uploading" /\ upload = {}
        /\ product' = product /\ cover' = cover + 1
    BY <1>0, <1>1 DEF ChooseCover, PickerEnabled, PhotoInv, wizardPage
  <2>2. \/ product /\ upload' = {cover'} /\ coverState' = "uploading"
        \/ ~product /\ upload' = {} /\ coverState' = "idle"
    BY <1>1, <2>1 DEF ChooseCover, BeginUpload
  <2> QED
    BY <2>1, <2>2 DEF PhotoInv, CoverAsShown
<1>2. CASE RetryCover
  <2>1. /\ upload = {} /\ product
    BY <1>0, <1>2 DEF RetryCover, PhotoInv
  <2>2. upload' = {cover'} /\ coverState' = "uploading" /\ product' = product
    BY <1>2, <2>1 DEF RetryCover, BeginUpload, wizardPage
  <2> QED
    BY <2>1, <2>2 DEF PhotoInv, CoverAsShown
<1>3. ASSUME NEW answered \in BOOLEAN,
             NEW photo \in upload, UploadCover(photo, answered)
      PROVE  PhotoInv'
  <2>1. coverState = "uploading" /\ upload = {cover} /\ photo = cover /\ product
    BY <1>0, <1>3 DEF PhotoInv
  <2>2. upload' = {} /\ cover' = cover /\ product' = product
    BY <1>3, <2>1 DEF UploadCover, wizardPage
  <2>3. \/ coverState' = "saved" /\ storedCover' = photo /\ storedLate' = FALSE
        \/ coverState' = "failed"
    <3>1. CASE answered
      BY <1>3, <3>1 DEF UploadCover
    <3>2. CASE ~answered
      BY <1>3, <3>2 DEF UploadCover
    <3> QED
      BY <3>1, <3>2
  <2> QED
    BY <2>1, <2>2, <2>3 DEF PhotoInv, CoverAsShown
<1>4. ASSUME NEW answered \in BOOLEAN, Created(answered)
      PROVE  PhotoInv'
  <2>1. step \in DOMAIN Steps
    BY <1>0 DEF WizardTypeOK
  <2>2. ~product
    BY <1>0, <1>4, <2>1, StepPlaces DEF Created, PlaceInv
  <2>3. coverState = "idle" /\ upload = {}
    BY <1>0, <2>2 DEF PhotoInv
  <2>4. cover' = cover /\ storedCover' = storedCover
    BY <1>4 DEF Created
  <2>5. \/ product' = TRUE /\ upload' = {cover} /\ coverState' = "uploading"
        \/ upload' = {} /\ coverState' = "idle"
    <3>1. CASE answered
      BY <1>4, <2>3, <3>1 DEF Created, BeginUpload
    <3>2. CASE ~answered
      BY <1>4, <2>3, <3>2 DEF Created
    <3> QED
      BY <3>1, <3>2
  <2> QED
    BY <2>4, <2>5 DEF PhotoInv, CoverAsShown
<1>5. ASSUME UNCHANGED <<product, photoVars>>
      PROVE  PhotoInv'
  BY <1>0, <1>5 DEF PhotoInv, CoverAsShown, photoVars
<1>6. ASSUME NEW answered \in BOOLEAN
      PROVE  SaveEnds(answered) \/ Submitted(answered)
               => UNCHANGED <<product, photoVars>>
  BY DEF SaveEnds, Submitted
<1>7. (\E g \in Groups : Enter(g)) \/ Create \/ GoOn \/ Back \/ Finish \/ Settled
        \/ UNCHANGED wizardVars
      => UNCHANGED <<product, photoVars>>
  BY DEF Enter, Create, GoOn, Save, Back, Finish, Settled, wizardVars, photoVars
<1>8. LateDraft \/ LateSubmit \/ (\E call \in lateSaves : LateSave(call))
      => UNCHANGED <<product, photoVars>>
  BY DEF LateDraft, LateSubmit, LateSave, wizardPage
<1>9. ASSUME NEW call \in lateCovers, LateCover(call)
      PROVE  PhotoInv'
  <2>1. UNCHANGED <<product, cover, coverState, upload>> /\ storedLate' = TRUE
    BY <1>9 DEF LateCover, wizardPage
  <2> QED
    BY <1>0, <2>1 DEF PhotoInv, CoverAsShown
<1> QED
  BY <1>1, <1>2, <1>3, <1>4, <1>5, <1>6, <1>7, <1>8, <1>9 DEF WizardNext

\* A save joins the queue: it is the last of its group from then on.
LEMMA SaveJoins ==
  ASSUME PageInv, WizardTypeOK', NEW g \in Saved, Save(g),
         UNCHANGED <<entered, stored, failure, warned, finishing, lateSaves>>,
         finishing # "submits"
  PROVE  SavesInv'
<1>0. WizardTypeOK /\ SavesInv
  BY DEF PageInv
<1>1. /\ saves \in Seq(Saved \X Nat) /\ entered \in [Groups -> Nat] /\ sent \in [Groups -> Nat]
      /\ g \in Groups
  BY <1>0 DEF WizardTypeOK, Saved, Groups
<1>2. /\ saves' = Append(saves, <<g, entered[g]>>)
      /\ sent' = [sent EXCEPT ![g] = entered[g]]
  BY DEF Save
<1>3. /\ Len(saves) \in Nat /\ DOMAIN saves = 1 .. Len(saves)
      /\ DOMAIN saves' = 1 .. (Len(saves) + 1)
      /\ saves'[Len(saves) + 1] = <<g, entered[g]>>
      /\ \A i \in DOMAIN saves : saves'[i] = saves[i] /\ saves[i] \in Saved \X Nat
  BY <1>1, <1>2
<1>4. ASSUME NEW i \in DOMAIN saves', IsLast(i)'
      PROVE  saves'[i][2] = sent'[saves'[i][1]]
  <2>1. CASE i = Len(saves) + 1
    BY <1>1, <1>2, <1>3, <2>1
  <2>2. CASE i \in DOMAIN saves
    <3>1. saves[i][1] # g
      BY <1>3, <1>4, <2>2 DEF IsLast
    <3>2. IsLast(i)
      BY <1>3, <1>4, <2>2 DEF IsLast
    <3>3. saves[i][2] = sent[saves[i][1]] /\ saves[i][1] \in Groups
      BY <1>0, <1>3, <2>2, <3>2 DEF SavesInv, Saved, Groups
    <3> QED
      BY <1>1, <1>2, <1>3, <2>2, <3>1, <3>3
  <2> QED
    BY <1>3, <2>1, <2>2
<1>5. ASSUME NEW f \in Saved
      PROVE  Queued(f)' \/ stored'[f] = sent'[f] \/ failure' \/ warned'
  <2>1. CASE f = g
    <3>1. saves'[Len(saves) + 1][1] = f /\ Len(saves) + 1 \in DOMAIN saves'
      BY <1>3, <2>1
    <3> QED
      BY <3>1 DEF Queued
  <2>2. CASE f # g
    <3>1. Queued(f) => Queued(f)'
      BY <1>3 DEF Queued
    <3>2. sent'[f] = sent[f]
      BY <1>1, <1>2, <2>2 DEF Saved, Groups
    <3> QED
      BY <1>0, <3>1, <3>2 DEF SavesInv
  <2> QED
    BY <2>1, <2>2
<1>6. lateSaves' # {} => failure' \/ warned'
  BY <1>0 DEF SavesInv
<1> QED
  BY <1>4, <1>5, <1>6 DEF SavesInv

\* The oldest save ends: as the last of its group it stores what was handed
\* over last, or it fails.
LEMMA SaveLeaves ==
  ASSUME PageInv, WizardTypeOK',
         NEW answered \in BOOLEAN, SaveEnds(answered)
  PROVE  SavesInv'
<1>0. WizardTypeOK /\ SavesInv
  BY DEF PageInv
<1>1. /\ saves \in Seq(Saved \X Nat) /\ stored \in [Groups -> Nat] /\ sent \in [Groups -> Nat]
  BY <1>0 DEF WizardTypeOK, Saved
<1>2. saves # <<>> /\ saves' = Tail(saves) /\ UNCHANGED <<sent, warned, finishing>>
  BY DEF SaveEnds
<1>3. /\ Len(saves) \in Nat \ {0} /\ DOMAIN saves = 1 .. Len(saves)
      /\ DOMAIN saves' = 1 .. (Len(saves) - 1)
      /\ \A i \in DOMAIN saves' : saves'[i] = saves[i + 1]
      /\ \A i \in DOMAIN saves : saves[i] \in Saved \X Nat
      /\ Head(saves) = saves[1]
  BY <1>1, <1>2
<1>4. PICK g \in Saved, v \in Nat : saves[1] = <<g, v>>
  BY <1>3
<1>5. /\ ~answered => failure'
      /\ failure => failure'
      /\ answered => stored' = [stored EXCEPT ![g] = v]
      /\ ~answered => stored' = stored
      /\ answered => lateSaves' = lateSaves
  <2>1. Head(saves)[1] = g /\ Head(saves)[2] = v
    BY <1>3, <1>4
  <2>2. failure' = (failure \/ ~answered)
    BY DEF SaveEnds
  <2>3. answered => stored' = [stored EXCEPT ![g] = v] /\ lateSaves' = lateSaves
    BY <2>1 DEF SaveEnds
  <2>4. ~answered => stored' = stored
    BY DEF SaveEnds
  <2> QED
    BY <2>2, <2>3, <2>4
<1>6. ASSUME NEW i \in DOMAIN saves', IsLast(i)'
      PROVE  saves'[i][2] = sent'[saves'[i][1]]
  <2>1. i + 1 \in DOMAIN saves /\ saves'[i] = saves[i + 1]
    BY <1>3
  <2>2. IsLast(i + 1)
    <3> SUFFICES ASSUME NEW j \in DOMAIN saves, j > i + 1
                 PROVE  saves[j][1] # saves[i + 1][1]
      BY DEF IsLast
    <3>1. j - 1 \in DOMAIN saves' /\ j - 1 > i /\ saves'[j - 1] = saves[j]
      BY <1>3
    <3> QED
      BY <1>6, <2>1, <3>1 DEF IsLast
  <2> QED
    BY <1>0, <1>2, <2>1, <2>2 DEF SavesInv
<1>7. ASSUME NEW f \in Saved
      PROVE  Queued(f)' \/ stored'[f] = sent'[f] \/ failure' \/ warned'
  <2>1. SUFFICES ASSUME ~Queued(f)', ~failure', ~warned'
                 PROVE  stored'[f] = sent[f]
    BY <1>2
  <2>2. answered /\ ~failure /\ ~warned /\ stored' = [stored EXCEPT ![g] = v]
    BY <1>2, <1>5, <2>1
  <2>3. \A j \in DOMAIN saves : j > 1 => saves[j][1] # f
    <3> SUFFICES ASSUME NEW j \in DOMAIN saves, j > 1
                 PROVE  saves[j][1] # f
      OBVIOUS
    <3>1. j - 1 \in DOMAIN saves' /\ saves'[j - 1] = saves[j]
      BY <1>3
    <3> QED
      BY <2>1, <3>1 DEF Queued
  <2>4. CASE f = g
    <3>1. 1 \in DOMAIN saves /\ saves[1][1] = g /\ saves[1][2] = v
      BY <1>3, <1>4
    <3>2. IsLast(1)
      BY <2>3, <2>4, <3>1 DEF IsLast
    <3>3. v = sent[g]
      BY <1>0, <3>1, <3>2 DEF SavesInv
    <3> QED
      BY <1>1, <2>2, <2>4, <3>3 DEF Saved, Groups
  <2>5. CASE f # g
    <3>1. ~Queued(f)
      BY <1>3, <1>4, <2>3, <2>5 DEF Queued
    <3>2. stored[f] = sent[f]
      BY <1>0, <2>2, <3>1 DEF SavesInv
    <3> QED
      BY <1>1, <2>2, <2>5, <3>2 DEF Saved, Groups
  <2> QED
    BY <2>4, <2>5
<1>8. finishing' # "submits"
  BY <1>0, <1>2 DEF SavesInv
<1>9. lateSaves' # {} => failure' \/ warned'
  BY <1>0, <1>2, <1>5 DEF SavesInv
<1> QED
  BY <1>6, <1>7, <1>8, <1>9 DEF SavesInv


LEMMA SavesStep ==
  ASSUME PageInv, WizardTypeOK', [WizardNext]_wizardVars
  PROVE  SavesInv'
<1>0. WizardTypeOK /\ PlaceInv /\ DraftInv /\ SavesInv
  BY DEF PageInv
<1>a. /\ step \in DOMAIN Steps /\ sent \in [Groups -> Nat]
      /\ finishing # "no" => busy
      /\ \A g \in Saved : g \in Groups /\ g # "basics"
  BY <1>0 DEF WizardTypeOK, Saved, Groups
<1>1. ASSUME UNCHANGED <<saves, lateSaves>>,
             \A g \in Saved : sent'[g] = sent[g] /\ stored'[g] = stored[g],
             failure => failure' \/ warned',
             warned => warned',
             finishing' = "submits" => saves = <<>> /\ ~failure'
      PROVE  SavesInv'
  <2>1. \A g \in Saved : Queued(g)' <=> Queued(g)
    BY <1>1 DEF Queued
  <2>2. ASSUME NEW i \in DOMAIN saves', IsLast(i)'
        PROVE  saves'[i][2] = sent'[saves'[i][1]]
    <3>1. IsLast(i) /\ saves[i][1] \in Saved
      BY <1>0, <1>1, <2>2 DEF IsLast, WizardTypeOK, Saved
    <3> QED
      BY <1>0, <1>1, <3>1 DEF SavesInv
  <2>3. \A g \in Saved : Queued(g)' \/ stored'[g] = sent'[g] \/ failure' \/ warned'
    BY <1>0, <1>1, <2>1 DEF SavesInv
  <2>4. lateSaves' # {} => failure' \/ warned'
    BY <1>0, <1>1 DEF SavesInv
  <2> QED
    BY <1>1, <2>2, <2>3, <2>4 DEF SavesInv
<1>2. CASE UNCHANGED <<saves, sent, failure, warned, finishing, stored, lateSaves>>
  BY <1>0, <1>1, <1>2 DEF SavesInv
<1>3. CASE Create
  <2>1. UNCHANGED <<saves, failure, warned, finishing, stored, lateSaves>>
    BY <1>3 DEF Create, productVars, lateVars
  <2>2. \A g \in Saved : sent'[g] = sent[g]
    BY <1>3, <1>a DEF Create
  <2> QED
    BY <1>0, <1>1, <2>1, <2>2 DEF SavesInv
<1>4. CASE GoOn
  <2>1. /\ ~busy /\ UNCHANGED <<entered, stored, failure, warned, finishing, lateSaves>>
    BY <1>4 DEF GoOn, productVars, lateVars
  <2>2. finishing # "submits"
    BY <1>a, <2>1
  <2>3. CASE product /\ Steps[step] \in Saved
    <3>1. Save(Steps[step])
      BY <1>4, <2>3 DEF GoOn, Saved
    <3> QED
      BY <2>1, <2>2, <2>3, <3>1, SaveJoins
  <2>4. CASE UNCHANGED <<saves, sent>>
    BY <1>0, <1>1, <2>1, <2>4 DEF SavesInv
  <2> QED
    BY <1>4, <2>3, <2>4 DEF GoOn, Saved
<1>5. ASSUME NEW answered \in BOOLEAN, Created(answered)
      PROVE  SavesInv'
  <2>1. ~product
    BY <1>0, <1>5, <1>a, StepPlaces DEF Created, PlaceInv
  <2>2. \A g \in Saved : stored[g] = 0
    BY <1>0, <2>1 DEF DraftInv
  <2>3. UNCHANGED <<saves, sent, failure, warned, finishing, lateSaves>>
    BY <1>5 DEF Created, savesVars
  <2>4. \A g \in Saved : stored'[g] = stored[g]
    <3>1. CASE answered
      BY <1>5, <1>a, <2>2, <3>1 DEF Created
    <3>2. CASE ~answered
      BY <1>5, <3>2 DEF Created
    <3> QED
      BY <3>1, <3>2
  <2> QED
    BY <1>0, <1>1, <2>3, <2>4 DEF SavesInv
<1>6. CASE Settled
  <2>1. saves = <<>> /\ UNCHANGED <<saves, sent, stored, lateSaves>> /\ failure' = FALSE
    BY <1>6 DEF Settled, SavesSettled, productVars, lateVars
  <2>2. failure => warned' = TRUE
    BY <1>6 DEF Settled
  <2>3. warned => warned'
    <3>1. CASE failure
      BY <2>2, <3>1, Zenon
    <3>2. CASE ~failure
      BY <1>6, <3>2, Zenon DEF Settled
    <3> QED
      BY <3>1, <3>2
  <2>4. UNCHANGED <<saves, lateSaves>> /\ \A g \in Saved :
          sent'[g] = sent[g] /\ stored'[g] = stored[g]
    BY <2>1
  <2>5. finishing' = "submits" => saves = <<>> /\ ~failure'
    BY <2>1
  <2>6. failure => failure' \/ warned'
    BY <2>2
  <2> QED
    BY <1>1, <2>3, <2>4, <2>5, <2>6
<1>7. ASSUME NEW answered \in BOOLEAN, Submitted(answered)
      PROVE  SavesInv'
  <2>1. /\ finishing' # "submits"
        /\ UNCHANGED <<saves, sent, failure, warned, stored, lateSaves>>
    BY <1>7 DEF Submitted, AfterSubmit, savesVars
  <2> QED
    BY <1>1, <2>1
<1>8. CASE Finish
  <2>1. /\ finishing' # "submits"
        /\ UNCHANGED <<saves, sent, failure, warned, stored, lateSaves>>
    BY <1>8 DEF Finish, savesVars, productVars, lateVars
  <2> QED
    BY <1>1, <2>1
<1>9. ASSUME NEW answered \in BOOLEAN
      PROVE  (\E photo \in upload : UploadCover(photo, answered))
               => UNCHANGED <<saves, sent, failure, warned, finishing, stored, lateSaves>>
  BY DEF UploadCover, wizardPage, savesVars, productVars
<1>10. \/ \E g \in Groups : Enter(g)
       \/ ChooseCover \/ RetryCover \/ Back \/ UNCHANGED wizardVars
       \/ LateDraft \/ LateSubmit \/ \E call \in lateCovers : LateCover(call)
       => UNCHANGED <<saves, sent, failure, warned, finishing, stored, lateSaves>>
  BY DEF Enter, ChooseCover, RetryCover, Back, LateDraft, LateSubmit, LateCover, wizardPage,
     savesVars, productVars, lateVars, wizardVars
<1>11. ASSUME NEW call \in lateSaves, LateSave(call)
       PROVE  SavesInv'
  <2>1. UNCHANGED <<saves, sent, failure, warned, finishing>> /\ lateSaves' \subseteq lateSaves
    BY <1>11 DEF LateSave, wizardPage, savesVars
  <2>2. failure' \/ warned'
    BY <1>0, <1>11, <2>1 DEF SavesInv
  <2>3. ASSUME NEW i \in DOMAIN saves', IsLast(i)'
        PROVE  saves'[i][2] = sent'[saves'[i][1]]
    <3>1. IsLast(i)
      BY <2>1, <2>3 DEF IsLast
    <3> QED
      BY <1>0, <2>1, <3>1 DEF SavesInv
  <2>4. finishing' = "submits" => saves' = <<>> /\ ~failure'
    BY <1>0, <2>1 DEF SavesInv
  <2> QED
    BY <2>2, <2>3, <2>4 DEF SavesInv
<1> QED
  BY <1>2, <1>3, <1>4, <1>5, <1>6, <1>7, <1>8, <1>9, <1>10, <1>11, SaveLeaves DEF WizardNext

\* The page and the row agree on everything but what is queued or was reported
\* as lost, in every state.
THEOREM PageInvariant == WizardSpec => []PageInv
<1>1. WizardInit => PageInv
  <2> SUFFICES ASSUME WizardInit PROVE PageInv
    OBVIOUS
  <2>1. WizardTypeOK
    <3>1. saves \in Seq({"pricing", "compatibility"} \X Nat)
      BY DEF WizardInit
    <3>2. /\ step \in DOMAIN Steps
          /\ {cover, storedCover, drafts, faults, lateDrafts} \subseteq Nat
          /\ upload \subseteq Nat /\ lateCovers = {} /\ lateSaves = {}
      BY StepRange DEF WizardInit
    <3>3. /\ entered \in [Groups -> Nat] /\ sent \in [Groups -> Nat]
          /\ stored \in [Groups -> Nat]
      BY DEF WizardInit
    <3>4. /\ busy \in BOOLEAN /\ problem \in BOOLEAN
          /\ {product, failure, warned, inReview} \subseteq BOOLEAN
          /\ {lateSubmit, storedLate} \subseteq BOOLEAN
      BY DEF WizardInit
    <3>5. finishing = "no" /\ coverState = "idle"
      BY DEF WizardInit
    <3> QED
      BY <3>1, <3>2, <3>3, <3>4, <3>5 DEF WizardTypeOK
  <2>2. PlaceInv /\ PhotoInv
    BY DEF WizardInit, PlaceInv, PhotoInv, CoverAsShown
  <2>3. \A g \in Saved : sent[g] = 0 /\ stored[g] = 0
    BY DEF WizardInit, Saved, Groups
  <2>4. /\ saves = <<>> /\ drafts = 0 /\ faults = 0 /\ product = FALSE /\ finishing = "no"
        /\ lateDrafts = 0 /\ lateSaves = {}
    BY DEF WizardInit
  <2>5. DraftInv /\ SavesInv
    BY <2>3, <2>4 DEF DraftInv, SavesInv
  <2> QED
    BY <2>1, <2>2, <2>5 DEF PageInv
<1>2. PageInv /\ [WizardNext]_wizardVars => PageInv'
  BY WizardTypeStep, PlaceStep, DraftStep, PhotoStep, SavesStep DEF PageInv
<1> QED
  BY <1>1, <1>2, PTL DEF WizardSpec

\* WizardInv: one draft however often "Description" is left, but for one behind
\* each lost answer (createProductFromDataAction), and under "Cover photo saved."
\* the photo in the preview is the stored one, until an upload that the page had
\* reported as failed is applied after all (saveCover, setCoverImage).
THEOREM WizardAgrees == WizardSpec => []WizardInv
<1>1. PageInv => WizardInv
  <2> SUFFICES ASSUME PageInv PROVE WizardInv
    OBVIOUS
  <2>1. {drafts, lateDrafts, faults} \subseteq Nat
    BY DEF PageInv, WizardTypeOK
  <2>2. OneDraft
    BY <2>1 DEF PageInv, DraftInv, OneDraft
  <2> QED
    BY <2>2 DEF PageInv, PhotoInv, WizardInv
<1> QED
  BY <1>1, PageInvariant, PTL

\* SubmittedSavedOrWarned: a product goes to review with the pricing and notes
\* the seller left those steps with, unless a failed save was reported
\* (saveInBackground, finish), or a submission reported as failed is applied late.
THEOREM SubmittedAsLeft == WizardSpec => SubmittedSavedOrWarned
<1>1. PageInv /\ [WizardNext]_wizardVars =>
        [~inReview /\ inReview' =>
           \/ lateSubmit /\ ~lateSubmit'
           \/ \A g \in {"pricing", "compatibility"} :
                stored[g] = entered[g] \/ warned]_wizardVars
  <2> SUFFICES ASSUME PageInv, WizardNext, ~inReview, inReview',
                      ~(lateSubmit /\ ~lateSubmit'), NEW g \in Saved
               PROVE  stored[g] = entered[g] \/ warned
    BY DEF Saved
  <2>1. finishing = "submits"
    <3>1. \/ \E answered \in BOOLEAN : Submitted(answered)
          \/ LateSubmit
          \/ inReview' = inReview
      BY DEF WizardNext, Enter, ChooseCover, RetryCover, Create, GoOn, Back, Finish, Settled,
         UploadCover, Created, SaveEnds, LateCover, LateSave, LateDraft, productVars
    <3> QED
      BY <3>1 DEF Submitted, LateSubmit
  <2>2. step = 5 /\ saves = <<>> /\ ~failure
    BY <2>1 DEF PageInv, PlaceInv, SavesInv
  <2>3. stored[g] = sent[g] \/ warned
    BY <2>2 DEF PageInv, SavesInv, Queued
  <2>4. entered[g] = sent[g]
    BY <2>2 DEF PageInv, PlaceInv, Saved
  <2> QED
    BY <2>3, <2>4
<1> QED
  BY <1>1, PageInvariant, PTL DEF WizardSpec, SubmittedSavedOrWarned

-----------------------------------------------------------------------------
(* News.                                                                    *)

Looked(j, a, place) == job[j].at = place /\ Current(j) = a
LookPlace == {"known", "unknown"}

\* Where a job is: never past the end of what it fetched.
WorkInv ==
  /\ job \in [NewsWorkers -> [list : Seq(Articles), done : Nat,
                              at : {"idle", "next", "known", "unknown"}]]
  /\ \A j \in NewsWorkers :
       /\ job[j].done <= Len(job[j].list)
       /\ job[j].at \in LookPlace => job[j].done < Len(job[j].list)

\* Of an article that neither was deleted nor was new to two jobs at once: a
\* job that saw its row still finds it, one that saw none is alone with it and
\* nothing announces or has announced it, and it is announced by one call.
ToldOnce(a) ==
  /\ \A j \in NewsWorkers : Looked(j, a, "known") => a \in saved
  /\ \A j \in NewsWorkers : Looked(j, a, "unknown") =>
       /\ a \notin saved /\ timesTold[a] = 0
       /\ \A k \in NewsWorkers :
            <<k, a>> \notin dispatching /\ (Looked(k, a, "unknown") => k = j)
  /\ \A j, k \in NewsWorkers : <<j, a>> \in dispatching =>
       /\ a \in saved /\ timesTold[a] = 0
       /\ <<k, a>> \in dispatching => k = j
  /\ timesTold[a] > 0 => a \in saved /\ timesTold[a] = 1

NewsHistory ==
  /\ NewsInv
  /\ WorkInv
  /\ \A a \in Articles : a \in excused \/ ToldOnce(a)

\* Min of two numbers, by its definition in FiniteSetsExt.
LEMMA MinOfTwo ==
  ASSUME NEW m \in Nat, NEW n \in Nat
  PROVE  Min({m, n}) \in Nat /\ Min({m, n}) <= m
<1>1. \E x \in {m, n} : \A y \in {m, n} : x <= y
  BY m <= n \/ n <= m
<1> QED
  BY <1>1 DEF Min

\* What the provider lists are articles.
LEMMA FeedOfArticles ==
  ASSUME published \in 0 .. Len(Timeline)
  PROVE  Feed \in Seq(Articles)
<1>1. /\ Timeline \in Seq(Articles) /\ FeedLength \in Nat /\ published \in Nat
      /\ Len(Timeline) \in Nat
  BY NewsAssumption DEF Articles
<1>2. PICK m \in Nat : m = Min({published, FeedLength}) /\ m <= published
  BY <1>1, MinOfTwo
<1>3. \A n \in 1 .. m : published + 1 - n \in 1 .. Len(Timeline)
  BY <1>1, <1>2
<1>4. \A n \in 1 .. m : Timeline[published + 1 - n] \in Articles
  BY <1>1, <1>3
<1>5. Feed = [n \in 1 .. m |-> Timeline[published + 1 - n]]
  BY <1>2 DEF Feed
<1>6. Feed \in [1 .. m -> Articles]
  BY <1>4, <1>5
<1> QED
  BY <1>2, <1>6, SeqDef

\* A job goes on to its next article or ends, and looks at none.
MovesOn(j, next) ==
  job' = [job EXCEPT ![j] = next]

LEMMA NotLooking ==
  ASSUME WorkInv, NEW j \in NewsWorkers, NEW next, MovesOn(j, next),
         next \in [list : Seq(Articles), done : Nat, at : {"idle", "next"}],
         next.done <= Len(next.list)
  PROVE  /\ WorkInv'
         /\ job'[j] = next
         /\ \A k \in NewsWorkers \ {j} : job'[k] = job[k]
         /\ \A a, k : \A place \in LookPlace :
              k \in NewsWorkers /\ Looked(k, a, place)' => k # j /\ Looked(k, a, place)
<1>1. /\ job'[j] = next
      /\ \A k \in NewsWorkers \ {j} : job'[k] = job[k]
      /\ next.at \notin LookPlace
  BY DEF WorkInv, MovesOn, LookPlace
<1>2. WorkInv'
  <2>1. next \in [list : Seq(Articles), done : Nat,
                  at : {"idle", "next", "known", "unknown"}]
    OBVIOUS
  <2>2. job' \in [NewsWorkers -> [list : Seq(Articles), done : Nat,
                                  at : {"idle", "next", "known", "unknown"}]]
    BY <2>1 DEF WorkInv, MovesOn
  <2> QED
    BY <1>1, <2>2 DEF WorkInv
<1>3. ASSUME NEW a, NEW k, NEW place \in LookPlace, k \in NewsWorkers, Looked(k, a, place)'
      PROVE  k # j /\ Looked(k, a, place)
  <2>1. k # j
    BY <1>1, <1>3 DEF Looked
  <2> QED
    BY <1>1, <1>3, <2>1 DEF Looked, Current
<1> QED
  BY <1>1, <1>2, <1>3

\* A step that only drops announcements and what jobs look at keeps the rest.
LEMMA LessIsTold ==
  ASSUME NEW a \in Articles, ToldOnce(a), UNCHANGED <<saved, timesTold>>,
         dispatching' \subseteq dispatching,
         \A k \in NewsWorkers : \A place \in LookPlace :
           Looked(k, a, place)' => Looked(k, a, place)
  PROVE  ToldOnce(a)'
<1>1. /\ \A k \in NewsWorkers : Looked(k, a, "known")' => Looked(k, a, "known")
      /\ \A k \in NewsWorkers : Looked(k, a, "unknown")' => Looked(k, a, "unknown")
  BY DEF LookPlace
<1>2. PICK t : t = timesTold[a] /\ t = timesTold'[a]
  OBVIOUS
<1> QED
  BY <1>1, <1>2 DEF ToldOnce

LEMMA FetchStep ==
  ASSUME NewsHistory, NEW j \in NewsWorkers,
         FetchArticles(j) \/ FinishNews(j) \/ NewsJobFails(j)
  PROVE  NewsHistory'
<1>0. NewsTypeOK /\ WorkInv
  BY DEF NewsHistory, NewsInv
<1>1. /\ UNCHANGED <<published, saved, timesTold, excused>>
      /\ dispatching' \subseteq dispatching
  BY DEF FetchArticles, FinishNews, NewsJobFails
<1>2. PICK next \in [list : Seq(Articles), done : {0}, at : {"idle", "next"}] :
        MovesOn(j, next)
  <2>1. NoJob \in [list : Seq(Articles), done : {0}, at : {"idle", "next"}]
    BY DEF NoJob
  <2>2. Feed \in Seq(Articles)
    BY <1>0, FeedOfArticles DEF NewsTypeOK
  <2>3. [list |-> Feed, done |-> 0, at |-> "next"]
          \in [list : Seq(Articles), done : {0}, at : {"idle", "next"}]
    BY <2>2
  <2> QED
    BY <2>1, <2>3 DEF FetchArticles, FinishNews, NewsJobFails, MovesOn
<1>3. /\ next \in [list : Seq(Articles), done : Nat, at : {"idle", "next"}]
      /\ next.done = 0 /\ Len(next.list) \in Nat
  BY <1>2
<1>4. /\ WorkInv'
      /\ job'[j] = next
      /\ \A k \in NewsWorkers \ {j} : job'[k] = job[k]
      /\ \A a, k : \A place \in LookPlace :
           k \in NewsWorkers /\ Looked(k, a, place)' => k # j /\ Looked(k, a, place)
  BY <1>0, <1>2, <1>3, NotLooking
<1>5. NewsTypeOK'
  BY <1>0, <1>1, <1>4 DEF NewsTypeOK, WorkInv
<1>6. NothingPassedOver'
  <2> SUFFICES ASSUME NEW k \in NewsWorkers, Working(k)', NEW n \in 1 .. job'[k].done
               PROVE  job'[k].list[n] \in excused' \cup saved'
    BY DEF NothingPassedOver
  <2>1. k # j
    BY <1>3, <1>4
  <2>2. job'[k] = job[k]
    BY <1>4, <2>1
  <2>3. Working(k)
    BY <2>2 DEF Working
  <2> QED
    BY <1>1, <2>2, <2>3 DEF NewsHistory, NewsInv, NothingPassedOver
<1>7. SlugsDiffer' /\ AnnouncedAgainNeedsCause'
  BY <1>1 DEF NewsHistory, NewsInv, SlugsDiffer, AnnouncedAgainNeedsCause
<1>8. ASSUME NEW a \in Articles PROVE a \in excused' \/ ToldOnce(a)'
  BY <1>1, <1>4, LessIsTold DEF NewsHistory
<1> QED
  BY <1>4, <1>5, <1>6, <1>7, <1>8 DEF NewsHistory, NewsInv


\* A job looks an article up: alone with an article it saw no row for, or the
\* article is excused.
LEMMA LookUpStep ==
  ASSUME NewsHistory, NEW j \in NewsWorkers, LookUpArticle(j)
  PROVE  NewsHistory'
<1>0. NewsTypeOK /\ WorkInv
  BY DEF NewsHistory, NewsInv
<1>1. PICK a : a = Current(j)
  OBVIOUS
<1>2. PICK place \in LookPlace :
        /\ place = IF a \notin saved THEN "unknown" ELSE "known"
        /\ job' = [job EXCEPT ![j].at = place]
  BY <1>1 DEF LookUpArticle, JobAt, LookPlace
<1>3. /\ job[j].at = "next" /\ job[j].done < Len(job[j].list)
      /\ UNCHANGED <<published, saved, dispatching, timesTold>>
      /\ excused' = IF a \notin saved
                        /\ {k \in NewsWorkers \ {j} :
                              job[k].at = "unknown" /\ Current(k) = a} # {}
                    THEN excused \cup {a} ELSE excused
  BY <1>1 DEF LookUpArticle
<1>4. /\ job[j].list \in Seq(Articles) /\ job[j].done \in Nat
      /\ a = job[j].list[job[j].done + 1]
  BY <1>0, <1>1 DEF WorkInv, Current
<1>5. a \in Articles
  BY <1>3, <1>4
<1>6. /\ job' \in [NewsWorkers -> [list : Seq(Articles), done : Nat,
                                   at : {"idle", "next", "known", "unknown"}]]
      /\ job'[j].at = place /\ job'[j].list = job[j].list /\ job'[j].done = job[j].done
      /\ \A k \in NewsWorkers \ {j} : job'[k] = job[k]
  BY <1>0, <1>2 DEF WorkInv, LookPlace
<1>7. WorkInv'
  <2> SUFFICES ASSUME NEW k \in NewsWorkers
               PROVE  /\ job'[k].done <= Len(job'[k].list)
                      /\ job'[k].at \in LookPlace => job'[k].done < Len(job'[k].list)
    BY <1>6 DEF WorkInv
  <2>1. CASE k = j
    BY <1>0, <1>3, <1>6, <2>1 DEF WorkInv
  <2>2. CASE k # j
    BY <1>0, <1>6, <2>2 DEF WorkInv
  <2> QED
    BY <2>1, <2>2
<1>8. /\ \A b : Looked(j, b, "known")' => b = a /\ place = "known"
      /\ \A b : Looked(j, b, "unknown")' => b = a /\ place = "unknown"
      /\ \A k \in NewsWorkers \ {j} : \A b, at : Looked(k, b, at)' <=> Looked(k, b, at)
  <2>1. ASSUME NEW b, NEW at, Looked(j, b, at)'
        PROVE  b = a /\ place = at
    BY <1>4, <1>6, <2>1 DEF Looked, Current
  <2>2. ASSUME NEW k \in NewsWorkers \ {j}, NEW b, NEW at
        PROVE  Looked(k, b, at)' <=> Looked(k, b, at)
    BY <1>6 DEF Looked, Current
  <2> QED
    BY <2>1, <2>2
<1>9. excused \subseteq excused' /\ excused' \subseteq Articles
  BY <1>0, <1>3, <1>5 DEF NewsTypeOK
<1>10. NewsTypeOK'
  BY <1>0, <1>3, <1>7, <1>9 DEF NewsTypeOK, WorkInv
<1>11. NothingPassedOver'
  <2> SUFFICES ASSUME NEW k \in NewsWorkers, Working(k)', NEW n \in 1 .. job'[k].done
               PROVE  job'[k].list[n] \in excused' \cup saved'
    BY DEF NothingPassedOver
  <2>1. job'[k].list = job[k].list /\ job'[k].done = job[k].done
    BY <1>6
  <2>2. Working(k)
    BY <1>3, <1>6 DEF Working
  <2> QED
    BY <1>3, <1>9, <2>1, <2>2 DEF NewsHistory, NewsInv, NothingPassedOver
<1>12. SlugsDiffer' /\ AnnouncedAgainNeedsCause'
  BY <1>3, <1>9 DEF NewsHistory, NewsInv, SlugsDiffer, AnnouncedAgainNeedsCause
<1>13. ASSUME NEW b \in Articles, b \notin excused' PROVE ToldOnce(b)'
  <2>1. ToldOnce(b)
    BY <1>9, <1>13 DEF NewsHistory
  <2>2. PICK t : t = timesTold[b] /\ t = timesTold'[b]
    BY <1>3
  <2>3. CASE b # a
    <3>1. ASSUME NEW k \in NewsWorkers
          PROVE  /\ Looked(k, b, "known")' => Looked(k, b, "known")
                 /\ Looked(k, b, "unknown")' => Looked(k, b, "unknown")
      BY <1>8, <2>3
    <3> QED
      BY <1>3, <2>1, <2>2, <3>1 DEF ToldOnce
  <2>4. CASE b = a /\ a \in saved
    <3>1. place = "known"
      BY <1>2, <2>4
    <3>2. ASSUME NEW k \in NewsWorkers
          PROVE  Looked(k, b, "unknown")' => Looked(k, b, "unknown")
      BY <1>8, <3>1
    <3> QED
      BY <1>3, <2>1, <2>2, <2>4, <3>2 DEF ToldOnce
  <2>5. CASE b = a /\ a \notin saved
    <3>1. place = "unknown"
      BY <1>2, <2>5
    <3>2. \A k \in NewsWorkers : ~Looked(k, b, "unknown")
      <4>1. \A k \in NewsWorkers \ {j} : ~Looked(k, a, "unknown")
        BY <1>3, <1>13, <2>5 DEF Looked
      <4>2. ~Looked(j, a, "unknown")
        BY <1>3 DEF Looked
      <4> QED
        BY <2>5, <4>1, <4>2
    <3>3. \A k \in NewsWorkers : ~Looked(k, b, "known")' /\ (Looked(k, b, "unknown")' => k = j)
      <4>1. ASSUME NEW k \in NewsWorkers, Looked(k, b, "known")'
            PROVE  FALSE
        <5>1. k # j
          BY <1>8, <3>1, <4>1
        <5>2. Looked(k, b, "known")
          BY <1>8, <4>1, <5>1
        <5> QED
          BY <2>1, <2>5, <5>2 DEF ToldOnce
      <4>2. ASSUME NEW k \in NewsWorkers, Looked(k, b, "unknown")', k # j
            PROVE  FALSE
        BY <1>8, <3>2, <4>2
      <4> QED
        BY <4>1, <4>2
    <3>4. t = 0 /\ \A k \in NewsWorkers : <<k, b>> \notin dispatching
      <4>1. t \in 0 .. 2 /\ ~(t > 0)
        BY <1>0, <2>1, <2>2, <2>5 DEF ToldOnce, NewsTypeOK
      <4> QED
        BY <2>1, <2>5, <4>1 DEF ToldOnce
    <3> QED
      BY <1>3, <2>2, <2>5, <3>3, <3>4 DEF ToldOnce
  <2> QED
    BY <2>3, <2>4, <2>5
<1> QED
  BY <1>7, <1>10, <1>11, <1>12, <1>13 DEF NewsHistory, NewsInv

\* A job saves an article, and announces it when it saw no row.
LEMMA SaveArticleStep ==
  ASSUME NewsHistory, NEW j \in NewsWorkers, SaveArticle(j)
  PROVE  NewsHistory'
<1>0. NewsTypeOK /\ WorkInv
  BY DEF NewsHistory, NewsInv
<1>1. PICK a : a = Current(j)
  OBVIOUS
<1>2. /\ job[j].at \in LookPlace /\ job[j].done < Len(job[j].list)
      /\ job[j].list \in Seq(Articles) /\ job[j].done \in Nat
      /\ a = job[j].list[job[j].done + 1]
  BY <1>0, <1>1 DEF SaveArticle, WorkInv, Current, LookPlace
<1>3. a \in Articles
  BY <1>2
<1>4. UNCHANGED <<published, timesTold, excused>>
  BY DEF SaveArticle
<1>5. CASE a \notin saved /\ SlugTaken(a)
  <2>1. MovesOn(j, NoJob) /\ UNCHANGED <<saved, dispatching>>
    BY <1>1, <1>5 DEF SaveArticle, MovesOn
  <2>2. /\ NoJob \in [list : Seq(Articles), done : Nat, at : {"idle", "next"}]
        /\ NoJob.done <= Len(NoJob.list)
    BY DEF NoJob
  <2>3. /\ WorkInv'
        /\ job'[j] = NoJob
        /\ \A k \in NewsWorkers \ {j} : job'[k] = job[k]
        /\ \A b, k : \A place \in LookPlace :
             k \in NewsWorkers /\ Looked(k, b, place)' => k # j /\ Looked(k, b, place)
    BY <1>0, <2>1, <2>2, NotLooking
  <2>4. NewsTypeOK'
    BY <1>0, <1>4, <2>1, <2>3 DEF NewsTypeOK, WorkInv
  <2>5. NothingPassedOver'
    <3> SUFFICES ASSUME NEW k \in NewsWorkers, Working(k)', NEW n \in 1 .. job'[k].done
                 PROVE  job'[k].list[n] \in excused' \cup saved'
      BY DEF NothingPassedOver
    <3>1. k # j
      BY <2>3 DEF Working, NoJob
    <3>2. job'[k] = job[k] /\ Working(k)
      BY <2>3, <3>1 DEF Working
    <3> QED
      BY <1>4, <2>1, <3>2 DEF NewsHistory, NewsInv, NothingPassedOver
  <2>6. SlugsDiffer' /\ AnnouncedAgainNeedsCause'
    BY <1>4, <2>1 DEF NewsHistory, NewsInv, SlugsDiffer, AnnouncedAgainNeedsCause
  <2>7. ASSUME NEW b \in Articles PROVE b \in excused' \/ ToldOnce(b)'
    BY <1>4, <2>1, <2>3, LessIsTold DEF NewsHistory
  <2> QED
    BY <2>3, <2>4, <2>5, <2>6, <2>7 DEF NewsHistory, NewsInv
<1>6. CASE a \in saved \/ ~SlugTaken(a)
  <2>1. PICK next : next = [job[j] EXCEPT !.done = @ + 1, !.at = "next"]
    OBVIOUS
  <2>2. /\ MovesOn(j, next) /\ saved' = saved \cup {a}
        /\ dispatching' = IF job[j].at = "unknown"
                          THEN dispatching \cup {<<j, a>>} ELSE dispatching
    BY <1>1, <1>6, <2>1 DEF SaveArticle, MovesOn
  <2>3. /\ next \in [list : Seq(Articles), done : Nat, at : {"idle", "next"}]
        /\ next.list = job[j].list /\ next.done = job[j].done + 1
        /\ next.done <= Len(next.list)
    <3>1. /\ job[j] \in [list : Seq(Articles), done : Nat,
                         at : {"idle", "next", "known", "unknown"}]
          /\ Len(job[j].list) \in Nat
      BY <1>0, <1>2 DEF WorkInv
    <3>2. next.at = "next" /\ next.list = job[j].list /\ next.done = job[j].done + 1
      BY <2>1, <3>1
    <3>3. next = [list |-> job[j].list, done |-> job[j].done + 1, at |-> "next"]
      BY <2>1, <3>1
    <3>4. next \in [list : Seq(Articles), done : Nat, at : {"idle", "next"}]
      BY <1>2, <3>3
    <3> QED
      BY <1>2, <3>1, <3>2, <3>4
  <2>4. /\ WorkInv'
        /\ job'[j] = next
        /\ \A k \in NewsWorkers \ {j} : job'[k] = job[k]
        /\ \A b, k : \A place \in LookPlace :
             k \in NewsWorkers /\ Looked(k, b, place)' => k # j /\ Looked(k, b, place)
    BY <1>0, <2>2, <2>3, NotLooking
  <2>5. NewsTypeOK'
    <3>1. saved' \subseteq Articles /\ dispatching' \subseteq NewsWorkers \X Articles
      BY <1>0, <1>3, <2>2 DEF NewsTypeOK
    <3> QED
      BY <1>0, <1>4, <2>4, <3>1 DEF NewsTypeOK, WorkInv
  <2>6. NothingPassedOver'
    <3> SUFFICES ASSUME NEW k \in NewsWorkers, Working(k)', NEW n \in 1 .. job'[k].done
                 PROVE  job'[k].list[n] \in excused' \cup saved'
      BY DEF NothingPassedOver
    <3>1. CASE k = j
      <4>1. Working(j)
        BY <1>2 DEF Working, LookPlace
      <4>2. n \in 1 .. job[j].done \/ n = job[j].done + 1
        BY <1>2, <2>3, <2>4, <3>1
      <4>3. job'[k].list[n] = job[j].list[n]
        BY <2>3, <2>4, <3>1
      <4> QED
        BY <1>2, <1>4, <2>2, <4>1, <4>2, <4>3 DEF NewsHistory, NewsInv, NothingPassedOver
    <3>2. CASE k # j
      <4>1. job'[k] = job[k] /\ Working(k)
        BY <2>4, <3>2 DEF Working
      <4> QED
        BY <1>4, <2>2, <4>1 DEF NewsHistory, NewsInv, NothingPassedOver
    <3> QED
      BY <3>1, <3>2
  <2>7. SlugsDiffer'
    <3>1. \A b \in saved : b # a => Slug[b] # Slug[a]
      <4>1. CASE a \in saved
        BY <4>1 DEF NewsHistory, NewsInv, SlugsDiffer
      <4>2. CASE ~SlugTaken(a)
        BY <4>2 DEF SlugTaken
      <4> QED
        BY <1>6, <4>1, <4>2
    <3> QED
      BY <2>2, <3>1 DEF NewsHistory, NewsInv, SlugsDiffer
  <2>8. AnnouncedAgainNeedsCause'
    BY <1>4 DEF NewsHistory, NewsInv, AnnouncedAgainNeedsCause
  <2>9. ASSUME NEW b \in Articles, b \notin excused' PROVE ToldOnce(b)'
    <3>1. ToldOnce(b)
      BY <1>4, <2>9 DEF NewsHistory
    <3>2. PICK t : t = timesTold[b] /\ t = timesTold'[b]
      BY <1>4
    <3>3. \A k \in NewsWorkers : /\ Looked(k, b, "known")' => Looked(k, b, "known")
                                 /\ Looked(k, b, "unknown")' => k # j /\ Looked(k, b, "unknown")
      BY <2>4 DEF LookPlace
    <3>4. CASE b # a
      <4>1. b \in saved' <=> b \in saved
        BY <2>2, <3>4
      <4>2. \A k \in NewsWorkers : <<k, b>> \in dispatching' <=> <<k, b>> \in dispatching
        BY <2>2, <3>4
      <4> QED
        BY <3>1, <3>2, <3>3, <4>1, <4>2 DEF ToldOnce
    <3>5. CASE b = a /\ job[j].at = "known"
      <4>1. Looked(j, a, "known")
        BY <1>1, <3>5 DEF Looked
      <4>2. a \in saved
        BY <3>1, <3>5, <4>1 DEF ToldOnce
      <4>3. saved' = saved /\ dispatching' = dispatching
        BY <2>2, <3>5, <4>2
      <4> QED
        BY <3>1, <3>2, <3>3, <4>3 DEF ToldOnce
    <3>6. CASE b = a /\ job[j].at = "unknown"
      <4>1. Looked(j, b, "unknown")
        BY <1>1, <3>6 DEF Looked
      <4>2. /\ t = 0
            /\ \A k \in NewsWorkers : /\ <<k, b>> \notin dispatching
                                      /\ Looked(k, b, "unknown") => k = j
        BY <3>1, <3>2, <4>1 DEF ToldOnce
      <4>3. \A k \in NewsWorkers : ~Looked(k, b, "unknown")'
        BY <3>3, <4>2
      <4>4. \A k \in NewsWorkers : <<k, b>> \in dispatching' => k = j
        BY <2>2, <3>6, <4>2
      <4>5. b \in saved'
        BY <2>2, <3>6
      <4> QED
        BY <3>2, <4>2, <4>3, <4>4, <4>5 DEF ToldOnce
    <3> QED
      BY <1>2, <3>4, <3>5, <3>6 DEF LookPlace
  <2> QED
    BY <2>4, <2>5, <2>6, <2>7, <2>8, <2>9 DEF NewsHistory, NewsInv
<1> QED
  BY <1>5, <1>6


\* One announcement ends: the only one there is of its article.
LEMMA AnnounceStep ==
  ASSUME NewsHistory, NEW j \in NewsWorkers, NEW a \in Articles, Announce(j, a)
  PROVE  NewsHistory'
<1>0. NewsTypeOK /\ WorkInv
  BY DEF NewsHistory, NewsInv
<1>1. /\ <<j, a>> \in dispatching /\ dispatching' = dispatching \ {<<j, a>>}
      /\ timesTold' = [timesTold EXCEPT ![a] = IF @ = 2 THEN 2 ELSE @ + 1]
      /\ UNCHANGED <<published, saved, job, excused>>
  BY DEF Announce
<1>2. timesTold \in [Articles -> 0 .. 2]
  BY <1>0 DEF NewsTypeOK
<1>3. /\ timesTold' \in [Articles -> 0 .. 2]
      /\ \A b \in Articles : b # a => timesTold'[b] = timesTold[b]
      /\ timesTold[a] = 0 => timesTold'[a] = 1
  BY <1>1, <1>2
<1>4. WorkInv' /\ NewsTypeOK'
  BY <1>0, <1>1, <1>3 DEF WorkInv, NewsTypeOK
<1>5. NothingPassedOver' /\ SlugsDiffer'
  BY <1>1 DEF NewsHistory, NewsInv, NothingPassedOver, SlugsDiffer, Working
<1>6. ASSUME NEW b \in Articles, b \notin excused' PROVE ToldOnce(b)'
  <2>1. ToldOnce(b)
    BY <1>1, <1>6 DEF NewsHistory
  <2>2. \A k, at : Looked(k, b, at)' <=> Looked(k, b, at)
    BY <1>1 DEF Looked, Current
  <2>3. CASE b # a
    <3>1. PICK t : t = timesTold[b] /\ t = timesTold'[b]
      BY <1>3, <2>3
    <3>2. \A k : <<k, b>> \in dispatching' <=> <<k, b>> \in dispatching
      BY <1>1, <2>3
    <3> QED
      BY <1>1, <2>1, <2>2, <3>1, <3>2 DEF ToldOnce
  <2>4. CASE b = a
    <3>1. b \in saved /\ timesTold[a] = 0
      BY <1>1, <2>1, <2>4 DEF ToldOnce
    <3>2. \A k \in NewsWorkers : <<k, b>> \notin dispatching'
      BY <1>1, <2>1, <2>4 DEF ToldOnce
    <3>3. timesTold'[b] = 1
      BY <1>3, <2>4, <3>1
    <3>4. \A k \in NewsWorkers : ~Looked(k, b, "unknown")'
      BY <2>1, <2>2, <3>1 DEF ToldOnce
    <3> QED
      BY <1>1, <3>1, <3>2, <3>3, <3>4 DEF ToldOnce
  <2> QED
    BY <2>3, <2>4
<1>7. AnnouncedAgainNeedsCause'
  <2> SUFFICES ASSUME NEW b \in Articles, timesTold'[b] > 1, b \notin excused'
               PROVE  FALSE
    BY DEF AnnouncedAgainNeedsCause
  <2>1. timesTold'[b] = 1
    <3>1. timesTold'[b] > 0
      BY <1>3
    <3> QED
      BY <1>6, <3>1 DEF ToldOnce
  <2> QED
    BY <2>1
<1> QED
  BY <1>4, <1>5, <1>6, <1>7 DEF NewsHistory, NewsInv

\* The provider publishes, or an administrator deletes an article, which
\* excuses it.
LEMMA OutsideStep ==
  ASSUME NewsHistory,
         \/ ProviderPublishes
         \/ \E a \in Articles : DeleteArticle(a)
         \/ UNCHANGED newsVars
  PROVE  NewsHistory'
<1>0. NewsTypeOK /\ WorkInv
  BY DEF NewsHistory, NewsInv
<1>1. /\ UNCHANGED <<job, dispatching, timesTold>>
      /\ published' \in 0 .. Len(Timeline)
  <2>1. Len(Timeline) \in Nat
    BY NewsAssumption
  <2> QED
    BY <1>0, <2>1 DEF ProviderPublishes, DeleteArticle, newsVars, NewsTypeOK
<1>2. PICK gone \in SUBSET Articles :
        /\ saved' = saved \ gone /\ excused' = excused \cup gone
  <2>1. CASE UNCHANGED <<saved, excused>>
    <3>1. saved' = saved \ {} /\ excused' = excused \cup {}
      BY <2>1
    <3> QED
      BY <3>1
  <2>2. ASSUME NEW a \in Articles, DeleteArticle(a)
        PROVE  /\ {a} \in SUBSET Articles
               /\ saved' = saved \ {a} /\ excused' = excused \cup {a}
    BY <2>2 DEF DeleteArticle
  <2>3. UNCHANGED <<saved, excused>> \/ \E a \in Articles : DeleteArticle(a)
    BY DEF ProviderPublishes, newsVars
  <2> QED
    BY <2>1, <2>2, <2>3
<1>3. WorkInv' /\ NewsTypeOK'
  BY <1>0, <1>1, <1>2 DEF WorkInv, NewsTypeOK
<1>4. NothingPassedOver'
  <2> SUFFICES ASSUME NEW k \in NewsWorkers, Working(k)', NEW n \in 1 .. job'[k].done
               PROVE  job'[k].list[n] \in excused' \cup saved'
    BY DEF NothingPassedOver
  <2>1. job[k].list[n] \in excused \cup saved
    BY <1>1 DEF Working, NewsHistory, NewsInv, NothingPassedOver
  <2> QED
    BY <1>1, <1>2, <2>1
<1>5. SlugsDiffer' /\ AnnouncedAgainNeedsCause'
  BY <1>1, <1>2 DEF NewsHistory, NewsInv, SlugsDiffer, AnnouncedAgainNeedsCause
<1>6. ASSUME NEW b \in Articles, b \notin excused' PROVE ToldOnce(b)'
  <2>1. b \notin gone /\ ToldOnce(b)
    BY <1>2, <1>6 DEF NewsHistory
  <2>2. \A k, at : Looked(k, b, at)' <=> Looked(k, b, at)
    BY <1>1 DEF Looked, Current
  <2>3. b \in saved' <=> b \in saved
    BY <1>2, <2>1
  <2>4. PICK t : t = timesTold[b] /\ t = timesTold'[b]
    BY <1>1
  <2> QED
    BY <1>1, <2>1, <2>2, <2>3, <2>4 DEF ToldOnce
<1> QED
  BY <1>3, <1>4, <1>5, <1>6 DEF NewsHistory, NewsInv

\* Rows, lists under way and announcements agree in every state of the jobs.
THEOREM NewsHistoryHolds == NewsSpec => []NewsHistory
<1>1. NewsInit => NewsHistory
  <2> SUFFICES ASSUME NewsInit PROVE NewsHistory
    OBVIOUS
  <2>1. /\ published = 0 /\ saved = {} /\ dispatching = {} /\ excused = {}
        /\ \A a \in Articles : timesTold[a] = 0
        /\ timesTold \in [Articles -> 0 .. 2]
    BY DEF NewsInit
  <2>2. /\ job = [j \in NewsWorkers |-> [list |-> <<>>, done |-> 0, at |-> "idle"]]
        /\ Len(Timeline) \in Nat
    BY NewsAssumption DEF NewsInit, NoJob
  <2>3. WorkInv /\ \A j \in NewsWorkers : job[j].at = "idle"
    BY <2>2 DEF WorkInv, LookPlace
  <2>4. NewsTypeOK
    BY <2>1, <2>2, <2>3 DEF NewsTypeOK, WorkInv
  <2>5. NothingPassedOver /\ SlugsDiffer /\ AnnouncedAgainNeedsCause
    BY <2>1, <2>3 DEF NothingPassedOver, Working, SlugsDiffer, AnnouncedAgainNeedsCause
  <2>6. \A a \in Articles : ToldOnce(a)
    BY <2>1, <2>3 DEF ToldOnce, Looked
  <2> QED
    BY <2>3, <2>4, <2>5, <2>6 DEF NewsHistory, NewsInv
<1>2. NewsHistory /\ [NewsNext]_newsVars => NewsHistory'
  BY FetchStep, LookUpStep, SaveArticleStep, AnnounceStep, OutsideStep DEF NewsNext
<1> QED
  BY <1>1, <1>2, PTL DEF NewsSpec

\* NewsInv: however the jobs of the workers overlap, fail and are repeated
\* (runNewsSync), no two rows have one slug, nothing is passed over, and an
\* article is announced again only when it was deleted or new to two jobs.
THEOREM NewsHolds == NewsSpec => []NewsInv
<1>1. NewsHistory => NewsInv
  BY DEF NewsHistory
<1> QED
  BY <1>1, NewsHistoryHolds, PTL

-----------------------------------------------------------------------------
(* Reminders.                                                               *)

PageCalls == [at : {"idle", "read", "add"}, for : AlertIds \cup {NoAlert}, due : Nat]
Jobs == [at : JobPlace, due : Nat, time : Nat]

CallsInv ==
  /\ ReminderTypeOK
  /\ pageCall \in [SubscribePages -> PageCalls]
  /\ \A c \in SubscribePages : pageCall[c].at # "idle" => pageCall[c].for \in usedIds
  /\ reminder \in [AlertIds -> Jobs]
  /\ repeats \in Nat
  /\ \A n \in notices : n.for \in usedIds /\ n.at \in Nat /\ n.time \in Nat

Sent(i)   == \E n \in notices : n.for = i
Adding(i) == \E c \in SubscribePages : pageCall[c].at = "add" /\ pageCall[c].for = i
Began(i)  == reminder[i].at = "active" \/ Sent(i)

\* An alert or its event is gone, and does not come back.
Gone(i) == alert # i \/ ~event.row

\* A promised reminder that is done was sent, or nobody wants it any more.
KeptInv ==
  /\ \A i \in AlertIds : reminder[i].at = "done" => Sent(i) \/ Gone(i)
  /\ \A i \in promised :
       i \in lost \/ Sent(i) \/ Gone(i) \/ Adding(i)
         \/ reminder[i].at \in {"delayed", "active"}

\* The jobs of alerts that saw no move are due when the notice is.
DueInv ==
  /\ \A c \in SubscribePages :
       pageCall[c].at = "add" /\ pageCall[c].for \notin moved =>
         pageCall[c].due + 1 = event.time
  /\ \A i \in AlertIds : i \notin moved =>
       /\ reminder[i].at # "none" => reminder[i].due + 1 = event.time
       /\ reminder[i].at = "active" =>
            reminder[i].time = event.time /\ reminder[i].due <= hour
  /\ EarlyNeedsMove

\* While nothing is moved, repeated or forgotten, one alert's job begins: the
\* notice is due then, so that no later call makes another one, and the jobs
\* that wait are of alerts the member gave up.
Calm == moved = {} /\ repeats = 0 /\ forgotten = {}

OneBegan ==
  /\ \A i, k \in AlertIds : Began(i) /\ Began(k) => i = k
  /\ \A i \in AlertIds : Sent(i) => reminder[i].at = "done"
  /\ \A m, n \in notices : m = n
  /\ \A i, k \in AlertIds :
       Began(i) /\ k # i /\ (reminder[k].at = "delayed" \/ Adding(k)) => alert # k
  /\ \A i \in AlertIds : Began(i) => hour + 1 >= event.time

RemindersHistory == CallsInv /\ KeptInv /\ DueInv /\ (Calm => OneBegan)

LEMMA ReminderNumbers ==
  ASSUME CallsInv
  PROVE  hour \in Nat /\ event.time \in Nat
<1>1. hour \in Nat
  BY ReminderAssumption DEF CallsInv, ReminderTypeOK
<1>2. event.time \in EventTimes
  BY DEF CallsInv, ReminderTypeOK
<1> QED
  BY <1>1, <1>2, ReminderAssumption

\* Two fields of a record change: the third does not.
LEMMA CallChanges ==
  ASSUME NEW x \in PageCalls, NEW a, NEW d
  PROVE  [x EXCEPT !.at = a, !.due = d] = [at |-> a, for |-> x.for, due |-> d]
<1>1. PICK z : z = [x EXCEPT !.at = a]
  OBVIOUS
<1>2. z = [at |-> a, for |-> x.for, due |-> x.due]
  BY <1>1 DEF PageCalls
<1>3. [x EXCEPT !.at = a, !.due = d] = [z EXCEPT !.due = d]
  BY <1>1
<1>4. [z EXCEPT !.due = d] = [at |-> a, for |-> x.for, due |-> d]
  BY <1>2
<1> QED
  BY <1>3, <1>4

LEMMA JobChanges ==
  ASSUME NEW x \in Jobs, NEW a, NEW t
  PROVE  [x EXCEPT !.at = a, !.time = t] = [at |-> a, due |-> x.due, time |-> t]
<1>1. PICK z : z = [x EXCEPT !.at = a]
  OBVIOUS
<1>2. z = [at |-> a, due |-> x.due, time |-> x.time]
  BY <1>1 DEF Jobs
<1>3. [x EXCEPT !.at = a, !.time = t] = [z EXCEPT !.time = t]
  BY <1>1
<1>4. [z EXCEPT !.time = t] = [at |-> a, due |-> x.due, time |-> t]
  BY <1>2
<1> QED
  BY <1>3, <1>4

\* The calls of the buttons: what each does to its page.
LEMMA PageMoves ==
  ASSUME CallsInv, NEW c \in SubscribePages, NEW p \in PageCalls,
         pageCall' = [pageCall EXCEPT ![c] = p]
  PROVE  /\ pageCall' \in [SubscribePages -> PageCalls]
         /\ pageCall'[c] = p
         /\ \A d \in SubscribePages \ {c} : pageCall'[d] = pageCall[d]
BY DEF CallsInv

LEMMA JobMoves ==
  ASSUME CallsInv, NEW i \in AlertIds, NEW r \in Jobs,
         reminder' = [reminder EXCEPT ![i] = r]
  PROVE  /\ reminder' \in [AlertIds -> Jobs]
         /\ reminder'[i] = r
         /\ \A k \in AlertIds \ {i} : reminder'[k] = reminder[k]
BY DEF CallsInv

LEMMA UpsertFacts ==
  ASSUME CallsInv, NEW c \in SubscribePages, UpsertAlert(c)
  PROVE  \E i \in AlertIds :
           /\ i \notin usedIds \/ i = alert
           /\ alert' = i /\ usedIds' = usedIds \cup {i}
           /\ pageCall' \in [SubscribePages -> PageCalls]
           /\ pageCall'[c].at = "read" /\ pageCall'[c].for = i
           /\ \A d \in SubscribePages \ {c} : pageCall'[d] = pageCall[d]
           /\ UNCHANGED <<hour, event, reminder, notices, historyVars>>
<1>1. PICK i \in IF alert = NoAlert THEN AlertIds \ usedIds ELSE {alert} :
        /\ alert' = i /\ usedIds' = usedIds \cup {i}
        /\ pageCall' = [pageCall EXCEPT ![c] = [at |-> "read", for |-> i, due |-> 0]]
        /\ UNCHANGED <<hour, event, reminder, notices, historyVars>>
  BY DEF UpsertAlert
<1>2. i \in AlertIds /\ (i \notin usedIds \/ i = alert)
  BY <1>1 DEF CallsInv, ReminderTypeOK
<1>3. [at |-> "read", for |-> i, due |-> 0] \in PageCalls
  BY <1>2 DEF PageCalls
<1> QED
  BY <1>1, <1>2, <1>3, PageMoves

\* A call that read the event adds a job that is due ahead of it, or ends.
LEMMA ReadFacts ==
  ASSUME CallsInv, NEW c \in SubscribePages, ReadEvent(c)
  PROVE  /\ pageCall' \in [SubscribePages -> PageCalls]
         /\ \A d \in SubscribePages \ {c} : pageCall'[d] = pageCall[d]
         /\ pageCall[c].at = "read"
         /\ UNCHANGED <<hour, event, alert, usedIds, reminder, notices, lost, moved,
                        repeats, forgotten>>
         /\ \/ /\ pageCall'[c].at = "idle" /\ pageCall'[c].for = NoAlert
               /\ promised' = promised
            \/ /\ pageCall'[c].at = "add" /\ pageCall'[c].for = pageCall[c].for
               /\ event.time - 1 > hour /\ pageCall'[c].due + 1 = event.time
               /\ promised' = promised \cup {pageCall[c].for}
<1>1. /\ event.time \in Nat \ {0} /\ hour \in Nat
      /\ pageCall[c] \in PageCalls
  <2>1. event.time \in EventTimes /\ pageCall[c] \in PageCalls
    BY DEF CallsInv, ReminderTypeOK
  <2>2. hour \in Nat
    BY ReminderAssumption DEF CallsInv, ReminderTypeOK
  <2> QED
    BY <2>1, <2>2, ReminderAssumption
<1>2. /\ pageCall[c].at = "read"
      /\ UNCHANGED <<hour, event, alert, usedIds, reminder, notices, lost, moved,
                     repeats, forgotten>>
  BY DEF ReadEvent
<1>3. CASE event.row /\ NoticeAhead(event.time)
  <2>1. PICK p : p = [at |-> "add", for |-> pageCall[c].for, due |-> event.time - 1]
    OBVIOUS
  <2>2. p \in PageCalls /\ p.at = "add" /\ p.for = pageCall[c].for /\ p.due = event.time - 1
    BY <1>1, <2>1 DEF PageCalls
  <2>3. pageCall' = [pageCall EXCEPT ![c].at = "add", ![c].due = event.time - 1]
    BY <1>3 DEF ReadEvent
  <2>4. pageCall' = [pageCall EXCEPT ![c] = p]
    <3>1. pageCall' = [pageCall EXCEPT ![c] = [@ EXCEPT !.at = "add", !.due = event.time - 1]]
      BY <2>3 DEF CallsInv
    <3>2. [pageCall[c] EXCEPT !.at = "add", !.due = event.time - 1] = p
      BY <1>1, <2>1, CallChanges
    <3> QED
      BY <3>1, <3>2
  <2>5. promised' = promised \cup {pageCall[c].for}
    BY <1>3 DEF ReadEvent
  <2>6. /\ pageCall' \in [SubscribePages -> PageCalls]
        /\ pageCall'[c] = p
        /\ \A d \in SubscribePages \ {c} : pageCall'[d] = pageCall[d]
    BY <2>2, <2>4, PageMoves
  <2>7. event.time - 1 > hour /\ p.due + 1 = event.time
    BY <1>1, <1>3, <2>2 DEF NoticeAhead
  <2> QED
    BY <1>2, <2>2, <2>5, <2>6, <2>7
<1>4. CASE ~(event.row /\ NoticeAhead(event.time))
  <2>1. NoCallYet \in PageCalls /\ NoCallYet.at = "idle" /\ NoCallYet.for = NoAlert
    BY DEF NoCallYet, PageCalls
  <2>2. pageCall' = [pageCall EXCEPT ![c] = NoCallYet] /\ promised' = promised
    BY <1>4 DEF ReadEvent
  <2> QED
    BY <1>2, <2>1, <2>2, PageMoves
<1> QED
  BY <1>3, <1>4

\* A job is added under its alert's name, or there is one, or none is taken.
LEMMA AddFacts ==
  ASSUME CallsInv, NEW c \in SubscribePages, AddReminder(c) \/ AddFails(c)
  PROVE  /\ pageCall' \in [SubscribePages -> PageCalls]
         /\ \A d \in SubscribePages \ {c} : pageCall'[d] = pageCall[d]
         /\ pageCall'[c].at = "idle" /\ pageCall'[c].for = NoAlert
         /\ pageCall[c].at = "add" /\ pageCall[c].for \in AlertIds
         /\ UNCHANGED <<hour, event, alert, usedIds, notices, promised, moved, repeats,
                        forgotten>>
         /\ reminder' \in [AlertIds -> Jobs]
         /\ \A k \in AlertIds \ {pageCall[c].for} : reminder'[k] = reminder[k]
         /\ \/ reminder' = reminder /\ lost' = lost \cup {pageCall[c].for}
            \/ /\ reminder' = reminder /\ lost' = lost
               /\ reminder[pageCall[c].for].at # "none"
            \/ /\ reminder[pageCall[c].for].at = "none" /\ lost' = lost
               /\ reminder'[pageCall[c].for].at = "delayed"
               /\ reminder'[pageCall[c].for].due = pageCall[c].due
<1>1. PICK i : i = pageCall[c].for
  OBVIOUS
<1>2. /\ pageCall[c].at = "add" /\ pageCall' = [pageCall EXCEPT ![c] = NoCallYet]
      /\ UNCHANGED <<hour, event, alert, usedIds, notices, promised, moved, repeats,
                     forgotten>>
  BY DEF AddReminder, AddFails, historyVars
<1>3. i \in AlertIds /\ pageCall[c] \in PageCalls
  BY <1>1, <1>2 DEF CallsInv, ReminderTypeOK
<1>4. NoCallYet \in PageCalls /\ NoCallYet.at = "idle" /\ NoCallYet.for = NoAlert
  BY DEF NoCallYet, PageCalls
<1>5. /\ pageCall' \in [SubscribePages -> PageCalls]
      /\ \A d \in SubscribePages \ {c} : pageCall'[d] = pageCall[d]
      /\ pageCall'[c].at = "idle" /\ pageCall'[c].for = NoAlert
  BY <1>2, <1>4, PageMoves
<1>6. PICK r : r = [at |-> "delayed", due |-> pageCall[c].due, time |-> 0]
  OBVIOUS
<1>7. r \in Jobs /\ r.at = "delayed" /\ r.due = pageCall[c].due
  BY <1>3, <1>6 DEF Jobs, JobPlace, PageCalls
<1>8. \/ reminder' = reminder /\ lost' = lost \cup {i}
      \/ reminder' = reminder /\ lost' = lost /\ reminder[i].at # "none"
      \/ /\ reminder[i].at = "none" /\ lost' = lost
         /\ reminder' = [reminder EXCEPT ![i] = r]
  BY <1>1, <1>6 DEF AddReminder, AddFails, historyVars
<1>9. CASE reminder' = reminder
  <2>1. reminder \in [AlertIds -> Jobs]
    BY DEF CallsInv
  <2>2. \/ reminder' = reminder /\ lost' = lost \cup {i}
        \/ reminder' = reminder /\ lost' = lost /\ reminder[i].at # "none"
    <3>1. CASE reminder' = [reminder EXCEPT ![i] = r] /\ reminder[i].at = "none"
      BY <1>3, <1>7, <1>9, <3>1, JobMoves
    <3> QED
      BY <1>8, <3>1
  <2> QED
    BY <1>1, <1>2, <1>3, <1>5, <1>9, <2>1, <2>2
<1>10. CASE /\ reminder[i].at = "none" /\ lost' = lost
            /\ reminder' = [reminder EXCEPT ![i] = r]
  BY <1>1, <1>2, <1>3, <1>5, <1>7, <1>10, JobMoves
<1> QED
  BY <1>8, <1>9, <1>10

\* What an attempt of the worker does to its job and to the notices.
LEMMA WorkerFacts ==
  ASSUME CallsInv, NEW i \in AlertIds,
         StartReminder(i) \/ Notify(i) \/ ReminderFails(i) \/ ForgetReminder(i)
  PROVE  /\ reminder' \in [AlertIds -> Jobs]
         /\ \A k \in AlertIds \ {i} : reminder'[k] = reminder[k]
         /\ UNCHANGED <<hour, event, alert, usedIds, pageCall, promised, lost, moved>>
         /\ StartReminder(i) =>
              /\ reminder[i].at = "delayed" /\ reminder[i].due <= hour
              /\ reminder'[i].due = reminder[i].due /\ reminder'[i].time = event.time
              /\ IF Gone(i) THEN reminder'[i].at = "done" ELSE reminder'[i].at = "active"
              /\ UNCHANGED <<notices, repeats, forgotten>>
         /\ Notify(i) =>
              /\ reminder[i].at = "active" /\ reminder'[i].at = "done"
              /\ reminder'[i].due = reminder[i].due
              /\ notices' = notices \cup {Notice(i)}
              /\ UNCHANGED <<repeats, forgotten>>
         /\ ReminderFails(i) =>
              /\ reminder[i].at = "active" /\ reminder'[i].at = "delayed"
              /\ reminder'[i].due = reminder[i].due
              /\ notices' \in {notices, notices \cup {Notice(i)}}
              /\ repeats' = repeats + 1 /\ forgotten' = forgotten
         /\ ForgetReminder(i) =>
              /\ reminder[i].at = "done" /\ reminder'[i].at = "none"
              /\ forgotten' = forgotten \cup {i}
              /\ UNCHANGED <<notices, repeats>>
<1>1. /\ reminder[i] \in Jobs /\ reminder \in [AlertIds -> Jobs]
      /\ event.time \in Nat
  <2>1. event.time \in EventTimes
    BY DEF CallsInv, ReminderTypeOK
  <2> QED
    BY <2>1, ReminderAssumption DEF CallsInv
<1>2. ASSUME StartReminder(i)
      PROVE  /\ reminder' \in [AlertIds -> Jobs]
             /\ \A k \in AlertIds \ {i} : reminder'[k] = reminder[k]
             /\ reminder'[i].due = reminder[i].due /\ reminder'[i].time = event.time
             /\ IF Gone(i) THEN reminder'[i].at = "done" ELSE reminder'[i].at = "active"
  <2>1. PICK place \in JobPlace :
          /\ place = IF alert = i /\ event.row THEN "active" ELSE "done"
          /\ reminder' = [reminder EXCEPT ![i].at = place, ![i].time = event.time]
    BY <1>2 DEF StartReminder, JobPlace
  <2>2. PICK r : r = [at |-> place, due |-> reminder[i].due, time |-> event.time]
    OBVIOUS
  <2>3. r \in Jobs /\ r.at = place /\ r.due = reminder[i].due /\ r.time = event.time
    BY <1>1, <2>2 DEF Jobs
  <2>4. reminder' = [reminder EXCEPT ![i] = r]
    <3>1. reminder' = [reminder EXCEPT ![i] = [@ EXCEPT !.at = place, !.time = event.time]]
      BY <2>1 DEF CallsInv
    <3>2. [reminder[i] EXCEPT !.at = place, !.time = event.time] = r
      BY <1>1, <2>2, JobChanges
    <3> QED
      BY <3>1, <3>2
  <2> QED
    BY <2>1, <2>3, <2>4, JobMoves DEF Gone
<1>3. ASSUME NEW place \in JobPlace, reminder' = [reminder EXCEPT ![i].at = place]
      PROVE  /\ reminder' \in [AlertIds -> Jobs]
             /\ \A k \in AlertIds \ {i} : reminder'[k] = reminder[k]
             /\ reminder'[i].due = reminder[i].due /\ reminder'[i].at = place
             /\ reminder'[i].time = reminder[i].time
  <2>1. PICK r : r = [at |-> place, due |-> reminder[i].due, time |-> reminder[i].time]
    OBVIOUS
  <2>2. r \in Jobs /\ r.at = place /\ r.due = reminder[i].due /\ r.time = reminder[i].time
    BY <1>1, <2>1 DEF Jobs
  <2>3. reminder' = [reminder EXCEPT ![i] = r]
    <3>1. reminder' = [reminder EXCEPT ![i] = [@ EXCEPT !.at = place]]
      BY <1>3 DEF CallsInv
    <3>2. [reminder[i] EXCEPT !.at = place] = r
      BY <1>1, <2>1 DEF Jobs
    <3> QED
      BY <3>1, <3>2
  <2> QED
    BY <2>2, <2>3, JobMoves
<1>4. "done" \in JobPlace /\ "delayed" \in JobPlace
  BY DEF JobPlace
<1>5. ASSUME ForgetReminder(i)
      PROVE  /\ reminder' \in [AlertIds -> Jobs]
             /\ \A k \in AlertIds \ {i} : reminder'[k] = reminder[k]
             /\ reminder'[i].at = "none"
  <2>1. NoReminder \in Jobs /\ NoReminder.at = "none"
    BY DEF NoReminder, Jobs, JobPlace
  <2> QED
    BY <1>5, <2>1, JobMoves DEF ForgetReminder
<1>6. ASSUME Notify(i)
      PROVE  /\ reminder' \in [AlertIds -> Jobs]
             /\ \A k \in AlertIds \ {i} : reminder'[k] = reminder[k]
             /\ reminder'[i].due = reminder[i].due /\ reminder'[i].at = "done"
  BY <1>3, <1>4, <1>6 DEF Notify
<1>7. ASSUME ReminderFails(i)
      PROVE  /\ reminder' \in [AlertIds -> Jobs]
             /\ \A k \in AlertIds \ {i} : reminder'[k] = reminder[k]
             /\ reminder'[i].due = reminder[i].due /\ reminder'[i].at = "delayed"
  BY <1>3, <1>4, <1>7 DEF ReminderFails
<1>8. UNCHANGED <<hour, event, alert, usedIds, pageCall, promised, lost, moved>>
  BY DEF StartReminder, Notify, ReminderFails, ForgetReminder, historyVars
<1>9. ASSUME StartReminder(i)
      PROVE  /\ reminder[i].at = "delayed" /\ reminder[i].due <= hour
             /\ UNCHANGED <<notices, repeats, forgotten>>
  BY <1>9 DEF StartReminder, historyVars
<1>10. ASSUME Notify(i)
       PROVE  /\ reminder[i].at = "active" /\ notices' = notices \cup {Notice(i)}
              /\ UNCHANGED <<repeats, forgotten>>
  BY <1>10 DEF Notify, historyVars
<1>11. ASSUME ReminderFails(i)
       PROVE  /\ reminder[i].at = "active"
              /\ notices' \in {notices, notices \cup {Notice(i)}}
              /\ repeats' = repeats + 1 /\ forgotten' = forgotten
  BY <1>11 DEF ReminderFails
<1>12. ASSUME ForgetReminder(i)
       PROVE  /\ reminder[i].at = "done" /\ forgotten' = forgotten \cup {i}
              /\ UNCHANGED <<notices, repeats>>
  BY <1>12 DEF ForgetReminder
<1>13. /\ reminder' \in [AlertIds -> Jobs]
       /\ \A k \in AlertIds \ {i} : reminder'[k] = reminder[k]
  BY <1>2, <1>5, <1>6, <1>7
<1> QED
  BY <1>2, <1>5, <1>6, <1>7, <1>8, <1>9, <1>10, <1>11, <1>12, <1>13


LEMMA CallsStep ==
  ASSUME CallsInv, [ReminderNext]_reminderVars
  PROVE  CallsInv'
<1>0. /\ ReminderTypeOK /\ repeats \in Nat
      /\ hour \in Nat /\ LastHour \in Nat /\ MaxRepeats \in Nat
      /\ event.time \in EventTimes /\ EventTimes \subseteq Nat
  <2>1. ReminderTypeOK /\ repeats \in Nat /\ hour \in Nat
    BY ReminderNumbers DEF CallsInv
  <2>2. LastHour \in Nat /\ MaxRepeats \in Nat /\ EventTimes \subseteq Nat
    BY ReminderAssumption
  <2>3. event.time \in EventTimes
    BY <2>1 DEF ReminderTypeOK
  <2> QED
    BY <2>1, <2>2, <2>3
<1>1. ASSUME NEW c \in SubscribePages, UpsertAlert(c)
      PROVE  CallsInv'
  <2>1. PICK i \in AlertIds :
           /\ i \notin usedIds \/ i = alert
           /\ alert' = i /\ usedIds' = usedIds \cup {i}
           /\ pageCall' \in [SubscribePages -> PageCalls]
           /\ pageCall'[c].at = "read" /\ pageCall'[c].for = i
           /\ \A d \in SubscribePages \ {c} : pageCall'[d] = pageCall[d]
           /\ UNCHANGED <<hour, event, reminder, notices, historyVars>>
    BY <1>1, UpsertFacts
  <2>2. ReminderTypeOK'
    BY <1>0, <2>1 DEF ReminderTypeOK, historyVars
  <2>3. \A d \in SubscribePages : pageCall'[d].at # "idle" => pageCall'[d].for \in usedIds'
    BY <2>1 DEF CallsInv
  <2> QED
    BY <2>1, <2>2, <2>3 DEF CallsInv, historyVars
<1>2. ASSUME NEW c \in SubscribePages, ReadEvent(c)
      PROVE  CallsInv'
  <2>1. /\ pageCall' \in [SubscribePages -> PageCalls]
        /\ \A d \in SubscribePages \ {c} : pageCall'[d] = pageCall[d]
        /\ pageCall[c].at = "read"
        /\ UNCHANGED <<hour, event, alert, usedIds, reminder, notices, lost, moved,
                       repeats, forgotten>>
        /\ \/ /\ pageCall'[c].at = "idle" /\ pageCall'[c].for = NoAlert
              /\ promised' = promised
           \/ /\ pageCall'[c].at = "add" /\ pageCall'[c].for = pageCall[c].for
              /\ promised' = promised \cup {pageCall[c].for}
    BY <1>2, ReadFacts
  <2>2. pageCall[c].for \in usedIds
    BY <2>1 DEF CallsInv
  <2>3. promised' \subseteq usedIds'
    BY <1>0, <2>1, <2>2 DEF ReminderTypeOK
  <2>4. ReminderTypeOK'
    BY <1>0, <2>1, <2>2, <2>3 DEF ReminderTypeOK
  <2> QED
    BY <2>1, <2>2, <2>4 DEF CallsInv
<1>3. ASSUME NEW c \in SubscribePages, AddReminder(c) \/ AddFails(c)
      PROVE  CallsInv'
  <2>0. pageCall[c].at = "add" /\ pageCall[c].for \in usedIds
    BY <1>3 DEF AddReminder, AddFails, CallsInv
  <2>1. PICK i \in AlertIds : i = pageCall[c].for
    BY <1>3, AddFacts
  <2>2. /\ pageCall' \in [SubscribePages -> PageCalls]
        /\ \A d \in SubscribePages \ {c} : pageCall'[d] = pageCall[d]
        /\ pageCall'[c].at = "idle" /\ pageCall'[c].for = NoAlert
        /\ UNCHANGED <<hour, event, alert, usedIds, notices, promised, moved, repeats,
                       forgotten>>
        /\ reminder' \in [AlertIds -> Jobs]
        /\ \A k \in AlertIds \ {i} : reminder'[k] = reminder[k]
    BY <1>3, <2>1, AddFacts
  <2>3. lost' = lost \/ lost' = lost \cup {i}
    BY <1>3, <2>1 DEF AddReminder, AddFails, historyVars
  <2>4. ReminderTypeOK'
    BY <1>0, <2>0, <2>1, <2>2, <2>3 DEF ReminderTypeOK, Jobs
  <2> QED
    BY <2>2, <2>4 DEF CallsInv
<1>4. ASSUME NEW i \in AlertIds,
             StartReminder(i) \/ Notify(i) \/ ReminderFails(i) \/ ForgetReminder(i)
      PROVE  CallsInv'
  <2>1. /\ reminder' \in [AlertIds -> Jobs]
        /\ \A k \in AlertIds \ {i} : reminder'[k] = reminder[k]
        /\ UNCHANGED <<hour, event, alert, usedIds, pageCall, promised, lost, moved>>
    BY <1>4, WorkerFacts
  <2>2. reminder[i].at # "none"
    BY <1>4 DEF StartReminder, Notify, ReminderFails, ForgetReminder
  <2>3. i \in usedIds
    BY <1>0, <2>2 DEF ReminderTypeOK
  <2>4. (forgotten' = forgotten \/ forgotten' = forgotten \cup {i})
        /\ (repeats' = repeats \/ repeats' = repeats + 1)
        /\ (notices' = notices \/ notices' = notices \cup {Notice(i)})
    BY <1>4 DEF StartReminder, Notify, ReminderFails, ForgetReminder, historyVars
  <2>5. Notice(i).for = i /\ Notice(i).at \in Nat /\ Notice(i).time \in Nat
    BY <1>0 DEF Notice, CallsInv, Jobs
  <2>6. ReminderTypeOK'
    BY <1>0, <2>1, <2>3, <2>4 DEF ReminderTypeOK, Jobs
  <2>7. \A n \in notices' : n.for \in usedIds' /\ n.at \in Nat /\ n.time \in Nat
    BY <2>1, <2>3, <2>4, <2>5 DEF CallsInv
  <2>8. repeats' \in Nat
    BY <1>0, <2>4
  <2> QED
    BY <2>1, <2>6, <2>7, <2>8 DEF CallsInv
<1>5. ASSUME NEW t \in EventTimes, MoveEvent(t)
      PROVE  CallsInv'
  <2>1. /\ event' \in [row : BOOLEAN, time : EventTimes] /\ moved' = moved \cup usedIds
        /\ UNCHANGED <<hour, alert, usedIds, pageCall, reminder, notices, promised, lost,
                       repeats, forgotten>>
    BY <1>0, <1>5 DEF MoveEvent, ReminderTypeOK
  <2>2. ReminderTypeOK'
    BY <1>0, <2>1 DEF ReminderTypeOK
  <2> QED
    BY <2>1, <2>2 DEF CallsInv
<1>6. CASE Unsubscribe \/ DeleteEvent \/ HourPasses \/ UNCHANGED reminderVars
  <2>1. /\ UNCHANGED <<usedIds, pageCall, reminder, notices, promised, lost, moved, repeats,
                       forgotten>>
        /\ alert' = alert \/ alert' = NoAlert
    BY <1>6 DEF Unsubscribe, DeleteEvent, HourPasses, reminderVars, historyVars
  <2>2. hour' \in 0 .. LastHour
    BY <1>0, <1>6 DEF Unsubscribe, DeleteEvent, HourPasses, reminderVars, historyVars,
       ReminderTypeOK
  <2>3. event' \in [row : BOOLEAN, time : EventTimes]
    BY <1>0, <1>6 DEF Unsubscribe, DeleteEvent, HourPasses, reminderVars, historyVars,
       ReminderTypeOK
  <2>4. ReminderTypeOK'
    BY <1>0, <2>1, <2>2, <2>3 DEF ReminderTypeOK
  <2> QED
    BY <2>1, <2>4 DEF CallsInv
<1> QED
  BY <1>1, <1>2, <1>3, <1>4, <1>5, <1>6 DEF ReminderNext

\* Nothing promised gets lost but by the queue.
LEMMA KeptStep ==
  ASSUME CallsInv, KeptInv, [ReminderNext]_reminderVars
  PROVE  KeptInv'
<1>0. ReminderTypeOK
  BY DEF CallsInv
<1>1. ASSUME notices \subseteq notices', lost \subseteq lost',
             \A i \in usedIds : Gone(i) => Gone(i)',
             \A i \in AlertIds :
               reminder'[i].at = "done" => Sent(i)' \/ Gone(i)' \/ reminder[i].at = "done",
             \A i \in promised' : i \in promised \/ Adding(i)',
             \A i \in promised : Adding(i) =>
               Adding(i)' \/ i \in lost' \/ reminder'[i].at \in {"delayed", "active", "done"},
             \A i \in promised : reminder[i].at \in {"delayed", "active"} =>
               Sent(i)' \/ Gone(i)' \/ reminder'[i].at \in {"delayed", "active"}
      PROVE  KeptInv'
  <2>1. \A i \in AlertIds : Sent(i) => Sent(i)'
    BY <1>1 DEF Sent
  <2>2. promised \subseteq usedIds /\ usedIds \subseteq AlertIds
    BY <1>0 DEF ReminderTypeOK
  <2>3. \A i \in AlertIds : reminder'[i].at = "done" => Sent(i)' \/ Gone(i)'
    <3> SUFFICES ASSUME NEW i \in AlertIds, reminder'[i].at = "done",
                        reminder[i].at = "done"
                 PROVE  Sent(i)' \/ Gone(i)'
      BY <1>1
    <3>1. i \in usedIds /\ (Sent(i) \/ Gone(i))
      BY <1>0 DEF ReminderTypeOK, KeptInv
    <3> QED
      BY <1>1, <2>1, <3>1
  <2>4. ASSUME NEW i \in promised'
        PROVE  i \in lost' \/ Sent(i)' \/ Gone(i)' \/ Adding(i)'
                 \/ reminder'[i].at \in {"delayed", "active"}
    <3>1. CASE Adding(i)'
      BY <3>1
    <3>2. CASE i \in promised
      <4>1. i \in usedIds /\ i \in AlertIds
        BY <2>2, <3>2
      <4>2. \/ i \in lost \/ Sent(i) \/ Gone(i) \/ Adding(i)
            \/ reminder[i].at \in {"delayed", "active"}
        BY <3>2 DEF KeptInv
      <4>3. CASE i \in lost \/ Sent(i) \/ Gone(i)
        BY <1>1, <2>1, <4>1, <4>3
      <4>4. CASE Adding(i)
        BY <1>1, <2>3, <3>2, <4>1, <4>4
      <4>5. CASE reminder[i].at \in {"delayed", "active"}
        BY <1>1, <3>2, <4>5
      <4> QED
        BY <4>2, <4>3, <4>4, <4>5
    <3> QED
      BY <1>1, <3>1, <3>2
  <2> QED
    BY <2>3, <2>4 DEF KeptInv
<1>2. ASSUME NEW c \in SubscribePages, UpsertAlert(c)
      PROVE  KeptInv'
  <2>1. PICK i \in AlertIds :
           /\ i \notin usedIds \/ i = alert
           /\ alert' = i
           /\ pageCall'[c].at = "read"
           /\ \A d \in SubscribePages \ {c} : pageCall'[d] = pageCall[d]
           /\ UNCHANGED <<event, reminder, notices, historyVars>>
    BY <1>2, UpsertFacts
  <2>2. pageCall[c].at = "idle"
    BY <1>2 DEF UpsertAlert
  <2>3. \A k \in usedIds : Gone(k) => Gone(k)'
    BY <2>1 DEF Gone
  <2>4. \A k \in AlertIds : Adding(k) => Adding(k)'
    BY <2>1, <2>2 DEF Adding
  <2> QED
    BY <1>0, <1>1, <2>1, <2>3, <2>4 DEF historyVars, ReminderTypeOK
<1>3. ASSUME NEW c \in SubscribePages, ReadEvent(c)
      PROVE  KeptInv'
  <2>1. /\ \A d \in SubscribePages \ {c} : pageCall'[d] = pageCall[d]
        /\ pageCall[c].at = "read"
        /\ UNCHANGED <<hour, event, alert, usedIds, reminder, notices, lost, moved,
                       repeats, forgotten>>
        /\ \/ promised' = promised
           \/ /\ pageCall'[c].at = "add" /\ pageCall'[c].for = pageCall[c].for
              /\ promised' = promised \cup {pageCall[c].for}
    BY <1>3, ReadFacts
  <2>2. \A k \in usedIds : Gone(k) => Gone(k)'
    BY <2>1 DEF Gone
  <2>3. \A k : Adding(k) => Adding(k)'
    BY <2>1 DEF Adding
  <2>4. \A k \in promised' : k \in promised \/ Adding(k)'
    BY <2>1 DEF Adding
  <2> QED
    BY <1>1, <2>1, <2>2, <2>3, <2>4
<1>4. ASSUME NEW c \in SubscribePages, AddReminder(c) \/ AddFails(c)
      PROVE  KeptInv'
  <2>1. PICK i \in AlertIds : i = pageCall[c].for
    BY <1>4, AddFacts
  <2>2. /\ \A d \in SubscribePages \ {c} : pageCall'[d] = pageCall[d]
        /\ UNCHANGED <<event, alert, usedIds, notices, promised>>
        /\ \A k \in AlertIds \ {i} : reminder'[k] = reminder[k]
        /\ \/ reminder' = reminder /\ lost' = lost \cup {i}
           \/ reminder' = reminder /\ lost' = lost /\ reminder[i].at # "none"
           \/ /\ reminder[i].at = "none" /\ lost' = lost
              /\ reminder'[i].at = "delayed"
    BY <1>4, <2>1, AddFacts
  <2>3. \A k \in usedIds : Gone(k) => Gone(k)'
    BY <2>2 DEF Gone
  <2>4. reminder[i].at \in JobPlace
    BY <1>0 DEF ReminderTypeOK
  <2>5. ASSUME NEW k \in AlertIds, Adding(k)
        PROVE  Adding(k)' \/ k \in lost' \/ reminder'[k].at \in {"delayed", "active", "done"}
    <3>1. CASE k = i
      BY <2>2, <2>4, <3>1 DEF JobPlace
    <3>2. CASE k # i
      BY <2>1, <2>2, <2>5, <3>2 DEF Adding
    <3> QED
      BY <3>1, <3>2
  <2>6. \A k \in AlertIds :
          /\ reminder'[k].at = "done" => reminder[k].at = "done"
          /\ reminder[k].at \in {"delayed", "active"} =>
               reminder'[k].at \in {"delayed", "active"}
    BY <2>2
  <2>7. promised \subseteq AlertIds
    BY <1>0 DEF ReminderTypeOK
  <2> QED
    BY <1>1, <2>2, <2>3, <2>5, <2>6, <2>7
<1>5. ASSUME NEW i \in AlertIds,
             StartReminder(i) \/ Notify(i) \/ ReminderFails(i) \/ ForgetReminder(i)
      PROVE  KeptInv'
  <2>1. /\ \A k \in AlertIds \ {i} : reminder'[k] = reminder[k]
        /\ UNCHANGED <<event, alert, usedIds, pageCall, promised, lost>>
    BY <1>5, WorkerFacts
  <2>2. \A k : (Gone(k)' <=> Gone(k)) /\ (Adding(k)' <=> Adding(k))
    BY <2>1 DEF Gone, Adding
  <2>3. notices' = notices \/ notices' = notices \cup {Notice(i)}
    BY <1>5 DEF StartReminder, Notify, ReminderFails, ForgetReminder
  <2>4. \/ reminder'[i].at = "active" \/ reminder'[i].at = "delayed"
        \/ reminder'[i].at = "done" /\ (Gone(i)' \/ Sent(i)')
        \/ reminder'[i].at = "none" /\ reminder[i].at = "done"
    <3>1. CASE StartReminder(i)
      <4>1. IF alert # i \/ ~event.row THEN reminder'[i].at = "done"
                                        ELSE reminder'[i].at = "active"
        BY <3>1, WorkerFacts DEF Gone
      <4> QED
        BY <2>1, <4>1 DEF Gone
    <3>2. CASE Notify(i)
      <4>1. reminder'[i].at = "done" /\ notices' = notices \cup {Notice(i)}
        BY <3>2, WorkerFacts
      <4>2. Sent(i)'
        <5>1. PICK n : n = Notice(i)
          OBVIOUS
        <5>2. n.for = i /\ n \in notices'
          BY <4>1, <5>1 DEF Notice
        <5> QED
          BY <5>2 DEF Sent
      <4> QED
        BY <4>1, <4>2
    <3>3. CASE ReminderFails(i)
      BY <3>3, WorkerFacts
    <3>4. CASE ForgetReminder(i)
      BY <3>4, WorkerFacts
    <3> QED
      BY <1>5, <3>1, <3>2, <3>3, <3>4
  <2>5. \A k \in AlertIds :
          reminder'[k].at = "done" => Sent(k)' \/ Gone(k)' \/ reminder[k].at = "done"
    BY <2>1, <2>4
  <2>6. \A k \in AlertIds : reminder[k].at \in {"delayed", "active"} =>
          Sent(k)' \/ Gone(k)' \/ reminder'[k].at \in {"delayed", "active"}
    BY <2>1, <2>4
  <2>7. promised \subseteq AlertIds
    BY <1>0 DEF ReminderTypeOK
  <2> QED
    BY <1>1, <2>1, <2>2, <2>3, <2>5, <2>6, <2>7
<1>6. CASE \/ \E t \in EventTimes : MoveEvent(t)
           \/ Unsubscribe \/ DeleteEvent \/ HourPasses \/ UNCHANGED reminderVars
  <2>1. /\ UNCHANGED <<pageCall, reminder, notices, promised, lost>>
        /\ alert' = alert \/ alert' = NoAlert
    BY <1>6 DEF MoveEvent, Unsubscribe, DeleteEvent, HourPasses, reminderVars, historyVars
  <2>2. ~event.row => ~event'.row
    BY <1>0, <1>6 DEF MoveEvent, Unsubscribe, DeleteEvent, HourPasses, reminderVars,
       historyVars, ReminderTypeOK
  <2>3. \A k \in usedIds : Gone(k) => Gone(k)'
    <3>1. NoAlert \notin usedIds
      BY <1>0, ReminderAssumption DEF ReminderTypeOK
    <3> QED
      BY <2>1, <2>2, <3>1 DEF Gone
  <2>4. \A k : Adding(k)' <=> Adding(k)
    BY <2>1 DEF Adding
  <2> QED
    BY <1>1, <2>1, <2>3, <2>4
<1> QED
  BY <1>2, <1>3, <1>4, <1>5, <1>6 DEF ReminderNext


\* What is due, and when, is what the event says until it moves.
LEMMA DueStep ==
  ASSUME CallsInv, DueInv, [ReminderNext]_reminderVars
  PROVE  DueInv'
<1>0. /\ ReminderTypeOK /\ hour \in Nat /\ event.time \in Nat
      /\ pageCall \in [SubscribePages -> PageCalls] /\ reminder \in [AlertIds -> Jobs]
  BY ReminderNumbers DEF CallsInv
<1>1. ASSUME NEW c \in SubscribePages, UpsertAlert(c)
      PROVE  DueInv'
  <2>1. /\ pageCall'[c].at = "read"
        /\ \A d \in SubscribePages \ {c} : pageCall'[d] = pageCall[d]
        /\ UNCHANGED <<hour, event, reminder, notices, moved>>
    BY <1>1, UpsertFacts DEF historyVars
  <2> QED
    BY <2>1 DEF DueInv, EarlyNeedsMove
<1>2. ASSUME NEW c \in SubscribePages, ReadEvent(c)
      PROVE  DueInv'
  <2>1. /\ \A d \in SubscribePages \ {c} : pageCall'[d] = pageCall[d]
        /\ UNCHANGED <<hour, event, reminder, notices, moved>>
        /\ pageCall'[c].at = "add" => pageCall'[c].due + 1 = event.time
    BY <1>2, ReadFacts
  <2> QED
    BY <2>1 DEF DueInv, EarlyNeedsMove
<1>3. ASSUME NEW c \in SubscribePages, AddReminder(c) \/ AddFails(c)
      PROVE  DueInv'
  <2>1. PICK i \in AlertIds : i = pageCall[c].for
    BY <1>3, AddFacts
  <2>2. /\ \A d \in SubscribePages \ {c} : pageCall'[d] = pageCall[d]
        /\ pageCall'[c].at = "idle" /\ pageCall[c].at = "add"
        /\ UNCHANGED <<hour, event, notices, moved>>
        /\ \A k \in AlertIds \ {i} : reminder'[k] = reminder[k]
        /\ \/ reminder' = reminder
           \/ /\ reminder'[i].at = "delayed"
              /\ reminder'[i].due = pageCall[c].due
    BY <1>3, <2>1, AddFacts
  <2>3. \A d \in SubscribePages :
          pageCall'[d].at = "add" /\ pageCall'[d].for \notin moved' =>
            pageCall'[d].due + 1 = event'.time
    BY <2>2 DEF DueInv
  <2>4. ASSUME NEW k \in AlertIds, k \notin moved'
        PROVE  /\ reminder'[k].at # "none" => reminder'[k].due + 1 = event'.time
               /\ reminder'[k].at = "active" =>
                    reminder'[k].time = event'.time /\ reminder'[k].due <= hour'
    <3>1. CASE reminder'[k] = reminder[k]
      BY <2>2, <2>4, <3>1 DEF DueInv
    <3>2. CASE k = i /\ reminder'[i].at = "delayed" /\ reminder'[i].due = pageCall[c].due
      BY <2>1, <2>2, <2>4, <3>2 DEF DueInv
    <3> QED
      BY <2>2, <3>1, <3>2
  <2> QED
    BY <2>2, <2>3, <2>4 DEF DueInv, EarlyNeedsMove
<1>4. ASSUME NEW i \in AlertIds,
             StartReminder(i) \/ Notify(i) \/ ReminderFails(i) \/ ForgetReminder(i)
      PROVE  DueInv'
  <2>1. /\ \A k \in AlertIds \ {i} : reminder'[k] = reminder[k]
        /\ UNCHANGED <<hour, event, alert, usedIds, pageCall, promised, lost, moved>>
    BY <1>4, WorkerFacts
  <2>2. \A d \in SubscribePages :
          pageCall'[d].at = "add" /\ pageCall'[d].for \notin moved' =>
            pageCall'[d].due + 1 = event'.time
    BY <2>1 DEF DueInv
  <2>3. i \in moved \/
          /\ reminder'[i].at # "none" => reminder'[i].due + 1 = event.time
          /\ reminder'[i].at = "active" =>
               reminder'[i].time = event.time /\ reminder'[i].due <= hour
    <3>1. CASE StartReminder(i)
      <4>1. /\ reminder[i].at = "delayed" /\ reminder[i].due <= hour
            /\ reminder'[i].due = reminder[i].due /\ reminder'[i].time = event.time
        BY <3>1, WorkerFacts
      <4> QED
        BY <4>1 DEF DueInv
    <3>2. CASE Notify(i) \/ ReminderFails(i)
      <4>1. /\ reminder[i].at = "active" /\ reminder'[i].at # "active"
            /\ reminder'[i].due = reminder[i].due
        BY <3>2, WorkerFacts
      <4> QED
        BY <4>1 DEF DueInv
    <3>3. CASE ForgetReminder(i)
      <4>1. reminder'[i].at = "none"
        BY <3>3, WorkerFacts
      <4> QED
        BY <4>1
    <3> QED
      BY <1>4, <3>1, <3>2, <3>3
  <2>4. EarlyNeedsMove'
    <3> SUFFICES ASSUME NEW n \in notices', n.at + 1 < n.time
                 PROVE  n.for \in moved'
      BY DEF EarlyNeedsMove
    <3>1. CASE n \in notices
      BY <2>1, <3>1 DEF DueInv, EarlyNeedsMove
    <3>2. CASE n \notin notices
      <4>1. reminder[i].at = "active" /\ n = Notice(i)
        BY <1>4, <3>2 DEF StartReminder, Notify, ReminderFails, ForgetReminder
      <4>2. n.for = i /\ n.at = hour /\ n.time = reminder[i].time
        BY <4>1 DEF Notice
      <4>3. reminder[i].due \in Nat
        BY <1>0 DEF Jobs
      <4>4. ASSUME i \notin moved PROVE FALSE
        <5>1. /\ reminder[i].due + 1 = event.time /\ reminder[i].time = event.time
              /\ reminder[i].due <= hour
          BY <4>1, <4>4 DEF DueInv
        <5> QED
          BY <1>0, <4>2, <4>3, <5>1
      <4> QED
        BY <2>1, <4>2, <4>4
    <3> QED
      BY <3>1, <3>2
  <2>5. \A k \in AlertIds : k \notin moved' =>
          /\ reminder'[k].at # "none" => reminder'[k].due + 1 = event'.time
          /\ reminder'[k].at = "active" =>
               reminder'[k].time = event'.time /\ reminder'[k].due <= hour'
    BY <2>1, <2>3 DEF DueInv
  <2> QED
    BY <2>2, <2>4, <2>5 DEF DueInv
<1>5. ASSUME NEW t \in EventTimes, MoveEvent(t)
      PROVE  DueInv'
  <2>1. moved' = moved \cup usedIds /\ UNCHANGED <<pageCall, reminder, notices>>
    BY <1>5 DEF MoveEvent
  <2>2. /\ \A c \in SubscribePages : pageCall[c].at = "add" => pageCall[c].for \in usedIds
        /\ \A k \in AlertIds : reminder[k].at # "none" => k \in usedIds
    BY <1>0 DEF CallsInv, ReminderTypeOK
  <2>3. EarlyNeedsMove'
    BY <2>1 DEF DueInv, EarlyNeedsMove
  <2> QED
    BY <2>1, <2>2, <2>3 DEF DueInv
<1>6. CASE Unsubscribe \/ DeleteEvent \/ HourPasses \/ UNCHANGED reminderVars
  <2>1. /\ UNCHANGED <<pageCall, reminder, notices, moved>>
        /\ hour' = hour \/ hour' = hour + 1
    BY <1>6 DEF Unsubscribe, DeleteEvent, HourPasses, reminderVars, historyVars
  <2>2. event'.time = event.time
    BY <1>0, <1>6 DEF Unsubscribe, DeleteEvent, HourPasses, reminderVars, historyVars,
       ReminderTypeOK
  <2>3. \A k \in AlertIds : reminder[k].due <= hour => reminder[k].due <= hour'
    BY <1>0, <2>1 DEF Jobs
  <2> QED
    BY <2>1, <2>2, <2>3 DEF DueInv, EarlyNeedsMove
<1> QED
  BY <1>1, <1>2, <1>3, <1>4, <1>5, <1>6 DEF ReminderNext


\* Nothing begins, and nothing that waits becomes the member's alert.
LEMMA OnceKept ==
  ASSUME OneBegan, UNCHANGED <<reminder, notices>>,
         event'.time = event.time \/ \A i \in AlertIds : ~Began(i),
         hour' = hour \/ hour' = hour + 1, hour \in Nat, event.time \in Nat,
         \A i, k \in AlertIds :
           Began(i) /\ k # i /\ (reminder[k].at = "delayed" \/ Adding(k)') => alert' # k
  PROVE  OneBegan'
<1>1. \A i : (Sent(i)' <=> Sent(i)) /\ (Began(i)' <=> Began(i))
  BY DEF Sent, Began
<1>2. /\ \A i, k \in AlertIds : Began(i)' /\ Began(k)' => i = k
      /\ \A i \in AlertIds : Sent(i)' => reminder'[i].at = "done"
      /\ \A m, n \in notices' : m = n
  BY <1>1 DEF OneBegan
<1>3. \A i, k \in AlertIds :
        Began(i)' /\ k # i /\ (reminder'[k].at = "delayed" \/ Adding(k)') => alert' # k
  BY <1>1
<1>4. ASSUME NEW i \in AlertIds, Began(i)'
      PROVE  hour' + 1 >= event'.time
  <2>1. Began(i) /\ event'.time = event.time
    BY <1>1, <1>4
  <2>2. hour + 1 >= event.time
    BY <2>1 DEF OneBegan
  <2> QED
    BY <2>1, <2>2
<1> QED
  BY <1>2, <1>3, <1>4 DEF OneBegan

\* An attempt: the notice is due when it begins, and no other has begun.
LEMMA AttemptStep ==
  ASSUME CallsInv, DueInv, OneBegan, Calm, Calm', NEW i \in AlertIds,
         StartReminder(i) \/ Notify(i) \/ ReminderFails(i) \/ ForgetReminder(i)
  PROVE  OneBegan'
<1>0. /\ ReminderTypeOK /\ hour \in Nat /\ event.time \in Nat
      /\ reminder \in [AlertIds -> Jobs] /\ repeats \in Nat
  BY ReminderNumbers DEF CallsInv
<1>1. /\ reminder' \in [AlertIds -> Jobs]
      /\ \A k \in AlertIds \ {i} : reminder'[k] = reminder[k]
      /\ UNCHANGED <<hour, event, alert, usedIds, pageCall>>
  BY WorkerFacts
<1>2. StartReminder(i) \/ Notify(i)
  <2>1. ~ReminderFails(i)
    BY <1>0, WorkerFacts DEF Calm
  <2>2. ~ForgetReminder(i)
    BY WorkerFacts DEF Calm
  <2> QED
    BY <2>1, <2>2
<1>3. \A k : Adding(k)' <=> Adding(k)
  BY <1>1 DEF Adding
<1>4. CASE StartReminder(i)
  <2>1. /\ reminder[i].at = "delayed" /\ reminder[i].due <= hour
        /\ notices' = notices
        /\ IF alert # i \/ ~event.row THEN reminder'[i].at = "done"
                                      ELSE reminder'[i].at = "active"
    BY <1>4, WorkerFacts DEF Gone
  <2>2. \A k : Sent(k)' <=> Sent(k)
    BY <2>1 DEF Sent
  <2>3. ~Began(i)
    BY <2>1 DEF Began, OneBegan
  <2>4. \A k \in AlertIds \ {i} : Began(k)' <=> Began(k)
    BY <1>1, <2>2 DEF Began
  <2>5. CASE reminder'[i].at = "done"
    <3>1. ~Began(i)'
      BY <2>2, <2>3, <2>5 DEF Began
    <3>2. /\ \A j, k \in AlertIds : Began(j)' /\ Began(k)' => j = k
          /\ \A k \in AlertIds : Began(k)' => hour' + 1 >= event'.time
      BY <1>1, <2>4, <3>1 DEF OneBegan
    <3>3. /\ \A k \in AlertIds : Sent(k)' => reminder'[k].at = "done"
          /\ \A m, n \in notices' : m = n
      BY <1>1, <2>1, <2>2, <2>5 DEF OneBegan
    <3>4. ASSUME NEW j \in AlertIds, NEW k \in AlertIds, Began(j)', k # j,
                 reminder'[k].at = "delayed" \/ Adding(k)'
          PROVE  alert' # k
      <4>1. Began(j)
        BY <2>4, <3>1, <3>4
      <4>2. reminder[k].at = "delayed" \/ Adding(k)
        BY <1>1, <1>3, <2>5, <3>4
      <4> QED
        BY <1>1, <3>4, <4>1, <4>2 DEF OneBegan
    <3> QED
      BY <3>2, <3>3, <3>4 DEF OneBegan
  <2>6. CASE reminder'[i].at = "active" /\ alert = i
    <3>1. \A k \in AlertIds : ~Began(k)
      BY <2>1, <2>3, <2>6 DEF OneBegan
    <3>2. \A k \in AlertIds : Began(k)' => k = i
      BY <2>4, <3>1
    <3>3. hour' + 1 >= event'.time
      <4>1. reminder[i].due + 1 = event.time /\ reminder[i].due \in Nat
        BY <1>0, <2>1 DEF DueInv, Calm, Jobs
      <4> QED
        BY <1>0, <1>1, <2>1, <4>1
    <3>4. /\ \A k \in AlertIds : ~Sent(k)'
          /\ \A m, n \in notices' : m = n
      BY <2>1, <2>2, <3>1 DEF OneBegan, Began
    <3>5. \A j, k \in AlertIds : Began(j)' /\ k # j => alert' # k
      BY <1>1, <2>6, <3>2
    <3>6. \A j, k \in AlertIds : Began(j)' /\ Began(k)' => j = k
      BY <3>2
    <3> QED
      BY <3>3, <3>4, <3>5, <3>6 DEF OneBegan
  <2> QED
    BY <2>1, <2>5, <2>6
<1>5. CASE Notify(i)
  <2>1. /\ reminder[i].at = "active" /\ reminder'[i].at = "done"
        /\ notices' = notices \cup {Notice(i)}
    BY <1>5, WorkerFacts
  <2>2. Began(i) /\ ~Sent(i)
    BY <2>1 DEF Began, OneBegan
  <2>3. notices = {}
    <3>1. \A k \in AlertIds : ~Sent(k)
      BY <2>2 DEF OneBegan, Began
    <3>2. \A n \in notices : n.for \in AlertIds
      BY <1>0 DEF CallsInv, ReminderTypeOK
    <3> QED
      BY <3>1, <3>2 DEF Sent
  <2>4. Notice(i).for = i
    BY DEF Notice
  <2>5. \A k : Sent(k)' <=> k = i
    BY <2>1, <2>3, <2>4 DEF Sent
  <2>6. \A k \in AlertIds : Began(k)' <=> k = i
    <3>1. \A k \in AlertIds \ {i} : reminder[k].at # "active"
      BY <2>2 DEF OneBegan, Began
    <3>2. \A k \in AlertIds : reminder'[k].at # "active"
      BY <1>1, <2>1, <3>1
    <3> QED
      BY <2>5, <3>2 DEF Began
  <2>7. \A m, n \in notices' : m = n
    BY <2>1, <2>3
  <2>8. ASSUME NEW k \in AlertIds, k # i, reminder'[k].at = "delayed" \/ Adding(k)'
        PROVE  alert' # k
    BY <1>1, <1>3, <2>2, <2>8 DEF OneBegan
  <2>9. hour' + 1 >= event'.time
    BY <1>1, <2>2 DEF OneBegan
  <2> QED
    BY <2>1, <2>5, <2>6, <2>7, <2>8, <2>9 DEF OneBegan
<1> QED
  BY <1>2, <1>4, <1>5

LEMMA OnceStep ==
  ASSUME CallsInv, DueInv, Calm => OneBegan, Calm', [ReminderNext]_reminderVars
  PROVE  OneBegan'
<1>0. /\ ReminderTypeOK /\ hour \in Nat /\ event.time \in Nat
      /\ reminder \in [AlertIds -> Jobs] /\ repeats \in Nat
  BY ReminderNumbers DEF CallsInv
<1>c. Calm /\ OneBegan
  <2>1. moved \subseteq moved' /\ forgotten \subseteq forgotten'
        /\ (repeats' = repeats \/ repeats' = repeats + 1)
    BY DEF ReminderNext, UpsertAlert, ReadEvent, AddReminder, AddFails, MoveEvent,
       Unsubscribe, DeleteEvent, HourPasses, StartReminder, Notify, ReminderFails,
       ForgetReminder, historyVars, reminderVars
  <2> QED
    BY <1>0, <2>1 DEF Calm
<1>1. ASSUME NEW c \in SubscribePages, UpsertAlert(c)
      PROVE  OneBegan'
  <2>1. PICK i \in AlertIds :
           /\ i \notin usedIds \/ i = alert
           /\ alert' = i
           /\ pageCall'[c].at = "read"
           /\ \A d \in SubscribePages \ {c} : pageCall'[d] = pageCall[d]
           /\ UNCHANGED <<hour, event, reminder, notices, historyVars>>
    BY <1>1, UpsertFacts
  <2>2. \A k : Adding(k)' => Adding(k)
    BY <2>1 DEF Adding
  <2>3. ASSUME i \notin usedIds
        PROVE  reminder[i].at = "none" /\ ~Adding(i)
    <3>1. reminder[i].at = "none"
      BY <1>0, <2>3 DEF ReminderTypeOK
    <3>2. ~Adding(i)
      BY <2>3 DEF Adding, CallsInv
    <3> QED
      BY <3>1, <3>2
  <2>4. \A j, k \in AlertIds :
          Began(j) /\ k # j /\ (reminder[k].at = "delayed" \/ Adding(k)') => alert' # k
    BY <1>c, <2>1, <2>2, <2>3 DEF OneBegan
  <2> QED
    BY <1>0, <1>c, <2>1, <2>4, OnceKept
<1>2. ASSUME NEW c \in SubscribePages, ReadEvent(c)
      PROVE  OneBegan'
  <2>1. /\ \A d \in SubscribePages \ {c} : pageCall'[d] = pageCall[d]
        /\ UNCHANGED <<hour, event, alert, reminder, notices>>
        /\ pageCall'[c].at = "add" => event.time - 1 > hour
    BY <1>2, ReadFacts
  <2>2. ASSUME NEW j \in AlertIds, Began(j)
        PROVE  \A k : Adding(k)' => Adding(k)
    <3>1. hour + 1 >= event.time
      BY <1>c, <2>2 DEF OneBegan
    <3>2. pageCall'[c].at # "add"
      BY <1>0, <2>1, <3>1
    <3> QED
      BY <2>1, <3>2 DEF Adding
  <2>3. \A j, k \in AlertIds :
          Began(j) /\ k # j /\ (reminder[k].at = "delayed" \/ Adding(k)') => alert' # k
    BY <1>c, <2>1, <2>2 DEF OneBegan
  <2> QED
    BY <1>0, <1>c, <2>1, <2>3, OnceKept
<1>3. ASSUME NEW c \in SubscribePages, AddReminder(c) \/ AddFails(c)
      PROVE  OneBegan'
  <2>1. PICK i \in AlertIds : i = pageCall[c].for
    BY <1>3, AddFacts
  <2>2. /\ \A d \in SubscribePages \ {c} : pageCall'[d] = pageCall[d]
        /\ pageCall'[c].at = "idle" /\ pageCall[c].at = "add"
        /\ UNCHANGED <<hour, event, alert, notices>>
        /\ \A k \in AlertIds \ {i} : reminder'[k] = reminder[k]
        /\ \/ reminder' = reminder
           \/ reminder[i].at = "none" /\ reminder'[i].at = "delayed"
    BY <1>3, <2>1, AddFacts
  <2>3. Adding(i) /\ \A k : Adding(k)' => Adding(k)
    BY <2>1, <2>2 DEF Adding
  <2>4. CASE reminder' = reminder
    <3>1. \A j, k \in AlertIds :
            Began(j) /\ k # j /\ (reminder[k].at = "delayed" \/ Adding(k)') => alert' # k
      BY <1>c, <2>2, <2>3 DEF OneBegan
    <3> QED
      BY <1>0, <1>c, <2>2, <2>4, <3>1, OnceKept
  <2>5. CASE reminder[i].at = "none" /\ reminder'[i].at = "delayed"
    <3>1. \A k : Sent(k)' <=> Sent(k)
      BY <2>2 DEF Sent
    <3>2. \A k \in AlertIds : Began(k)' <=> Began(k)
      BY <2>2, <2>5, <3>1 DEF Began
    <3>3. /\ \A j, k \in AlertIds : Began(j)' /\ Began(k)' => j = k
          /\ \A k \in AlertIds : Sent(k)' => reminder'[k].at = "done"
          /\ \A m, n \in notices' : m = n
      BY <1>c, <2>2, <2>5, <3>1, <3>2 DEF OneBegan
    <3>4. ASSUME NEW j \in AlertIds, NEW k \in AlertIds, Began(j)', k # j,
                 reminder'[k].at = "delayed" \/ Adding(k)'
          PROVE  alert' # k
      <4>1. Began(j) /\ (reminder[k].at = "delayed" \/ Adding(k))
        BY <2>2, <2>3, <3>2, <3>4
      <4> QED
        BY <1>c, <2>2, <3>4, <4>1 DEF OneBegan
    <3>5. \A k \in AlertIds : Began(k)' => hour' + 1 >= event'.time
      BY <1>c, <2>2, <3>2 DEF OneBegan
    <3> QED
      BY <3>3, <3>4, <3>5 DEF OneBegan
  <2> QED
    BY <2>2, <2>4, <2>5
<1>4. ASSUME NEW i \in AlertIds,
             StartReminder(i) \/ Notify(i) \/ ReminderFails(i) \/ ForgetReminder(i)
      PROVE  OneBegan'
  BY <1>4, <1>c, AttemptStep
<1>5. ASSUME NEW t \in EventTimes, MoveEvent(t)
      PROVE  OneBegan'
  <2>1. moved' = moved \cup usedIds /\ UNCHANGED <<hour, alert, pageCall, reminder, notices>>
    BY <1>5 DEF MoveEvent
  <2>2. usedIds = {}
    BY <2>1 DEF Calm
  <2>3. \A i \in AlertIds : ~Began(i)
    BY <1>0, <2>2 DEF CallsInv, ReminderTypeOK, Began, Sent
  <2> QED
    BY <1>0, <1>c, <2>1, <2>3, OnceKept
<1>6. CASE Unsubscribe \/ DeleteEvent \/ HourPasses \/ UNCHANGED reminderVars
  <2>1. /\ UNCHANGED <<pageCall, reminder, notices>>
        /\ alert' = alert \/ alert' = NoAlert
        /\ hour' = hour \/ hour' = hour + 1
    BY <1>6 DEF Unsubscribe, DeleteEvent, HourPasses, reminderVars, historyVars
  <2>2. event'.time = event.time
    BY <1>0, <1>6 DEF Unsubscribe, DeleteEvent, HourPasses, reminderVars, historyVars,
       ReminderTypeOK
  <2>3. \A k : Adding(k)' <=> Adding(k)
    BY <2>1 DEF Adding
  <2>4. \A j, k \in AlertIds :
          Began(j) /\ k # j /\ (reminder[k].at = "delayed" \/ Adding(k)') => alert' # k
    BY <1>c, <2>1, <2>3, ReminderAssumption DEF OneBegan
  <2> QED
    BY <1>0, <1>c, <2>1, <2>2, <2>4, OnceKept
<1> QED
  BY <1>1, <1>2, <1>3, <1>4, <1>5, <1>6 DEF ReminderNext

\* Calls, alert rows, jobs and what was sent agree in every state.
THEOREM RemindersHistoryHolds == ReminderSpec => []RemindersHistory
<1>1. ReminderInit => RemindersHistory
  <2> SUFFICES ASSUME ReminderInit PROVE RemindersHistory
    OBVIOUS
  <2>1. /\ hour = 0 /\ event \in [row : {TRUE}, time : EventTimes]
        /\ alert = NoAlert /\ usedIds = {} /\ notices = {} /\ promised = {} /\ lost = {}
        /\ moved = {} /\ repeats = 0 /\ forgotten = {}
    BY DEF ReminderInit
  <2>2. /\ pageCall \in [SubscribePages -> PageCalls]
        /\ \A c \in SubscribePages : pageCall[c].at = "idle" /\ pageCall[c].for = NoAlert
    BY DEF ReminderInit, NoCallYet, PageCalls
  <2>3. /\ reminder \in [AlertIds -> Jobs]
        /\ \A i \in AlertIds : reminder[i].at = "none"
    BY DEF ReminderInit, NoReminder, Jobs, JobPlace
  <2>4. ReminderTypeOK
    <3>1. hour \in 0 .. LastHour
      BY <2>1, ReminderAssumption
    <3>2. event \in [row : BOOLEAN, time : EventTimes]
      BY <2>1
    <3> QED
      BY <2>1, <2>2, <2>3, <3>1, <3>2 DEF ReminderTypeOK, JobPlace
  <2>5. CallsInv
    BY <2>1, <2>2, <2>3, <2>4 DEF CallsInv
  <2>6. KeptInv /\ DueInv
    BY <2>1, <2>2, <2>3 DEF KeptInv, DueInv, EarlyNeedsMove
  <2>7. OneBegan
    BY <2>1, <2>3 DEF OneBegan, Began, Sent
  <2> QED
    BY <2>5, <2>6, <2>7 DEF RemindersHistory
<1>2. RemindersHistory /\ [ReminderNext]_reminderVars => RemindersHistory'
  <2> SUFFICES ASSUME RemindersHistory, [ReminderNext]_reminderVars
               PROVE  RemindersHistory'
    OBVIOUS
  <2>1. CallsInv' /\ KeptInv' /\ DueInv'
    BY CallsStep, KeptStep, DueStep DEF RemindersHistory
  <2>2. Calm' => OneBegan'
    BY OnceStep DEF RemindersHistory
  <2> QED
    BY <2>1, <2>2 DEF RemindersHistory
<1> QED
  BY <1>1, <1>2, PTL DEF ReminderSpec

\* ReminderInv: whoever subscribes in time is reminded or still will be, once
\* and not early, but for moved events, failed attempts and what the queue lost
\* or forgot (scheduleEventReminder, event-reminder-worker.ts).
THEOREM RemindersHold == ReminderSpec => []ReminderInv
<1>1. RemindersHistory => ReminderInv
  <2> SUFFICES ASSUME RemindersHistory PROVE ReminderInv
    OBVIOUS
  <2>1. ReminderTypeOK /\ EarlyNeedsMove
    BY DEF RemindersHistory, CallsInv, DueInv
  <2>2. PromiseIsKept
    <3> SUFFICES ASSUME event.row, alert \in promised, alert \notin lost
                 PROVE  SentFor(alert) # {} \/ alert \in Scheduled
      BY DEF PromiseIsKept
    <3>1. \/ Sent(alert) \/ Adding(alert)
          \/ reminder[alert].at \in {"delayed", "active"}
      BY DEF RemindersHistory, KeptInv, Gone
    <3>2. alert \in AlertIds
      BY <2>1 DEF ReminderTypeOK
    <3>3. CASE Sent(alert)
      BY <3>3 DEF Sent, SentFor
    <3>4. CASE Adding(alert)
      BY <3>2, <3>4 DEF Adding, Scheduled
    <3>5. CASE reminder[alert].at \in {"delayed", "active"}
      BY <3>2, <3>5 DEF Scheduled
    <3> QED
      BY <3>1, <3>3, <3>4, <3>5
  <2>3. RemindedTwiceNeedsCause
    <3>1. ASSUME NEW m \in notices, NEW n \in notices, moved = {}, ~(repeats > 0),
                 forgotten = {}
          PROVE  m = n
      <4>1. Calm
        BY <3>1 DEF Calm, RemindersHistory, CallsInv
      <4> QED
        BY <4>1 DEF RemindersHistory, OneBegan
    <3> QED
      BY <3>1 DEF RemindedTwiceNeedsCause
  <2> QED
    BY <2>1, <2>2, <2>3 DEF ReminderInv
<1> QED
  BY <1>1, RemindersHistoryHolds, PTL

-----------------------------------------------------------------------------
(* The files and cover of one product (ProductAssets).  That rows come in   *)
(* the order of the page follows from its queue: of two files the later one *)
(* starts when the earlier has left, and one that was not retried left with *)
(* its row or will never show as done.  That a cover keeps its object       *)
(* follows from what each call knows: what it deletes was read before its   *)
(* transaction, is gone after it, and never comes back.                     *)

AttachStates == {"idle", "lookup", "update", "create", "insert", "saved", "failed"}
Waiting == {"queued", "presign", "put", "attach"}
Started == {"presign", "put", "attach", "done", "error"}
Ended == {"done", "error"}

FilesTyped ==
  /\ queue \in [UploadPages -> Seq(Items)] /\ state \in [Items -> Shown]
  /\ picked \in [UploadPages -> Seq(Items)] /\ retried \subseteq Items
  /\ attach \in [Items -> AttachStates]
  /\ version \in BOOLEAN /\ rows \in Seq(Items)

\* An item is picked once, on one page, and queued there while it waits.
PickedOnce ==
  /\ \A p \in UploadPages : \A m, n \in DOMAIN picked[p] :
       picked[p][m] = picked[p][n] => m = n
  /\ \A p, r \in UploadPages : \A m \in DOMAIN picked[p], n \in DOMAIN picked[r] :
       picked[p][m] = picked[r][n] => p = r
  /\ \A p \in UploadPages : \A m \in DOMAIN picked[p] : state[picked[p][m]] # "none"

QueuedAsPicked ==
  \A p \in UploadPages :
    /\ \A x \in DOMAIN queue[p] : /\ InSeq(queue[p][x], picked[p])
                                  /\ state[queue[p][x]] \in Waiting
                                  /\ x # 1 => state[queue[p][x]] = "queued"
    /\ \A x, y \in DOMAIN queue[p] : queue[p][x] = queue[p][y] => x = y
    /\ \A m \in DOMAIN picked[p] :
         state[picked[p][m]] \in Waiting => InSeq(picked[p][m], queue[p])

\* Items that were not retried are queued in the order they were picked.
QueueInOrder ==
  \A p \in UploadPages : \A x, y \in DOMAIN queue[p], m, n \in DOMAIN picked[p] :
    /\ picked[p][m] = queue[p][x] /\ picked[p][n] = queue[p][y]
    /\ {queue[p][x], queue[p][y]} \cap retried = {}
    /\ x < y
    => m < n

\* An item starts when those picked before it have left.
StartInOrder ==
  \A p \in UploadPages : \A m, n \in DOMAIN picked[p] :
    /\ m < n /\ {picked[p][m], picked[p][n]} \cap retried = {}
    /\ state[picked[p][n]] \in Started
    => state[picked[p][m]] \in Ended

\* What the server has done for an item, and what that leaves behind.
AttachHolds ==
  /\ announced = IF version THEN 1 ELSE 0
  /\ rows # <<>> => version
  /\ \A i \in Items :
       /\ attach[i] # "idle" => state[i] \in {"attach", "done", "error"} /\ i \in objects
       /\ attach[i] \in {"update", "insert", "saved"} => version
       /\ attach[i] = "saved" => InSeq(i, rows)
       /\ state[i] = "done" => attach[i] = "saved"
       /\ InSeq(i, rows) /\ i \notin retried => attach[i] = "saved"

RowsFollowPage ==
  \A p \in UploadPages : \A m, n \in DOMAIN picked[p] :
    /\ m < n /\ {picked[p][m], picked[p][n]} \cap retried = {}
    /\ state[picked[p][m]] = "done"
    => \A x, y \in DOMAIN rows :
         rows[x] = picked[p][m] /\ rows[y] = picked[p][n] => x < y

\* What each call for a cover has read.
CoverTyped ==
  /\ covers \subseteq CoverCalls /\ objects \subseteq CoverCalls \cup Items
  /\ coverCall \in [CoverCalls ->
       [at : {"idle", "done"}]
         \cup [at : {"read", "cleanup"}, previous : SUBSET CoverCalls]
         \cup [at : {"tx"}, previous : SUBSET CoverCalls, deleting : SUBSET CoverCalls]]

Committed(d) == coverCall[d].at = "cleanup"

CoversHold ==
  /\ \A c \in covers : Committed(c) /\ c \in objects
  /\ \A c \in CoverCalls :
       /\ coverCall[c].at \in {"read", "tx"} => c \in objects
       /\ coverCall[c].at \in {"read", "tx", "cleanup"} =>
            \A d \in coverCall[c].previous : Committed(d)
       /\ coverCall[c].at = "tx" =>
            coverCall[c].previous \cap covers \subseteq coverCall[c].deleting
       /\ coverCall[c].at = "cleanup" => coverCall[c].previous \cap covers = {}

PagesHold == PickedOnce /\ QueuedAsPicked /\ QueueInOrder /\ StartInOrder
FilesHold == FilesTyped /\ PagesHold /\ AttachHolds /\ RowsFollowPage
AssetsHistory == FilesHold /\ CoverTyped /\ CoversHold

LEMMA Appended ==
  ASSUME NEW q \in Seq(Items), NEW i \in Items
  PROVE  /\ Append(q, i) \in Seq(Items) /\ Append(q, i) # <<>>
         /\ Len(q) \in Nat /\ DOMAIN q = 1 .. Len(q)
         /\ DOMAIN Append(q, i) = 1 .. Len(q) + 1
         /\ \A n \in DOMAIN q : Append(q, i)[n] = q[n]
         /\ Append(q, i)[Len(q) + 1] = i
  BY AppendProperties, LenProperties

LEMMA Shifted ==
  ASSUME NEW q \in Seq(Items), q # <<>>
  PROVE  /\ Tail(q) \in Seq(Items) /\ Head(q) = q[1]
         /\ Len(q) \in Nat \ {0} /\ DOMAIN q = 1 .. Len(q)
         /\ DOMAIN Tail(q) = 1 .. Len(q) - 1
         /\ \A n \in DOMAIN Tail(q) : Tail(q)[n] = q[n + 1]
<1>1. Tail(q) \in Seq(Items) /\ Len(Tail(q)) = Len(q) - 1 /\ Len(q) \in Nat \ {0}
  BY HeadTailProperties, EmptySeq
<1>2. Head(q) = q[1] /\ \A n \in 1 .. Len(q) - 1 : Tail(q)[n] = q[n + 1]
  BY <1>1
<1> QED
  BY <1>1, <1>2, LenProperties

LEMMA AssetsStart == AssetsInit => AssetsHistory
<1> SUFFICES ASSUME AssetsInit PROVE AssetsHistory
  OBVIOUS
<1> USE DEF AssetsInit
<1>1. <<>> \in Seq(Items) /\ DOMAIN <<>> = {}
  BY EmptySeq
<1>2. FilesTyped /\ AttachHolds /\ RowsFollowPage
  BY <1>1 DEF FilesTyped, Shown, AttachStates, AttachHolds, RowsFollowPage, InSeq
<1>3. PagesHold
  BY <1>1 DEF PagesHold, PickedOnce, QueuedAsPicked, QueueInOrder, StartInOrder
<1>4. CoverTyped /\ CoversHold
  BY DEF CoverTyped, CoversHold
<1> QED
  BY <1>2, <1>3, <1>4 DEF AssetsHistory, FilesHold

-----------------------------------------------------------------------------
(* The page.                                                               *)

\* An item that goes on without leaving the queue.
LEMMA ItemGoesOn ==
  ASSUME FilesHold, NEW i \in Items, NEW s \in Waiting \ {"queued"},
         state[i] \in Waiting \ {"queued"}, state' = [state EXCEPT ![i] = s],
         UNCHANGED <<queue, picked, retried>>
  PROVE  PagesHold'
<1> USE DEF FilesHold, FilesTyped, PagesHold, Waiting, Started, Ended
<1>1. PickedOnce'
  BY DEF PickedOnce
<1>2. QueuedAsPicked'
  BY DEF QueuedAsPicked, InSeq
<1>3. QueueInOrder' /\ StartInOrder'
  BY DEF QueueInOrder, StartInOrder
<1> QED
  BY <1>1, <1>2, <1>3

LEMMA ItemStarts ==
  ASSUME FilesHold, NEW p \in UploadPages, NEW i \in Items, Start(p, i)
  PROVE  PagesHold'
<1> USE DEF FilesHold, FilesTyped, PagesHold
<1>1. /\ queue[p] # <<>> /\ queue[p][1] = i /\ 1 \in DOMAIN queue[p] /\ state[i] = "queued"
      /\ state' = [state EXCEPT ![i] = "presign"]
      /\ UNCHANGED <<queue, picked, retried>>
  BY Shifted DEF Start, May, Show
<1>2. \A r \in UploadPages : \A x \in DOMAIN queue[r] : queue[r][x] = i => r = p /\ x = 1
  BY <1>1 DEF PickedOnce, QueuedAsPicked, InSeq
<1>3. PickedOnce'
  BY <1>1 DEF PickedOnce
<1>4. QueuedAsPicked'
  BY <1>1, <1>2 DEF QueuedAsPicked, InSeq, Waiting
<1>5. QueueInOrder'
  BY <1>1 DEF QueueInOrder
<1>6. StartInOrder'
  <2> SUFFICES ASSUME NEW r \in UploadPages,
                      NEW m \in DOMAIN picked[r], NEW n \in DOMAIN picked[r], m < n,
                      {picked[r][m], picked[r][n]} \cap retried = {},
                      state'[picked[r][n]] \in Started
               PROVE  state'[picked[r][m]] \in Ended
    BY <1>1 DEF StartInOrder
  <2> DEFINE a == picked[r][m]
             b == picked[r][n]
  <2>1. a \in Items /\ b \in Items /\ m \in Nat /\ n \in Nat /\ a # b
    BY LenProperties, ElementOfSeq DEF PickedOnce
  <2>2. state[a] \in Ended => state'[a] \in Ended
    BY <1>1, <2>1 DEF Ended
  <2>3. CASE b # i
    BY <1>1, <2>1, <2>2, <2>3 DEF StartInOrder
  <2>4. CASE b = i
    <3>1. SUFFICES ASSUME state[a] \in Waiting PROVE FALSE
      BY <2>1, <2>2 DEF PickedOnce, Shown, Waiting, Ended
    <3>2. PICK x \in DOMAIN queue[r] : queue[r][x] = a
      BY <3>1 DEF QueuedAsPicked, InSeq
    <3>3. r = p
      BY <1>1, <2>4 DEF PickedOnce, QueuedAsPicked, InSeq
    <3>4. 1 < x
      BY <1>1, <2>1, <2>4, <3>2, <3>3, LenProperties
    <3>5. n < m
      BY <1>1, <2>4, <3>2, <3>3, <3>4 DEF QueueInOrder
    <3> QED
      BY <2>1, <3>5
  <2> QED
    BY <2>3, <2>4
<1> QED
  BY <1>3, <1>4, <1>5, <1>6

LEMMA ItemLeaves ==
  ASSUME FilesHold, NEW i \in Items, NEW s \in Ended,
         state[i] \in Waiting \ {"queued"}, state' = [state EXCEPT ![i] = s],
         Leave(i), UNCHANGED <<picked, retried>>
  PROVE  PagesHold' /\ queue' \in [UploadPages -> Seq(Items)]
<1> USE DEF FilesHold, FilesTyped, PagesHold
<1>1. \A p \in UploadPages :
        \/ /\ queue[p] # <<>> /\ queue[p][1] = i /\ queue'[p] = Tail(queue[p])
        \/ queue'[p] = queue[p] /\ \A x \in DOMAIN queue[p] : queue[p][x] # i
  <2> SUFFICES ASSUME NEW p \in UploadPages, NEW x \in DOMAIN queue[p], queue[p][x] = i
               PROVE  /\ queue[p] # <<>> /\ queue[p][1] = i
                      /\ queue'[p] = Tail(queue[p])
    BY Shifted DEF Leave
  <2>1. queue[p] # <<>> /\ x = 1
    BY EmptySeq, LenProperties DEF QueuedAsPicked
  <2> QED
    BY <2>1, Shifted DEF Leave
<1>2. \A p \in UploadPages :
        /\ queue'[p] \in Seq(Items)
        /\ \E d \in {0, 1} :
             /\ \A x \in DOMAIN queue'[p] :
                  /\ x \in Nat \ {0} /\ x + d \in DOMAIN queue[p]
                  /\ queue'[p][x] = queue[p][x + d] /\ queue'[p][x] # i
             /\ \A y \in DOMAIN queue[p] : queue[p][y] # i =>
                  y - d \in DOMAIN queue'[p] /\ queue'[p][y - d] = queue[p][y]
  <2> SUFFICES ASSUME NEW p \in UploadPages
               PROVE  /\ queue'[p] \in Seq(Items)
                      /\ \E d \in {0, 1} :
                           /\ \A x \in DOMAIN queue'[p] :
                                /\ x \in Nat \ {0} /\ x + d \in DOMAIN queue[p]
                                /\ queue'[p][x] = queue[p][x + d] /\ queue'[p][x] # i
                           /\ \A y \in DOMAIN queue[p] : queue[p][y] # i =>
                                y - d \in DOMAIN queue'[p]
                                /\ queue'[p][y - d] = queue[p][y]
    OBVIOUS
  <2>1. CASE queue'[p] = queue[p] /\ \A x \in DOMAIN queue[p] : queue[p][x] # i
    BY <2>1, LenProperties
  <2>2. CASE queue[p] # <<>> /\ queue[p][1] = i /\ queue'[p] = Tail(queue[p])
    <3>1. \A x \in DOMAIN queue[p] : queue[p][x] = i => x = 1
      BY DEF QueuedAsPicked
    <3>2. /\ queue'[p] \in Seq(Items)
          /\ \A x \in DOMAIN queue'[p] :
               /\ x \in Nat \ {0} /\ x + 1 \in DOMAIN queue[p]
               /\ queue'[p][x] = queue[p][x + 1] /\ queue'[p][x] # i
          /\ \A y \in DOMAIN queue[p] : queue[p][y] # i =>
               y - 1 \in DOMAIN queue'[p] /\ queue'[p][y - 1] = queue[p][y]
      BY <2>2, <3>1, Shifted
    <3> QED
      BY <3>2
  <2> QED
    BY <1>1, <2>1, <2>2
<1>3. PickedOnce'
  BY DEF PickedOnce, Ended
<1>4. QueuedAsPicked'
  <2> SUFFICES ASSUME NEW p \in UploadPages
               PROVE  /\ \A x \in DOMAIN queue'[p] :
                           /\ InSeq(queue'[p][x], picked[p])
                           /\ state'[queue'[p][x]] \in Waiting
                           /\ x # 1 => state'[queue'[p][x]] = "queued"
                      /\ \A x, y \in DOMAIN queue'[p] : queue'[p][x] = queue'[p][y] => x = y
                      /\ \A m \in DOMAIN picked[p] : state'[picked[p][m]] \in Waiting =>
                           InSeq(picked[p][m], queue'[p])
    BY DEF QueuedAsPicked, InSeq
  <2>1. PICK d \in {0, 1} :
          /\ \A x \in DOMAIN queue'[p] :
               /\ x \in Nat \ {0} /\ x + d \in DOMAIN queue[p]
               /\ queue'[p][x] = queue[p][x + d] /\ queue'[p][x] # i
          /\ \A y \in DOMAIN queue[p] : queue[p][y] # i =>
               y - d \in DOMAIN queue'[p] /\ queue'[p][y - d] = queue[p][y]
    BY <1>2
  <2>2. \A x \in DOMAIN queue'[p] : state'[queue'[p][x]] = state[queue[p][x + d]]
    BY <2>1, ElementOfSeq, LenProperties
  <2>3. \A x \in DOMAIN queue'[p] : x # 1 => x + d # 1
    BY <2>1
  <2>4. \A x \in DOMAIN queue'[p] :
          /\ InSeq(queue'[p][x], picked[p]) /\ state'[queue'[p][x]] \in Waiting
          /\ x # 1 => state'[queue'[p][x]] = "queued"
    BY <2>1, <2>2, <2>3 DEF QueuedAsPicked
  <2>5. \A x, y \in DOMAIN queue'[p] : queue'[p][x] = queue'[p][y] => x = y
    BY <2>1 DEF QueuedAsPicked
  <2>6. ASSUME NEW m \in DOMAIN picked[p], state'[picked[p][m]] \in Waiting
        PROVE  InSeq(picked[p][m], queue'[p])
    <3>1. picked[p][m] \in Items /\ picked[p][m] # i /\ state[picked[p][m]] \in Waiting
      BY <2>6, ElementOfSeq, LenProperties DEF Waiting, Ended
    <3>2. PICK y \in DOMAIN queue[p] : queue[p][y] = picked[p][m]
      BY <3>1 DEF QueuedAsPicked, InSeq
    <3> QED
      BY <2>1, <3>1, <3>2 DEF InSeq
  <2> QED
    BY <2>4, <2>5, <2>6
<1>5. QueueInOrder'
  <2> SUFFICES ASSUME NEW p \in UploadPages,
                      NEW x \in DOMAIN queue'[p], NEW y \in DOMAIN queue'[p],
                      NEW m \in DOMAIN picked[p], NEW n \in DOMAIN picked[p],
                      picked[p][m] = queue'[p][x], picked[p][n] = queue'[p][y],
                      {queue'[p][x], queue'[p][y]} \cap retried = {}, x < y
               PROVE  m < n
    BY DEF QueueInOrder
  <2>1. PICK d \in {0, 1} :
          \A z \in DOMAIN queue'[p] :
            z \in Nat /\ z + d \in DOMAIN queue[p] /\ queue'[p][z] = queue[p][z + d]
    BY <1>2
  <2>2. x + d < y + d
    BY <2>1
  <2> QED
    BY <2>1, <2>2 DEF QueueInOrder
<1>6. StartInOrder'
  BY ElementOfSeq, LenProperties DEF StartInOrder, Waiting, Started, Ended
<1> QED
  BY <1>2, <1>3, <1>4, <1>5, <1>6 DEF Leave

\* One page's sequence grows at its end, which is e.
GrownAt(e, f, g, p, i) ==
  /\ e \in DOMAIN g[p] /\ g[p][e] = i /\ \A x \in DOMAIN f[p] : x < e
  /\ \A r \in UploadPages : \A x \in DOMAIN g[r] : x \in DOMAIN f[r] \/ (r = p /\ x = e)

LEMMA OneGrows ==
  ASSUME NEW f \in [UploadPages -> Seq(Items)], NEW g,
         NEW p \in UploadPages, NEW i \in Items,
         g = [f EXCEPT ![p] = Append(f[p], i)]
  PROVE  /\ g \in [UploadPages -> Seq(Items)]
         /\ \A r \in UploadPages : \A x \in DOMAIN f[r] :
              f[r][x] \in Items /\ x \in Nat /\ x \in DOMAIN g[r] /\ g[r][x] = f[r][x]
         /\ \E e \in Nat : GrownAt(e, f, g, p, i)
<1> DEFINE q == f[p]
<1>1. /\ q \in Seq(Items) /\ Append(q, i) \in Seq(Items)
      /\ Len(q) \in Nat /\ DOMAIN q = 1 .. Len(q)
      /\ DOMAIN Append(q, i) = 1 .. Len(q) + 1
      /\ \A n \in DOMAIN q : Append(q, i)[n] = q[n]
      /\ Append(q, i)[Len(q) + 1] = i
  BY Appended
<1>2. g[p] = Append(q, i) /\ \A r \in UploadPages \ {p} : g[r] = f[r]
  OBVIOUS
<1>3. g \in [UploadPages -> Seq(Items)]
  BY <1>1
<1>4. ASSUME NEW r \in UploadPages, NEW x \in DOMAIN f[r]
      PROVE  f[r][x] \in Items /\ x \in Nat /\ x \in DOMAIN g[r] /\ g[r][x] = f[r][x]
  <2>1. f[r][x] \in Items /\ x \in Nat
    BY ElementOfSeq, LenProperties
  <2>2. CASE r = p
    BY <1>1, <1>2, <2>1, <2>2
  <2>3. CASE r # p
    BY <1>2, <2>1, <2>3
  <2> QED
    BY <2>2, <2>3
<1> DEFINE e == Len(q) + 1
<1>5. e \in Nat /\ e \in DOMAIN g[p] /\ g[p][e] = i /\ \A x \in DOMAIN q : x < e
  BY <1>1, <1>2
<1>6. ASSUME NEW r \in UploadPages, NEW x \in DOMAIN g[r]
      PROVE  x \in DOMAIN f[r] \/ (r = p /\ x = e)
  <2>1. CASE r = p
    BY <1>1, <1>2, <2>1
  <2>2. CASE r # p
    BY <1>2, <2>2
  <2> QED
    BY <2>1, <2>2
<1>7. GrownAt(e, f, g, p, i)
  BY <1>5, <1>6 DEF GrownAt
<1> QED
  BY <1>3, <1>4, <1>5, <1>7

LEMMA ItemPicked ==
  ASSUME FilesHold, NEW p \in UploadPages, NEW i \in Items, Pick(p, i)
  PROVE  FilesTyped' /\ PagesHold' /\ RowsFollowPage'
<1>1. /\ state[i] = "none" /\ state' = [state EXCEPT ![i] = "queued"]
      /\ queue' = [queue EXCEPT ![p] = Append(queue[p], i)]
      /\ picked' = [picked EXCEPT ![p] = Append(picked[p], i)]
      /\ retried' = retried /\ attach' = attach /\ version' = version /\ rows' = rows
  BY DEF Pick, Show, fileVars, FilesHold, FilesTyped
<1>2. /\ queue' \in [UploadPages -> Seq(Items)]
      /\ \A r \in UploadPages : \A x \in DOMAIN queue[r] :
           /\ queue[r][x] \in Items /\ x \in Nat
           /\ x \in DOMAIN queue'[r] /\ queue'[r][x] = queue[r][x]
  BY <1>1, OneGrows DEF FilesHold, FilesTyped
<1>3. PICK e \in Nat : GrownAt(e, queue, queue', p, i)
  BY <1>1, OneGrows DEF FilesHold, FilesTyped
<1>4. /\ picked' \in [UploadPages -> Seq(Items)]
      /\ \A r \in UploadPages : \A x \in DOMAIN picked[r] :
           /\ picked[r][x] \in Items /\ x \in Nat
           /\ x \in DOMAIN picked'[r] /\ picked'[r][x] = picked[r][x]
  BY <1>1, OneGrows DEF FilesHold, FilesTyped
<1>5. PICK h \in Nat : GrownAt(h, picked, picked', p, i)
  BY <1>1, OneGrows DEF FilesHold, FilesTyped
<1>6. \A r \in UploadPages : /\ \A m \in DOMAIN picked[r] : picked[r][m] # i
                             /\ \A x \in DOMAIN queue[r] : queue[r][x] # i
  BY <1>1 DEF FilesHold, PagesHold, PickedOnce, QueuedAsPicked, Waiting
<1>7. /\ state'[i] = "queued"
      /\ \A r \in UploadPages :
           /\ \A m \in DOMAIN picked[r] : state'[picked[r][m]] = state[picked[r][m]]
           /\ \A x \in DOMAIN queue[r] : state'[queue[r][x]] = state[queue[r][x]]
  BY <1>1, <1>2, <1>4, <1>6 DEF FilesHold, FilesTyped
<1>8. FilesTyped'
  BY <1>1, <1>2, <1>4 DEF FilesHold, FilesTyped, Shown
<1>9. PickedOnce'
  <2>1. ASSUME NEW r \in UploadPages, NEW m \in DOMAIN picked'[r],
               NEW n \in DOMAIN picked'[r], picked'[r][m] = picked'[r][n]
        PROVE  m = n
    <3>1. CASE m \in DOMAIN picked[r] /\ n \in DOMAIN picked[r]
      BY <1>4, <2>1, <3>1 DEF FilesHold, PagesHold, PickedOnce
    <3>2. CASE m \notin DOMAIN picked[r] \/ n \notin DOMAIN picked[r]
      BY <1>4, <1>5, <1>6, <2>1, <3>2 DEF GrownAt
    <3> QED
      BY <3>1, <3>2
  <2>2. ASSUME NEW r \in UploadPages, NEW u \in UploadPages,
               NEW m \in DOMAIN picked'[r], NEW n \in DOMAIN picked'[u],
               picked'[r][m] = picked'[u][n]
        PROVE  r = u
    <3>1. CASE m \in DOMAIN picked[r] /\ n \in DOMAIN picked[u]
      BY <1>4, <2>2, <3>1 DEF FilesHold, PagesHold, PickedOnce
    <3>2. CASE m \notin DOMAIN picked[r] \/ n \notin DOMAIN picked[u]
      BY <1>4, <1>5, <1>6, <2>2, <3>2 DEF GrownAt
    <3> QED
      BY <3>1, <3>2
  <2>3. ASSUME NEW r \in UploadPages, NEW m \in DOMAIN picked'[r]
        PROVE  state'[picked'[r][m]] # "none"
    <3>1. CASE m \in DOMAIN picked[r]
      <4>1. state'[picked'[r][m]] = state[picked[r][m]]
        BY <1>4, <1>7, <3>1
      <4> QED
        BY <3>1, <4>1 DEF FilesHold, PagesHold, PickedOnce
    <3>2. CASE m \notin DOMAIN picked[r]
      BY <1>5, <1>7, <3>2 DEF GrownAt
    <3> QED
      BY <3>1, <3>2
  <2> QED
    BY <2>1, <2>2, <2>3 DEF PickedOnce
<1>10. QueuedAsPicked'
  <2>1. \A r \in UploadPages : \A j : InSeq(j, picked[r]) => InSeq(j, picked'[r])
    BY <1>4 DEF InSeq
  <2>2. \A r \in UploadPages : \A j : InSeq(j, queue[r]) => InSeq(j, queue'[r])
    BY <1>2 DEF InSeq
  <2>3. InSeq(i, picked'[p]) /\ InSeq(i, queue'[p])
    BY <1>3, <1>5 DEF InSeq, GrownAt
  <2>4. ASSUME NEW r \in UploadPages, NEW x \in DOMAIN queue'[r]
        PROVE  /\ InSeq(queue'[r][x], picked'[r]) /\ state'[queue'[r][x]] \in Waiting
               /\ x # 1 => state'[queue'[r][x]] = "queued"
    <3>1. CASE x \in DOMAIN queue[r]
      <4>1. queue'[r][x] = queue[r][x] /\ state'[queue'[r][x]] = state[queue[r][x]]
        BY <1>2, <1>7, <3>1
      <4> QED
        BY <2>1, <3>1, <4>1 DEF FilesHold, PagesHold, QueuedAsPicked
    <3>2. CASE x \notin DOMAIN queue[r]
      BY <1>3, <1>7, <2>3, <3>2 DEF Waiting, GrownAt
    <3> QED
      BY <3>1, <3>2
  <2>5. ASSUME NEW r \in UploadPages, NEW x \in DOMAIN queue'[r],
               NEW y \in DOMAIN queue'[r], queue'[r][x] = queue'[r][y]
        PROVE  x = y
    <3>1. CASE x \in DOMAIN queue[r] /\ y \in DOMAIN queue[r]
      BY <1>2, <2>5, <3>1 DEF FilesHold, PagesHold, QueuedAsPicked
    <3>2. CASE x \notin DOMAIN queue[r] \/ y \notin DOMAIN queue[r]
      BY <1>2, <1>3, <1>6, <2>5, <3>2 DEF GrownAt
    <3> QED
      BY <3>1, <3>2
  <2>6. ASSUME NEW r \in UploadPages, NEW m \in DOMAIN picked'[r],
               state'[picked'[r][m]] \in Waiting
        PROVE  InSeq(picked'[r][m], queue'[r])
    <3>1. CASE m \in DOMAIN picked[r]
      <4>1. picked'[r][m] = picked[r][m] /\ state'[picked'[r][m]] = state[picked[r][m]]
        BY <1>4, <1>7, <3>1
      <4> QED
        BY <2>2, <2>6, <3>1, <4>1 DEF FilesHold, PagesHold, QueuedAsPicked
    <3>2. CASE m \notin DOMAIN picked[r]
      BY <1>5, <2>3, <3>2 DEF GrownAt
    <3> QED
      BY <3>1, <3>2
  <2> QED
    BY <2>4, <2>5, <2>6 DEF QueuedAsPicked, InSeq
<1>11. QueueInOrder'
  <2> SUFFICES ASSUME NEW r \in UploadPages,
                      NEW x \in DOMAIN queue'[r], NEW y \in DOMAIN queue'[r],
                      NEW m \in DOMAIN picked'[r], NEW n \in DOMAIN picked'[r],
                      picked'[r][m] = queue'[r][x], picked'[r][n] = queue'[r][y],
                      {queue'[r][x], queue'[r][y]} \cap retried' = {}, x < y
               PROVE  m < n
    BY DEF QueueInOrder
  <2>1. x \in DOMAIN queue[r] /\ queue'[r][x] = queue[r][x]
    BY <1>2, <1>3 DEF GrownAt
  <2>2. m \in DOMAIN picked[r] /\ picked'[r][m] = picked[r][m]
    BY <1>4, <1>5, <1>6, <2>1 DEF GrownAt
  <2>3. CASE n \notin DOMAIN picked[r]
    BY <1>5, <2>2, <2>3 DEF GrownAt
  <2>4. CASE n \in DOMAIN picked[r]
    <3>1. y \in DOMAIN queue[r] /\ queue'[r][y] = queue[r][y]
      BY <1>2, <1>3, <1>4, <1>6, <2>4 DEF GrownAt
    <3> QED
      BY <1>1, <1>4, <2>1, <2>2, <2>4, <3>1 DEF FilesHold, PagesHold, QueueInOrder
  <2> QED
    BY <2>3, <2>4
<1>12. ASSUME NEW r \in UploadPages, NEW m \in DOMAIN picked'[r],
              NEW n \in DOMAIN picked'[r], m < n
       PROVE  m \in DOMAIN picked[r] /\ picked'[r][m] = picked[r][m]
  BY <1>4, <1>5, <1>12 DEF GrownAt
<1>13. StartInOrder'
  <2> SUFFICES ASSUME NEW r \in UploadPages,
                      NEW m \in DOMAIN picked'[r], NEW n \in DOMAIN picked'[r], m < n,
                      {picked'[r][m], picked'[r][n]} \cap retried' = {},
                      state'[picked'[r][n]] \in Started
               PROVE  state'[picked'[r][m]] \in Ended
    BY DEF StartInOrder
  <2>1. m \in DOMAIN picked[r] /\ picked'[r][m] = picked[r][m]
    BY <1>12
  <2>2. n \in DOMAIN picked[r] /\ picked'[r][n] = picked[r][n]
    BY <1>4, <1>5, <1>7 DEF Started, GrownAt
  <2> QED
    BY <1>1, <1>7, <2>1, <2>2 DEF FilesHold, PagesHold, StartInOrder
<1>14. i \in retried \/ \A y \in DOMAIN rows : rows[y] # i
  BY <1>1 DEF FilesHold, AttachHolds, InSeq
<1>15. RowsFollowPage'
  <2> SUFFICES ASSUME NEW r \in UploadPages,
                      NEW m \in DOMAIN picked'[r], NEW n \in DOMAIN picked'[r], m < n,
                      {picked'[r][m], picked'[r][n]} \cap retried' = {},
                      state'[picked'[r][m]] = "done",
                      NEW x \in DOMAIN rows', NEW y \in DOMAIN rows',
                      rows'[x] = picked'[r][m], rows'[y] = picked'[r][n]
               PROVE  x < y
    BY DEF RowsFollowPage
  <2>1. n \in DOMAIN picked[r] /\ picked'[r][n] = picked[r][n]
    BY <1>1, <1>4, <1>5, <1>14 DEF GrownAt
  <2>2. m \in DOMAIN picked[r] /\ picked'[r][m] = picked[r][m]
    BY <1>12
  <2> QED
    BY <1>1, <1>7, <2>1, <2>2 DEF FilesHold, RowsFollowPage
<1> QED
  BY <1>8, <1>9, <1>10, <1>11, <1>13, <1>15 DEF PagesHold

LEMMA ItemRetried ==
  ASSUME FilesHold, NEW p \in UploadPages, NEW i \in Items, Retry(p, i)
  PROVE  FilesTyped' /\ PagesHold' /\ RowsFollowPage'
<1>1. /\ state[i] = "error" /\ state' = [state EXCEPT ![i] = "queued"]
      /\ InSeq(i, picked[p]) /\ i \notin retried /\ retried' = retried \cup {i}
      /\ queue' = [queue EXCEPT ![p] = Append(queue[p], i)]
      /\ attach' = [attach EXCEPT ![i] = "idle"]
      /\ picked' = picked /\ version' = version /\ rows' = rows
  BY DEF Retry, Show, AttachAt, FilesHold, FilesTyped
<1>2. /\ queue' \in [UploadPages -> Seq(Items)]
      /\ \A r \in UploadPages : \A x \in DOMAIN queue[r] :
           /\ queue[r][x] \in Items /\ x \in Nat
           /\ x \in DOMAIN queue'[r] /\ queue'[r][x] = queue[r][x]
  BY <1>1, OneGrows DEF FilesHold, FilesTyped
<1>3. PICK e \in Nat : GrownAt(e, queue, queue', p, i)
  BY <1>1, OneGrows DEF FilesHold, FilesTyped
<1>4. \A r \in UploadPages : \A x \in DOMAIN queue[r] : queue[r][x] # i
  BY <1>1 DEF FilesHold, PagesHold, QueuedAsPicked, Waiting
<1>5. \A r \in UploadPages : \A m \in DOMAIN picked[r] : picked[r][m] \in Items
  BY ElementOfSeq, LenProperties DEF FilesHold, FilesTyped
<1>6. state'[i] = "queued" /\ \A j \in Items \ {i} : state'[j] = state[j]
  BY <1>1 DEF FilesHold, FilesTyped
<1>7. FilesTyped'
  BY <1>1, <1>2 DEF FilesHold, FilesTyped, Shown, AttachStates
<1>8. PickedOnce'
  BY <1>1, <1>5, <1>6 DEF FilesHold, PagesHold, PickedOnce
<1>9. QueuedAsPicked'
  <2>1. \A r \in UploadPages : \A j : InSeq(j, queue[r]) => InSeq(j, queue'[r])
    BY <1>2 DEF InSeq
  <2>2. InSeq(i, queue'[p])
    BY <1>3 DEF InSeq, GrownAt
  <2>3. ASSUME NEW r \in UploadPages, NEW x \in DOMAIN queue'[r]
        PROVE  /\ InSeq(queue'[r][x], picked'[r]) /\ state'[queue'[r][x]] \in Waiting
               /\ x # 1 => state'[queue'[r][x]] = "queued"
    <3>1. CASE x \in DOMAIN queue[r]
      BY <1>1, <1>2, <1>4, <1>6, <3>1 DEF FilesHold, PagesHold, QueuedAsPicked
    <3>2. CASE x \notin DOMAIN queue[r]
      BY <1>1, <1>3, <1>6, <3>2 DEF Waiting, GrownAt
    <3> QED
      BY <3>1, <3>2
  <2>4. ASSUME NEW r \in UploadPages, NEW x \in DOMAIN queue'[r],
               NEW y \in DOMAIN queue'[r], queue'[r][x] = queue'[r][y]
        PROVE  x = y
    <3>1. CASE x \in DOMAIN queue[r] /\ y \in DOMAIN queue[r]
      BY <1>2, <2>4, <3>1 DEF FilesHold, PagesHold, QueuedAsPicked
    <3>2. CASE x \notin DOMAIN queue[r] \/ y \notin DOMAIN queue[r]
      BY <1>2, <1>3, <1>4, <2>4, <3>2 DEF GrownAt
    <3> QED
      BY <3>1, <3>2
  <2>5. ASSUME NEW r \in UploadPages, NEW m \in DOMAIN picked'[r],
               state'[picked'[r][m]] \in Waiting
        PROVE  InSeq(picked'[r][m], queue'[r])
    <3>1. CASE picked[r][m] = i
      <4>1. PICK n \in DOMAIN picked[p] : picked[p][n] = i
        BY <1>1 DEF InSeq
      <4>2. r = p
        BY <1>1, <3>1, <4>1 DEF FilesHold, PagesHold, PickedOnce
      <4> QED
        BY <1>1, <2>2, <3>1, <4>2
    <3>2. CASE picked[r][m] # i
      <4>1. m \in DOMAIN picked[r] /\ state[picked[r][m]] \in Waiting
        BY <1>1, <1>5, <1>6, <2>5, <3>2
      <4>2. InSeq(picked[r][m], queue[r])
        BY <4>1 DEF FilesHold, PagesHold, QueuedAsPicked
      <4> QED
        BY <1>1, <2>1, <4>2
    <3> QED
      BY <3>1, <3>2
  <2> QED
    BY <2>3, <2>4, <2>5 DEF QueuedAsPicked, InSeq
<1>10. QueueInOrder'
  <2> SUFFICES ASSUME NEW r \in UploadPages,
                      NEW x \in DOMAIN queue'[r], NEW y \in DOMAIN queue'[r],
                      NEW m \in DOMAIN picked'[r], NEW n \in DOMAIN picked'[r],
                      picked'[r][m] = queue'[r][x], picked'[r][n] = queue'[r][y],
                      {queue'[r][x], queue'[r][y]} \cap retried' = {}, x < y
               PROVE  m < n
    BY DEF QueueInOrder
  <2>1. queue'[r][x] # i /\ queue'[r][y] # i
    BY <1>1
  <2>2. /\ x \in DOMAIN queue[r] /\ queue'[r][x] = queue[r][x]
        /\ y \in DOMAIN queue[r] /\ queue'[r][y] = queue[r][y]
    BY <1>2, <1>3, <2>1 DEF GrownAt
  <2> QED
    BY <1>1, <2>2 DEF FilesHold, PagesHold, QueueInOrder
<1>11. StartInOrder'
  <2> SUFFICES ASSUME NEW r \in UploadPages,
                      NEW m \in DOMAIN picked'[r], NEW n \in DOMAIN picked'[r], m < n,
                      {picked'[r][m], picked'[r][n]} \cap retried' = {},
                      state'[picked'[r][n]] \in Started
               PROVE  state'[picked'[r][m]] \in Ended
    BY DEF StartInOrder
  <2> QED
    BY <1>1, <1>5, <1>6 DEF FilesHold, PagesHold, StartInOrder
<1>12. RowsFollowPage'
  <2> SUFFICES ASSUME NEW r \in UploadPages,
                      NEW m \in DOMAIN picked'[r], NEW n \in DOMAIN picked'[r], m < n,
                      {picked'[r][m], picked'[r][n]} \cap retried' = {},
                      state'[picked'[r][m]] = "done",
                      NEW x \in DOMAIN rows', NEW y \in DOMAIN rows',
                      rows'[x] = picked'[r][m], rows'[y] = picked'[r][n]
               PROVE  x < y
    BY DEF RowsFollowPage
  <2> QED
    BY <1>1, <1>5, <1>6 DEF FilesHold, RowsFollowPage
<1> QED
  BY <1>7, <1>8, <1>9, <1>10, <1>11, <1>12 DEF PagesHold

\* Rows stay as they are while items that show as done do.
LEMMA RowsStay ==
  ASSUME FilesHold, NEW i \in Items, NEW t \in Shown \ {"done"},
         state' = [state EXCEPT ![i] = t], UNCHANGED <<picked, retried, rows>>
  PROVE  RowsFollowPage'
<1>1. \A r \in UploadPages : \A m \in DOMAIN picked[r] : picked[r][m] \in Items
  BY ElementOfSeq, LenProperties DEF FilesHold, FilesTyped
<1>2. \A j \in Items : state'[j] = "done" => state[j] = "done"
  BY DEF FilesHold, FilesTyped
<1> QED
  BY <1>1, <1>2 DEF FilesHold, RowsFollowPage

LEMMA PageStep ==
  ASSUME FilesHold, NEW i \in Items,
         \/ \E p \in UploadPages : Pick(p, i) \/ Retry(p, i) \/ Start(p, i)
         \/ Presigned(i) \/ Put(i) \/ Done(i) \/ Fail(i)
  PROVE  FilesHold'
<1> USE DEF FilesHold, FilesTyped
<1>1. ASSUME NEW p \in UploadPages, Pick(p, i) PROVE FilesHold'
  <2>1. AttachHolds'
    BY <1>1 DEF Pick, Show, fileVars, AttachHolds, InSeq
  <2> QED
    BY <1>1, <2>1, ItemPicked
<1>2. ASSUME NEW p \in UploadPages, Retry(p, i) PROVE FilesHold'
  <2>1. AttachHolds'
    BY <1>2 DEF Retry, Show, AttachAt, AttachHolds, InSeq
  <2> QED
    BY <1>2, <2>1, ItemRetried
<1>3. ASSUME NEW p \in UploadPages, Start(p, i) PROVE FilesHold'
  <2>1. /\ state[i] = "queued" /\ state' = [state EXCEPT ![i] = "presign"]
        /\ UNCHANGED <<queue, picked, retried, fileVars, objects>>
    BY <1>3 DEF Start, May, Show
  <2>2. AttachHolds'
    BY <2>1 DEF fileVars, AttachHolds, InSeq
  <2>3. RowsFollowPage'
    BY <2>1, RowsStay DEF fileVars, Shown
  <2> QED
    BY <1>3, <2>1, <2>2, <2>3, ItemStarts DEF fileVars, Shown
<1>4. CASE Presigned(i)
  <2>1. /\ state[i] = "presign" /\ state' = [state EXCEPT ![i] = "put"]
        /\ UNCHANGED <<queue, picked, retried, fileVars, objects>>
    BY <1>4 DEF Presigned, Show
  <2>2. AttachHolds'
    BY <2>1 DEF fileVars, AttachHolds, InSeq
  <2>3. RowsFollowPage'
    BY <2>1, RowsStay DEF fileVars, Shown
  <2>4. PagesHold'
    BY <2>1, ItemGoesOn DEF Waiting
  <2> QED
    BY <2>1, <2>2, <2>3, <2>4 DEF fileVars, Shown
<1>5. CASE Put(i)
  <2>1. /\ state[i] = "put" /\ state' = [state EXCEPT ![i] = "attach"]
        /\ attach' = [attach EXCEPT ![i] = "lookup"] /\ objects' = objects \cup {i}
        /\ UNCHANGED <<queue, picked, retried, version, announced, rows>>
    BY <1>5 DEF Put, Show, AttachAt
  <2>2. AttachHolds'
    BY <2>1 DEF AttachHolds, InSeq
  <2>3. RowsFollowPage'
    BY <2>1, RowsStay DEF Shown
  <2>4. PagesHold'
    BY <2>1, ItemGoesOn DEF Waiting
  <2> QED
    BY <2>1, <2>2, <2>3, <2>4 DEF Shown, AttachStates
<1>6. CASE Done(i)
  <2>1. /\ state[i] = "attach" /\ attach[i] = "saved" /\ Leave(i)
        /\ state' = [state EXCEPT ![i] = "done"]
        /\ UNCHANGED <<picked, retried, fileVars, objects>>
    BY <1>6 DEF Done, Show
  <2>2. AttachHolds'
    BY <2>1 DEF fileVars, AttachHolds, InSeq
  <2>3. RowsFollowPage'
    <3> SUFFICES ASSUME NEW r \in UploadPages,
                        NEW m \in DOMAIN picked'[r], NEW n \in DOMAIN picked'[r], m < n,
                        {picked'[r][m], picked'[r][n]} \cap retried' = {},
                        state'[picked'[r][m]] = "done",
                        NEW x \in DOMAIN rows', NEW y \in DOMAIN rows',
                        rows'[x] = picked'[r][m], rows'[y] = picked'[r][n]
                 PROVE  x < y
      BY DEF RowsFollowPage
    <3>1. picked[r][m] \in Items /\ picked[r][n] \in Items
      BY <2>1, ElementOfSeq, LenProperties
    <3>2. picked[r][m] # i
      <4>1. attach[picked[r][n]] = "saved"
        BY <2>1, <3>1 DEF fileVars, AttachHolds, InSeq
      <4>2. state[picked[r][n]] \in Started
        BY <3>1, <4>1 DEF AttachHolds, Started
      <4> QED
        BY <2>1, <4>2 DEF PagesHold, StartInOrder, Ended
    <3> QED
      BY <2>1, <3>1, <3>2 DEF fileVars, RowsFollowPage
  <2>4. PagesHold' /\ queue' \in [UploadPages -> Seq(Items)]
    BY <2>1, ItemLeaves DEF Waiting, Ended
  <2> QED
    BY <2>1, <2>2, <2>3, <2>4 DEF fileVars, Shown
<1>7. CASE Fail(i)
  <2>1. /\ state[i] \in {"presign", "put", "attach"} /\ Leave(i)
        /\ state' = [state EXCEPT ![i] = "error"]
        /\ UNCHANGED <<picked, retried, fileVars, objects>>
    BY <1>7 DEF Fail, Show
  <2>2. AttachHolds'
    BY <2>1 DEF fileVars, AttachHolds, InSeq
  <2>3. RowsFollowPage'
    BY <2>1, RowsStay DEF fileVars, Shown
  <2>4. PagesHold' /\ queue' \in [UploadPages -> Seq(Items)]
    BY <2>1, ItemLeaves DEF Waiting, Ended
  <2> QED
    BY <2>1, <2>2, <2>3, <2>4 DEF fileVars, Shown
<1> QED
  BY <1>1, <1>2, <1>3, <1>4, <1>5, <1>6, <1>7

-----------------------------------------------------------------------------
(* attachProductFile, and the cover.                                       *)

LEMMA PagesStay == PagesHold /\ UNCHANGED pageVars => PagesHold'
  BY DEF PagesHold, pageVars, PickedOnce, QueuedAsPicked, QueueInOrder, StartInOrder, InSeq

LEMMA ServerStep ==
  ASSUME FilesHold, NEW i \in Items,
         \/ FindVersion(i) \/ UpdateVersion(i) \/ CreateVersion(i)
         \/ InsertFile(i) \/ ServerFails(i)
  PROVE  FilesHold'
<1> USE DEF FilesHold, FilesTyped
<1>1. UNCHANGED <<pageVars, objects>>
  BY DEF FindVersion, UpdateVersion, CreateVersion, InsertFile, ServerFails
<1>2. PagesHold'
  BY <1>1, PagesStay
<1>3. ASSUME NEW a \in AttachStates \ {"idle", "saved"}, attach' = [attach EXCEPT ![i] = a],
             attach[i] # "idle", attach[i] # "saved", rows' = rows,
             version' \in BOOLEAN, version => version',
             a \in {"update", "insert"} => version',
             announced' = IF version' THEN 1 ELSE 0
      PROVE  FilesHold'
  <2>1. \A j \in Items : attach'[j] = IF j = i THEN a ELSE attach[j]
    BY <1>3
  <2>2. AttachHolds'
    <3>1. announced' = (IF version' THEN 1 ELSE 0) /\ (rows' # <<>> => version')
      BY <1>3 DEF AttachHolds
    <3>2. ASSUME NEW j \in Items
          PROVE  /\ attach'[j] # "idle" =>
                      state'[j] \in {"attach", "done", "error"} /\ j \in objects'
                 /\ attach'[j] = "saved" => InSeq(j, rows')
                 /\ state'[j] = "done" => attach'[j] = "saved"
                 /\ InSeq(j, rows') /\ j \notin retried' => attach'[j] = "saved"
      <4>1. state' = state /\ objects' = objects /\ retried' = retried
        BY <1>1 DEF pageVars
      <4>2. InSeq(j, rows') <=> InSeq(j, rows)
        BY <1>3 DEF InSeq
      <4> QED
        BY <1>3, <2>1, <4>1, <4>2 DEF AttachHolds
    <3>3. \A j \in Items : attach'[j] \in {"update", "insert", "saved"} => version'
      BY <1>3, <2>1 DEF AttachHolds
    <3> QED
      BY <3>1, <3>2, <3>3 DEF AttachHolds, InSeq
  <2>3. RowsFollowPage'
    <3>1. UNCHANGED <<state, picked, retried, rows>>
      BY <1>1, <1>3 DEF pageVars
    <3> QED
      BY <3>1 DEF RowsFollowPage
  <2>4. FilesTyped'
    <3>1. queue' = queue /\ state' = state /\ picked' = picked /\ retried' = retried
      BY <1>1 DEF pageVars
    <3>2. attach' \in [Items -> AttachStates]
      BY <1>3
    <3> QED
      BY <1>3, <3>1, <3>2
  <2> QED
    BY <1>2, <2>2, <2>3, <2>4
<1>5. CASE FindVersion(i)
  <2> DEFINE a == IF version THEN "update" ELSE "create"
  <2>1. a \in AttachStates \ {"idle", "saved"} /\ attach' = [attach EXCEPT ![i] = a]
    BY <1>5 DEF FindVersion, AttachAt, AttachStates
  <2> HIDE DEF a
  <2>2. a \in {"update", "insert"} => version
    BY DEF a
  <2> QED
    BY <1>3, <1>5, <2>1, <2>2 DEF FindVersion, AttachHolds
<1>6. CASE UpdateVersion(i)
  BY <1>3, <1>6 DEF UpdateVersion, AttachAt, AttachStates, AttachHolds
<1>7. CASE CreateVersion(i)
  <2>1. CASE ~version
    <3>1. /\ version' = TRUE /\ announced' = announced + 1 /\ rows' = rows
          /\ attach[i] = "create" /\ attach' = [attach EXCEPT ![i] = "insert"]
      BY <1>7, <2>1 DEF CreateVersion, AttachAt
    <3>2. announced' = 1
      BY <2>1, <3>1 DEF AttachHolds
    <3> QED
      BY <1>3, <3>1, <3>2 DEF AttachStates
  <2>2. CASE version
    BY <1>3, <1>7, <2>2 DEF CreateVersion, AttachAt, AttachStates, AttachHolds
  <2> QED
    BY <2>1, <2>2
<1>8. CASE ServerFails(i)
  BY <1>3, <1>8 DEF ServerFails, AttachAt, AttachStates, AttachHolds
<1>4. CASE InsertFile(i)
  <2>1. /\ attach[i] = "insert" /\ attach' = [attach EXCEPT ![i] = "saved"]
        /\ rows' = Append(rows, i) /\ version' = version /\ announced' = announced
    BY <1>4 DEF InsertFile, AttachAt
  <2>2. /\ rows' \in Seq(Items) /\ rows' # <<>>
        /\ Len(rows) \in Nat /\ DOMAIN rows = 1 .. Len(rows)
        /\ DOMAIN rows' = 1 .. Len(rows) + 1
        /\ \A n \in DOMAIN rows : rows'[n] = rows[n]
        /\ rows'[Len(rows) + 1] = i
    BY <2>1, Appended
  <2>3. /\ \A j : InSeq(j, rows') <=> j = i \/ InSeq(j, rows)
        /\ rows' # <<>>
    <3>1. Len(rows) + 1 \in DOMAIN rows' /\ InSeq(i, rows')
      BY <2>2 DEF InSeq
    <3>2. \A j : InSeq(j, rows) => InSeq(j, rows')
      BY <2>2 DEF InSeq
    <3>3. \A n \in DOMAIN rows' : n = Len(rows) + 1 \/ n \in DOMAIN rows
      BY <2>2
    <3>4. \A j : InSeq(j, rows') => j = i \/ InSeq(j, rows)
      BY <2>2, <3>3 DEF InSeq
    <3> QED
      BY <2>2, <3>1, <3>2, <3>4
  <2>4. AttachHolds'
    <3>1. \A j \in Items : attach'[j] = IF j = i THEN "saved" ELSE attach[j]
      BY <2>1
    <3> QED
      BY <1>1, <2>1, <2>3, <3>1 DEF AttachHolds, pageVars
  <2>5. RowsFollowPage'
    <3> SUFFICES ASSUME NEW r \in UploadPages,
                        NEW m \in DOMAIN picked[r], NEW n \in DOMAIN picked[r], m < n,
                        {picked[r][m], picked[r][n]} \cap retried = {},
                        state[picked[r][m]] = "done",
                        NEW x \in DOMAIN rows', NEW y \in DOMAIN rows',
                        rows'[x] = picked[r][m], rows'[y] = picked[r][n]
                 PROVE  x < y
      BY <1>1 DEF pageVars, RowsFollowPage
    <3>1. picked[r][m] \in Items /\ m \in Nat /\ n \in Nat
      BY ElementOfSeq, LenProperties
    <3>2. picked[r][m] # i
      BY <2>1, <3>1 DEF AttachHolds
    <3>3. picked[r][m] # picked[r][n]
      BY <3>1 DEF PagesHold, PickedOnce
    <3>4. x \in DOMAIN rows /\ rows[x] = picked[r][m]
      BY <2>2, <3>2
    <3>5. CASE y = Len(rows) + 1
      BY <2>2, <3>4, <3>5
    <3>6. CASE y # Len(rows) + 1
      <4>1. y \in DOMAIN rows /\ rows[y] = picked[r][n]
        BY <2>2, <3>6
      <4> QED
        BY <3>4, <4>1 DEF RowsFollowPage
    <3> QED
      BY <3>5, <3>6
  <2> QED
    BY <1>1, <1>2, <2>1, <2>2, <2>4, <2>5 DEF pageVars, AttachStates
<1> QED
  BY <1>4, <1>5, <1>6, <1>7, <1>8

\* Nothing that concerns covers touches the files.
LEMMA FilesStay ==
  ASSUME FilesHold, UNCHANGED <<pageVars, fileVars>>,
         \A i \in Items : i \in objects => i \in objects'
  PROVE  FilesHold'
<1>1. PagesHold'
  BY PagesStay DEF FilesHold
<1>2. FilesTyped' /\ RowsFollowPage'
  BY DEF FilesHold, FilesTyped, RowsFollowPage, pageVars, fileVars
<1>3. AttachHolds'
  BY DEF FilesHold, AttachHolds, InSeq, pageVars, fileVars
<1> QED
  BY <1>1, <1>2, <1>3 DEF FilesHold

LEMMA CoversStay ==
  ASSUME CoverTyped, CoversHold, UNCHANGED coverVars,
         objects' = objects \/ \E i \in Items : objects' = objects \cup {i}
  PROVE  CoverTyped' /\ CoversHold'
  BY DEF CoverTyped, CoversHold, Committed, coverVars

LEMMA CoverStep ==
  ASSUME CoverTyped, CoversHold, NEW c \in CoverCalls,
         ReadCovers(c) \/ BeginCover(c) \/ CommitCover(c) \/ FailCover(c) \/ CleanUp(c)
  PROVE  /\ CoverTyped' /\ CoversHold'
         /\ UNCHANGED <<pageVars, fileVars>>
         /\ \A i \in Items : i \in objects => i \in objects'
<1> USE DEF CoverTyped, Goes
<1>1. CASE ReadCovers(c)
  <2>1. /\ coverCall[c].at = "idle" /\ objects' = objects \cup {c} /\ covers' = covers
        /\ coverCall' = [coverCall EXCEPT ![c] = [at |-> "read", previous |-> covers]]
    BY <1>1 DEF ReadCovers
  <2>2. CoverTyped'
    BY <2>1
  <2>3. CoversHold'
    BY <2>1 DEF CoversHold, Committed
  <2> QED
    BY <1>1, <2>2, <2>3 DEF ReadCovers
<1>2. CASE BeginCover(c)
  <2>1. /\ coverCall[c].at = "read" /\ objects' = objects /\ covers' = covers
        /\ coverCall' = [coverCall EXCEPT ![c] =
             [at |-> "tx", previous |-> coverCall[c].previous, deleting |-> covers]]
    BY <1>2 DEF BeginCover
  <2>2. CoverTyped'
    BY <2>1
  <2>3. CoversHold'
    BY <2>1 DEF CoversHold, Committed
  <2> QED
    BY <1>2, <2>2, <2>3 DEF BeginCover
<1>3. CASE CommitCover(c)
  <2>1. /\ coverCall[c].at = "tx" /\ objects' = objects
        /\ covers' = (covers \ coverCall[c].deleting) \cup {c}
        /\ coverCall' = [coverCall EXCEPT ![c] =
             [at |-> "cleanup", previous |-> coverCall[c].previous]]
    BY <1>3 DEF CommitCover
  <2>2. CoverTyped'
    BY <2>1
  <2>3. c \notin coverCall[c].previous
    BY <2>1 DEF CoversHold, Committed
  <2>4. \A d \in CoverCalls : coverCall[d].at = "cleanup" => c \notin coverCall[d].previous
    BY <2>1 DEF CoversHold, Committed
  <2>5. CoversHold'
    BY <2>1, <2>3, <2>4 DEF CoversHold, Committed
  <2> QED
    BY <1>3, <2>2, <2>5 DEF CommitCover
<1>4. CASE FailCover(c)
  <2>1. /\ coverCall[c].at \in {"read", "tx"} /\ objects' = objects /\ covers' = covers
        /\ coverCall' = [coverCall EXCEPT ![c] = [at |-> "done"]]
    BY <1>4 DEF FailCover
  <2>2. CoverTyped'
    BY <2>1
  <2>3. CoversHold'
    BY <2>1 DEF CoversHold, Committed
  <2> QED
    BY <1>4, <2>2, <2>3 DEF FailCover
<1>5. CASE CleanUp(c)
  <2>1. PICK o \in coverCall[c].previous :
          /\ objects' = objects \ {o} \/ objects' = objects
          /\ coverCall' = [coverCall EXCEPT ![c] =
               [coverCall[c] EXCEPT !.previous = @ \ {o}]]
    BY <1>5 DEF CleanUp
  <2>2. coverCall[c].at = "cleanup" /\ covers' = covers
    BY <1>5 DEF CleanUp
  <2>3. coverCall[c] \in [at : {"read", "cleanup"}, previous : SUBSET CoverCalls]
    BY <2>2
  <2>4. [coverCall[c] EXCEPT !.previous = @ \ {o}]
          = [at |-> "cleanup", previous |-> coverCall[c].previous \ {o}]
    BY <2>2, <2>3
  <2>5. CoverTyped'
    BY <2>1, <2>2, <2>3, <2>4
  <2>6. o \in CoverCalls /\ o \notin covers /\ Committed(o)
    BY <2>2, <2>3 DEF CoversHold
  <2>7. CoversHold'
    BY <2>1, <2>2, <2>3, <2>4, <2>6 DEF CoversHold, Committed
  <2>8. \A i \in Items : i \in objects => i \in objects'
    BY <2>1, <2>6, AssetsAssumption
  <2> QED
    BY <1>5, <2>5, <2>7, <2>8 DEF CleanUp
<1> QED
  BY <1>1, <1>2, <1>3, <1>4, <1>5

LEMMA AssetsStep == AssetsHistory /\ [AssetsNext]_assetVars => AssetsHistory'
<1> SUFFICES ASSUME AssetsHistory, [AssetsNext]_assetVars PROVE AssetsHistory'
  OBVIOUS
<1> USE DEF AssetsHistory
<1>1. CASE UNCHANGED assetVars
  BY <1>1, FilesStay, CoversStay DEF assetVars
<1>2. ASSUME NEW i \in Items,
             \/ \E p \in UploadPages : Pick(p, i) \/ Retry(p, i) \/ Start(p, i)
             \/ Presigned(i) \/ Put(i) \/ Done(i) \/ Fail(i)
      PROVE  AssetsHistory'
  <2>1. UNCHANGED coverVars /\ (objects' = objects \/ objects' = objects \cup {i})
    BY <1>2 DEF Pick, Retry, Start, Presigned, Put, Done, Fail
  <2> QED
    BY <1>2, <2>1, PageStep, CoversStay
<1>3. ASSUME NEW i \in Items,
             \/ FindVersion(i) \/ UpdateVersion(i) \/ CreateVersion(i)
             \/ InsertFile(i) \/ ServerFails(i)
      PROVE  AssetsHistory'
  <2>1. UNCHANGED coverVars /\ objects' = objects
    BY <1>3 DEF FindVersion, UpdateVersion, CreateVersion, InsertFile, ServerFails
  <2> QED
    BY <1>3, <2>1, ServerStep, CoversStay
<1>4. ASSUME NEW c \in CoverCalls,
             ReadCovers(c) \/ BeginCover(c) \/ CommitCover(c) \/ FailCover(c) \/ CleanUp(c)
      PROVE  AssetsHistory'
  BY <1>4, CoverStep, FilesStay
<1> QED
  BY <1>1, <1>2, <1>3, <1>4 DEF AssetsNext

\* Pages, rows, calls and storage agree in every state.
THEOREM AssetsHistoryHolds == AssetsSpec => []AssetsHistory
  BY AssetsStart, AssetsStep, PTL DEF AssetsSpec

\* AssetsInv: with any number of pages, files and cover calls, whatever fails or
\* loses its answer (file-dropzone.tsx, attachProductFile, setCoverImage), a
\* version is announced once, what shows as done is downloadable and in the
\* order chosen, and no cover's object is deleted.
THEOREM AssetsAgree == AssetsSpec => []AssetsInv
<1>1. AssetsHistory => AssetsInv
  <2> SUFFICES ASSUME AssetsHistory PROVE AssetsInv
    OBVIOUS
  <2> USE DEF AssetsHistory, FilesHold
  <2>1. AnnouncedOnce /\ AssetsTypeOK
    BY DEF AttachHolds, AnnouncedOnce, AssetsTypeOK, FilesTyped, CoverTyped
  <2>2. DoneIsDownloadable
    BY DEF AttachHolds, DoneIsDownloadable
  <2>3. CoverHasObject
    BY DEF CoversHold, CoverHasObject
  <2>4. RowsInOrder
    <3> SUFFICES ASSUME NEW p \in UploadPages,
                        NEW m \in DOMAIN picked[p], NEW n \in DOMAIN picked[p], m < n,
                        {picked[p][m], picked[p][n]} \cap retried = {},
                        state[picked[p][m]] = "done", state[picked[p][n]] = "done"
                 PROVE  Row(picked[p][m]) < Row(picked[p][n])
      BY DEF RowsInOrder
    <3>1. picked[p][m] \in Items /\ picked[p][n] \in Items
      BY ElementOfSeq, LenProperties DEF FilesTyped
    <3>2. InSeq(picked[p][m], rows) /\ InSeq(picked[p][n], rows)
      BY <3>1 DEF AttachHolds
    <3>3. \A i : InSeq(i, rows) => Row(i) \in DOMAIN rows /\ rows[Row(i)] = i
      BY DEF InSeq, Row
    <3> QED
      BY <3>2, <3>3 DEF RowsFollowPage
  <2> QED
    BY <2>1, <2>2, <2>3, <2>4 DEF AssetsInv
<1> QED
  BY <1>1, AssetsHistoryHolds, PTL

-----------------------------------------------------------------------------
(* The calendar (CalendarSync).  A pass writes what it compared and listed  *)
(* several steps before, so the invariant says at each step what of that is *)
(* still true when no other pass was at the source: the rows to create are  *)
(* not there, rows that need no update are as listed, and so on.  It holds  *)
(* because two passes at one source both know that they are not alone.      *)

Phases == {"fetch", "read", "write", "alert", "scheduled", "cancel", "mark"}
Mine(s) == {e \in Events : SourceOf[e] = s}
ListedIn(r) == {e \in DOMAIN r.got : r.got[e] # Unlisted}

ClaimShape(r) ==
  /\ r = [at |-> "claim", forced |-> r.forced, due |-> r.due, claimed |-> r.claimed]
  /\ r.due \subseteq Sources /\ r.claimed \subseteq Sources
RetryShape(r) == r = [at |-> "retry", claimed |-> r.claimed] /\ r.claimed \subseteq Sources

RunOf(at, claimed, source, rest, got, creates, updates, gone, alone) ==
  [at |-> at, claimed |-> claimed, source |-> source, rest |-> rest, got |-> got,
   creates |-> creates, updates |-> updates, gone |-> gone, alone |-> alone]

RunShape(r) ==
  /\ r = RunOf(r.at, r.claimed, r.source, r.rest, r.got, r.creates, r.updates, r.gone,
               r.alone)
  /\ r.at \in Phases /\ r.claimed \subseteq Sources /\ r.rest \subseteq Sources
  /\ r.source \in Sources \ r.rest /\ r.alone \in BOOLEAN
  /\ r.creates \cup r.updates \cup r.gone \subseteq Mine(r.source)
  /\ r.at = "fetch" => r.creates \cup r.updates = {}
  /\ r.creates \cap r.updates = {}
  /\ r.at # "fetch" => /\ r.got \in [Mine(r.source) -> Figures \cup {Unlisted}]
                       /\ r.creates \cup r.updates \subseteq ListedIn(r)

PassShape(r) == r = NoPass \/ ClaimShape(r) \/ RetryShape(r) \/ RunShape(r)

PassesTyped == pass = [p \in Passes |-> pass[p]] /\ \A p \in Passes : PassShape(pass[p])

TableTyped ==
  /\ upstream \in [Events -> Figures \cup {Unlisted}] /\ changes \in 0 .. MaxChanges
  /\ eventRow \in [Events -> [status : RowStatus, actual : Figures]]
  /\ alerts \in [Events -> 0 .. MaxAlerts]
  /\ age \in [Sources -> {"never", "now", "recent", "due"}] /\ failed \subseteq Sources

AloneHolds ==
  \A p, q \in Passes :
    p # q /\ Running(p) /\ Running(q) /\ pass[p].source = pass[q].source => ~pass[p].alone

\* The row is what was fetched.
Copied(r, e, table) ==
  /\ table[e].status = StatusOf(r.got[e])
  /\ r.got[e] \in {0, table[e].actual}

\* What a pass that is alone may rely on.
CopyHolds(r, table) ==
  /\ r.at = "write" => \A e \in ListedIn(r) :
       /\ e \in r.creates => table[e].status = "none"
       /\ e \notin r.creates \cup r.updates => Copied(r, e, table)
  /\ r.at \in {"alert", "scheduled", "cancel", "mark"} =>
       \A e \in ListedIn(r) : Copied(r, e, table)
  /\ r.at = "cancel" => r.gone \cap ListedIn(r) = {}
  /\ r.at \in {"cancel", "mark"} /\ ListedIn(r) # {} =>
       \A e \in (DOMAIN r.got) \ ListedIn(r) :
         table[e].status # "SCHEDULED" \/ (r.at = "cancel" /\ e \in r.gone)

CopiesHold == \A p \in Passes : Running(p) /\ pass[p].alone => CopyHolds(pass[p], eventRow)

\* What it is about to announce has a row, and is new if the pass is alone.
AlertHolds(r, table, given) ==
  r.at = "alert" => \A e \in r.creates :
    table[e].status # "none" /\ (r.alone => given[e] = 0)

AlertsHold ==
  /\ \A e \in Events : alerts[e] > 0 => eventRow[e].status # "none"
  /\ \A p \in Passes : Running(p) => AlertHolds(pass[p], eventRow, alerts)

CalendarHistory == TableTyped /\ PassesTyped /\ AloneHolds /\ CopiesHold /\ AlertsHold

\* Running passes are those with a run's record.
LEMMA RunShapes ==
  ASSUME NEW r
  PROVE  /\ RunShape(r) => "source" \in DOMAIN r /\ r.at \in Phases
         /\ r = NoPass \/ ClaimShape(r) \/ RetryShape(r) =>
              "source" \notin DOMAIN r /\ r.at \notin Phases
<1>1. RunShape(r) => "source" \in DOMAIN r /\ r.at \in Phases
  BY DEF RunShape, RunOf
<1>2. r = NoPass => "source" \notin DOMAIN r /\ r.at \notin Phases
  BY DEF NoPass, Phases
<1>3. ClaimShape(r) => "source" \notin DOMAIN r /\ r.at \notin Phases
  BY DEF ClaimShape, Phases
<1>4. RetryShape(r) => "source" \notin DOMAIN r /\ r.at \notin Phases
  BY DEF RetryShape, Phases
<1> QED
  BY <1>1, <1>2, <1>3, <1>4

LEMMA RunningShape ==
  ASSUME PassesTyped, NEW p \in Passes
  PROVE  /\ Running(p) <=> RunShape(pass[p])
         /\ Running(p) <=> pass[p].at \in Phases
  BY RunShapes DEF PassesTyped, PassShape, Running

\* The fields of a run that a step changes together.
LEMMA RunChanges ==
  ASSUME NEW r, RunShape(r)
  PROVE  /\ \A a : [r EXCEPT !.at = a] = RunOf(a, r.claimed, r.source, r.rest, r.got,
                                             r.creates, r.updates, r.gone, r.alone)
         /\ \A a, g : [r EXCEPT !.at = a, !.got = g] =
              RunOf(a, r.claimed, r.source, r.rest, g, r.creates, r.updates, r.gone,
                    r.alone)
         /\ \A a, x : [r EXCEPT !.at = a, !.creates = x] =
              RunOf(a, r.claimed, r.source, r.rest, r.got, x, r.updates, r.gone, r.alone)
         /\ \A a, x, u : [r EXCEPT !.at = a, !.creates = x, !.updates = u] =
              RunOf(a, r.claimed, r.source, r.rest, r.got, x, u, r.gone, r.alone)
         /\ \A a, g : [r EXCEPT !.at = a, !.gone = g] =
              RunOf(a, r.claimed, r.source, r.rest, r.got, r.creates, r.updates, g,
                    r.alone)
         /\ \A u : [r EXCEPT !.updates = u] = RunOf(r.at, r.claimed, r.source, r.rest,
                                             r.got, r.creates, u, r.gone, r.alone)
         /\ \A u : [r EXCEPT !.alone = u] = RunOf(r.at, r.claimed, r.source, r.rest, r.got,
                                             r.creates, r.updates, r.gone, u)
<1> USE DEF RunOf
<1>0. r = RunOf(r.at, r.claimed, r.source, r.rest, r.got, r.creates, r.updates, r.gone,
                r.alone)
  BY DEF RunShape
<1>1. ASSUME NEW a
      PROVE  [r EXCEPT !.at = a] = RunOf(a, r.claimed, r.source, r.rest, r.got, r.creates,
                                         r.updates, r.gone, r.alone)
  BY <1>0
<1>2. ASSUME NEW a, NEW g
      PROVE  /\ [r EXCEPT !.at = a, !.got = g] =
                  RunOf(a, r.claimed, r.source, r.rest, g, r.creates, r.updates, r.gone,
                        r.alone)
             /\ [r EXCEPT !.at = a, !.gone = g] =
                  RunOf(a, r.claimed, r.source, r.rest, r.got, r.creates, r.updates, g,
                        r.alone)
  <2>1. PICK z : z = [r EXCEPT !.at = a]
    OBVIOUS
  <2>2. z = RunOf(a, r.claimed, r.source, r.rest, r.got, r.creates, r.updates, r.gone,
                  r.alone)
    BY <1>1, <2>1
  <2>3. /\ [r EXCEPT !.at = a, !.got = g] = [z EXCEPT !.got = g]
        /\ [r EXCEPT !.at = a, !.gone = g] = [z EXCEPT !.gone = g]
    BY <2>1
  <2>4. [z EXCEPT !.got = g] = RunOf(a, r.claimed, r.source, r.rest, g, r.creates,
                                     r.updates, r.gone, r.alone)
    BY <2>2
  <2>5. [z EXCEPT !.gone = g] = RunOf(a, r.claimed, r.source, r.rest, r.got, r.creates,
                                      r.updates, g, r.alone)
    BY <2>2
  <2> QED
    BY <2>3, <2>4, <2>5
<1>3. ASSUME NEW a, NEW x
      PROVE  [r EXCEPT !.at = a, !.creates = x] =
               RunOf(a, r.claimed, r.source, r.rest, r.got, x, r.updates, r.gone, r.alone)
  <2>1. PICK z : z = [r EXCEPT !.at = a]
    OBVIOUS
  <2>2. z = RunOf(a, r.claimed, r.source, r.rest, r.got, r.creates, r.updates, r.gone,
                  r.alone)
    BY <1>1, <2>1
  <2>3. [r EXCEPT !.at = a, !.creates = x] = [z EXCEPT !.creates = x]
    BY <2>1
  <2>4. [z EXCEPT !.creates = x] = RunOf(a, r.claimed, r.source, r.rest, r.got, x,
                                         r.updates, r.gone, r.alone)
    BY <2>2
  <2> QED
    BY <2>3, <2>4
<1>4. ASSUME NEW a, NEW x, NEW u
      PROVE  [r EXCEPT !.at = a, !.creates = x, !.updates = u] =
               RunOf(a, r.claimed, r.source, r.rest, r.got, x, u, r.gone, r.alone)
  <2>1. PICK y : y = [r EXCEPT !.at = a, !.creates = x]
    OBVIOUS
  <2>2. y = RunOf(a, r.claimed, r.source, r.rest, r.got, x, r.updates, r.gone, r.alone)
    BY <1>3, <2>1
  <2>3. [r EXCEPT !.at = a, !.creates = x, !.updates = u] = [y EXCEPT !.updates = u]
    BY <2>1
  <2>4. [y EXCEPT !.updates = u] =
          RunOf(a, r.claimed, r.source, r.rest, r.got, x, u, r.gone, r.alone)
    BY <2>2
  <2> QED
    BY <2>3, <2>4
<1>5. ASSUME NEW u
      PROVE  /\ [r EXCEPT !.updates = u] = RunOf(r.at, r.claimed, r.source, r.rest, r.got,
                                                r.creates, u, r.gone, r.alone)
             /\ [r EXCEPT !.alone = u] = RunOf(r.at, r.claimed, r.source, r.rest, r.got,
                                              r.creates, r.updates, r.gone, u)
  BY <1>0
<1> HIDE DEF RunOf
<1> QED
  BY <1>1, <1>2, <1>3, <1>4, <1>5, Zenon

LEMMA ClaimChanges ==
  ASSUME NEW r, ClaimShape(r), NEW d, NEW c
  PROVE  /\ [r EXCEPT !.due = d] =
              [at |-> "claim", forced |-> r.forced, due |-> d, claimed |-> r.claimed]
         /\ [r EXCEPT !.due = d, !.claimed = c] =
              [at |-> "claim", forced |-> r.forced, due |-> d, claimed |-> c]
<1>1. PICK z : z = [r EXCEPT !.due = d]
  OBVIOUS
<1>2. z = [at |-> "claim", forced |-> r.forced, due |-> d, claimed |-> r.claimed]
  BY <1>1 DEF ClaimShape
<1>3. [r EXCEPT !.due = d, !.claimed = c] = [z EXCEPT !.claimed = c]
  BY <1>1
<1>4. [z EXCEPT !.claimed = c] =
        [at |-> "claim", forced |-> r.forced, due |-> d, claimed |-> c]
  BY <1>2
<1> QED
  BY <1>1, <1>2, <1>3, <1>4

LEMMA PassMoves ==
  ASSUME PassesTyped, NEW p \in Passes, NEW r, PassShape(r), Go(p, r)
  PROVE  /\ PassesTyped' /\ pass'[p] = r
         /\ \A q \in Passes \ {p} : pass'[q] = pass[q]
  BY DEF PassesTyped, Go

LEMMA CalendarStart == CalendarInit => CalendarHistory
<1> SUFFICES ASSUME CalendarInit PROVE CalendarHistory
  OBVIOUS
<1>1. TableTyped
  BY CalendarAssumption DEF CalendarInit, TableTyped, Figures, RowStatus
<1>2. \A p \in Passes : pass[p] = NoPass /\ ~Running(p)
  BY DEF CalendarInit, Running, NoPass
<1>3. PassesTyped
  BY <1>2 DEF CalendarInit, PassesTyped, PassShape
<1> QED
  BY <1>1, <1>2, <1>3
     DEF CalendarInit, CalendarHistory, AloneHolds, CopiesHold, AlertsHold

-----------------------------------------------------------------------------
(* What a step of one pass leaves to the others.                           *)

\* A pass that is not at a source disturbs nobody.
LEMMA NotAtSource ==
  ASSUME CalendarHistory, NEW p \in Passes, NEW r,
         r = NoPass \/ ClaimShape(r) \/ RetryShape(r), Go(p, r),
         TableTyped', UNCHANGED tableVars
  PROVE  CalendarHistory'
<1> USE DEF CalendarHistory
<1>1. /\ PassesTyped' /\ pass'[p] = r
      /\ \A q \in Passes \ {p} : pass'[q] = pass[q]
  BY PassMoves DEF PassShape
<1>2. ~Running(p)'
  BY <1>1, RunShapes DEF Running
<1>3. \A q \in Passes : Running(q)' => q # p /\ Running(q) /\ pass'[q] = pass[q]
  BY <1>1, <1>2 DEF Running
<1>4. AloneHolds'
  BY <1>3 DEF AloneHolds
<1>5. CopiesHold' /\ AlertsHold'
  BY <1>3 DEF CopiesHold, AlertsHold, tableVars
<1> QED
  BY <1>1, <1>4, <1>5

\* Nobody but the passes writes the table.
LEMMA NoPassMoves ==
  ASSUME CalendarHistory, TableTyped', UNCHANGED <<tableVars, pass>>
  PROVE  CalendarHistory'
  BY DEF CalendarHistory, PassesTyped, AloneHolds, CopiesHold, AlertsHold, Running,
         tableVars

\* A pass that is at a source writes that source's events only.
LEMMA AtSource ==
  ASSUME CalendarHistory, NEW p \in Passes, Running(p), NEW r, RunShape(r), Go(p, r),
         r.source = pass[p].source, r.alone = pass[p].alone, TableTyped',
         \A e \in Events : SourceOf[e] # r.source =>
           eventRow'[e] = eventRow[e] /\ alerts'[e] = alerts[e],
         \A e \in Events : /\ eventRow[e].status # "none" => eventRow'[e].status # "none"
                           /\ alerts'[e] > 0 => eventRow'[e].status # "none",
         r.alone => CopyHolds(r, eventRow'), AlertHolds(r, eventRow', alerts')
  PROVE  CalendarHistory'
<1> USE DEF CalendarHistory
<1>1. /\ PassesTyped' /\ pass'[p] = r
      /\ \A q \in Passes \ {p} : pass'[q] = pass[q]
  BY PassMoves DEF PassShape
<1>2. Running(p)'
  BY <1>1, RunShapes DEF Running
<1>3. \A q \in Passes \ {p} : Running(q)' <=> Running(q)
  BY <1>1 DEF Running
<1>4. AloneHolds'
  BY <1>1, <1>2, <1>3 DEF AloneHolds
<1>5. ASSUME NEW q \in Passes \ {p}, Running(q)
      PROVE  /\ RunShape(pass[q])
             /\ pass[q].alone => \A e \in Mine(pass[q].source) :
                  eventRow'[e] = eventRow[e] /\ alerts'[e] = alerts[e]
  BY <1>5, RunningShape DEF AloneHolds, Mine
<1>6. ASSUME NEW q \in Passes, Running(q)', pass'[q].alone
      PROVE  CopyHolds(pass'[q], eventRow')
  <2>1. CASE q = p
    BY <1>1, <1>6, <2>1
  <2>2. CASE q # p
    <3>1. Running(q) /\ pass'[q] = pass[q]
      BY <1>1, <1>3, <1>6, <2>2
    <3>2. /\ RunShape(pass[q]) /\ CopyHolds(pass[q], eventRow)
          /\ \A e \in Mine(pass[q].source) : eventRow'[e] = eventRow[e]
      BY <1>5, <1>6, <2>2, <3>1 DEF CopiesHold
    <3>3. pass[q].at # "fetch" => DOMAIN pass[q].got = Mine(pass[q].source)
      BY <3>2 DEF RunShape
    <3>4. CopyHolds(pass[q], eventRow')
      BY <3>2, <3>3 DEF CopyHolds, Copied, ListedIn
    <3> QED
      BY <3>1, <3>4
  <2> QED
    BY <2>1, <2>2
<1>7. ASSUME NEW q \in Passes, Running(q)'
      PROVE  AlertHolds(pass'[q], eventRow', alerts')
  <2>1. CASE q = p
    BY <1>1, <2>1
  <2>2. CASE q # p
    <3>1. Running(q) /\ pass'[q] = pass[q]
      BY <1>1, <1>3, <1>7, <2>2
    <3>2. RunShape(pass[q]) /\ AlertHolds(pass[q], eventRow, alerts)
      BY <1>5, <2>2, <3>1 DEF AlertsHold
    <3>3. pass[q].creates \subseteq Mine(pass[q].source) /\ pass[q].creates \subseteq Events
      BY <3>2 DEF RunShape, Mine
    <3>4. AlertHolds(pass[q], eventRow', alerts')
      BY <1>5, <2>2, <3>1, <3>2, <3>3 DEF AlertHolds
    <3> QED
      BY <3>1, <3>4
  <2> QED
    BY <2>1, <2>2
<1> QED
  BY <1>1, <1>4, <1>6, <1>7 DEF CopiesHold, AlertsHold
\* A pass that comes to a source meets the passes that are there.
LEMMA SourceStarts ==
  ASSUME CalendarHistory, NEW p \in Passes, NEW claimed \in SUBSET Sources,
         NEW rest \in SUBSET Sources, NextSource(p, claimed, rest),
         TableTyped', UNCHANGED tableVars
  PROVE  CalendarHistory'
<1> USE DEF CalendarHistory
<1> DEFINE Others(s) == RunningOf(s) \ {p}
           First(s, b) == [at |-> "fetch", claimed |-> claimed, source |-> s,
                           rest |-> rest \ {s}, got |-> <<>>, creates |-> {},
                           updates |-> {}, gone |-> {}, alone |-> b]
           Met(q, s) == IF q \in Others(s) THEN [pass[q] EXCEPT !.alone = FALSE] ELSE pass[q]
<1>1. PICK s \in rest :
        pass' = [q \in Passes |-> IF q = p THEN First(s, Others(s) = {}) ELSE Met(q, s)]
  BY Zenon DEF NextSource
<1>2. PICK b \in BOOLEAN : b = (Others(s) = {})
  OBVIOUS
<1>3. pass'[p] = First(s, b)
  <2> HIDE DEF First, Met, Others
  <2>1. pass'[p] = First(s, Others(s) = {})
    BY <1>1
  <2> QED
    BY <1>2, <2>1, Zenon
<1>4. RunShape(pass'[p]) /\ pass'[p].at = "fetch" /\ pass'[p].source = s
      /\ pass'[p].alone = b
  BY <1>3 DEF RunShape, RunOf, Phases
<1>5. ASSUME NEW q \in Passes \ {p}, ~Running(q)
      PROVE  pass'[q] = pass[q]
  BY <1>1, <1>5 DEF RunningOf
<1>6. ASSUME NEW q \in Passes \ {p}, Running(q), pass[q].source # s
      PROVE  pass'[q] = pass[q]
  BY <1>1, <1>6 DEF RunningOf
<1>7. ASSUME NEW q \in Passes \ {p}, Running(q), pass[q].source = s
      PROVE  /\ ~b
             /\ RunShape(pass[q])
             /\ pass'[q] = [pass[q] EXCEPT !.alone = FALSE]
  BY <1>1, <1>2, <1>7, RunningShape DEF RunningOf
<1>8. ASSUME NEW q \in Passes \ {p}, Running(q), pass[q].source = s
      PROVE  /\ RunShape(pass'[q]) /\ pass'[q].source = s /\ pass'[q].alone = FALSE
             /\ pass'[q].at = pass[q].at /\ pass'[q].creates = pass[q].creates
  <2> HIDE DEF Others, First, Met
  <2>1. RunShape(pass[q]) /\ pass'[q] = [pass[q] EXCEPT !.alone = FALSE]
    BY <1>7, <1>8
  <2>2. pass'[q] = RunOf(pass[q].at, pass[q].claimed, pass[q].source, pass[q].rest,
                         pass[q].got, pass[q].creates, pass[q].updates, pass[q].gone, FALSE)
    BY <2>1, RunChanges
  <2> QED
    BY <1>8, <2>1, <2>2 DEF RunShape, RunOf, ListedIn
<1> HIDE DEF Others, First, Met
<1>9. \A q \in Passes \ {p} : PassShape(pass'[q])
  BY <1>5, <1>6, <1>8 DEF PassesTyped, PassShape
<1>10. pass' = [q \in Passes |-> pass'[q]]
  BY <1>1
<1>11. PassesTyped'
  BY <1>4, <1>9, <1>10 DEF PassesTyped, PassShape
<1>12. Running(p)' /\ \A q \in Passes \ {p} : Running(q)' <=> Running(q)
  <2>1. Running(p)'
    BY <1>4, RunShapes DEF Running
  <2>2. ASSUME NEW q \in Passes \ {p} PROVE Running(q)' <=> Running(q)
    BY <1>5, <1>6, <1>8, RunShapes DEF Running
  <2> QED
    BY <2>1, <2>2
<1>13. AloneHolds'
  <2> SUFFICES ASSUME NEW q1 \in Passes, NEW q2 \in Passes, q1 # q2, Running(q1)',
                      Running(q2)', pass'[q1].source = pass'[q2].source
               PROVE  ~pass'[q1].alone
    BY DEF AloneHolds
  <2>1. CASE q1 = p
    BY <1>4, <1>6, <1>7, <1>12, <2>1
  <2>2. CASE q1 # p /\ pass'[q1].source = s
    BY <1>6, <1>8, <1>12, <2>2
  <2>3. CASE q1 # p /\ pass'[q1].source # s
    BY <1>4, <1>6, <1>8, <1>12, <2>3 DEF AloneHolds
  <2> QED
    BY <2>1, <2>2, <2>3
<1>14. CopiesHold'
  <2> SUFFICES ASSUME NEW q \in Passes, Running(q)', pass'[q].alone
               PROVE  CopyHolds(pass'[q], eventRow')
    BY DEF CopiesHold
  <2>1. CASE q = p
    BY <1>4, <2>1 DEF CopyHolds
  <2>2. CASE q # p
    BY <1>6, <1>8, <1>12, <2>2 DEF CopiesHold, tableVars
  <2> QED
    BY <2>1, <2>2
<1>15. AlertsHold'
  <2> SUFFICES ASSUME NEW q \in Passes, Running(q)'
               PROVE  AlertHolds(pass'[q], eventRow', alerts')
    BY DEF AlertsHold, tableVars
  <2>1. CASE q = p
    BY <1>4, <2>1 DEF AlertHolds
  <2>2. CASE q # p
    BY <1>6, <1>8, <1>12, <2>2 DEF AlertsHold, AlertHolds, tableVars
  <2> QED
    BY <2>1, <2>2
<1> QED
  BY <1>11, <1>13, <1>14, <1>15
-----------------------------------------------------------------------------
(* Steps.                                                                  *)

LEMMA ReadDueKeeps ==
  ASSUME CalendarHistory, NEW p \in Passes, NEW forced \in BOOLEAN, ReadDue(p, forced)
  PROVE  CalendarHistory'
<1> DEFINE due == {s \in Sources : forced \/ age[s] \in OldEnough(FALSE)}
           r == [at |-> "claim", forced |-> forced, due |-> due, claimed |-> {}]
<1>1. Go(p, r) /\ UNCHANGED <<providerVars, tableVars, sourceVars>>
  BY DEF ReadDue
<1>2. due \subseteq Sources
  OBVIOUS
<1> HIDE DEF due
<1>3. ClaimShape(r)
  BY <1>2 DEF ClaimShape
<1>4. TableTyped'
  BY <1>1 DEF CalendarHistory, TableTyped, providerVars, tableVars, sourceVars
<1> HIDE DEF r
<1> QED
  BY <1>1, <1>3, <1>4, NotAtSource

LEMMA ClaimKeeps ==
  ASSUME CalendarHistory, NEW p \in Passes, NEW s \in Sources, Claim(p, s)
  PROVE  CalendarHistory'
<1>1. At(p, "claim") /\ UNCHANGED tableVars
  BY DEF Claim
<1>2. ClaimShape(pass[p])
  BY <1>1 DEF CalendarHistory, PassesTyped, PassShape, At, NoPass, RetryShape, RunShape,
              RunOf, Phases
<1>3. TableTyped'
  BY DEF Claim, CalendarHistory, TableTyped, providerVars, tableVars, sourceVars
<1>4. PICK r : ClaimShape(r) /\ Go(p, r)
  <2>1. CASE age[s] \in OldEnough(pass[p].forced)
    <3> DEFINE r == [pass[p] EXCEPT !.due = @ \ {s}, !.claimed = @ \cup {s}]
    <3>1. Go(p, r)
      BY <2>1 DEF Claim
    <3>2. r = [at |-> "claim", forced |-> pass[p].forced, due |-> pass[p].due \ {s},
               claimed |-> pass[p].claimed \cup {s}]
      BY <1>2, ClaimChanges
    <3>3. ClaimShape(r)
      BY <1>2, <3>2 DEF ClaimShape
    <3> QED
      BY <3>1, <3>3
  <2>2. CASE age[s] \notin OldEnough(pass[p].forced)
    <3> DEFINE r == [pass[p] EXCEPT !.due = @ \ {s}]
    <3>1. Go(p, r)
      BY <2>2 DEF Claim
    <3>2. r = [at |-> "claim", forced |-> pass[p].forced, due |-> pass[p].due \ {s},
               claimed |-> pass[p].claimed]
      BY <1>2, ClaimChanges
    <3>3. ClaimShape(r)
      BY <1>2, <3>2 DEF ClaimShape
    <3> QED
      BY <3>1, <3>3
  <2> QED
    BY <2>1, <2>2
<1> QED
  BY <1>1, <1>3, <1>4, NotAtSource

\* Whoever claims or retries, is at no source.
LEMMA RunKeeps ==
  ASSUME CalendarHistory, NEW p \in Passes, Run(p)
  PROVE  CalendarHistory'
<1>1. TableTyped' /\ UNCHANGED tableVars
  BY DEF Run, CalendarHistory, TableTyped, providerVars, tableVars, sourceVars
<1>2. CASE NextSource(p, {}, Sources)
  BY <1>1, <1>2, SourceStarts
<1>3. CASE At(p, "claim") /\ Go(p, NoPass)
  BY <1>1, <1>3, NotAtSource
<1>4. CASE At(p, "claim") /\ NextSource(p, pass[p].claimed, Sources)
  <2>1. pass[p].claimed \subseteq Sources
    BY <1>4 DEF CalendarHistory, PassesTyped, PassShape, At, NoPass, ClaimShape, RetryShape,
                RunShape
  <2> QED
    BY <1>1, <1>4, <2>1, SourceStarts
<1> QED
  BY <1>2, <1>3, <1>4 DEF Run

LEMMA RetrySoonerKeeps ==
  ASSUME CalendarHistory, NEW p \in Passes, RetrySooner(p)
  PROVE  CalendarHistory'
<1>1. Go(p, NoPass) /\ UNCHANGED tableVars
  BY DEF RetrySooner
<1>2. TableTyped'
  BY DEF RetrySooner, CalendarHistory, TableTyped, providerVars, tableVars
<1> QED
  BY <1>1, <1>2, NotAtSource

LEMMA DieKeeps ==
  ASSUME CalendarHistory, NEW p \in Passes, Die(p)
  PROVE  CalendarHistory'
<1>1. Go(p, NoPass) /\ UNCHANGED tableVars
  BY DEF Die
<1>2. TableTyped'
  BY DEF Die, CalendarHistory, TableTyped, providerVars, tableVars, sourceVars
<1> QED
  BY <1>1, <1>2, NotAtSource

LEMMA EndSourceKeeps ==
  ASSUME CalendarHistory, NEW p \in Passes, Running(p), NEW bad \in BOOLEAN,
         EndSource(p, bad), UNCHANGED <<providerVars, tableVars>>
  PROVE  CalendarHistory'
<1>1. RunShape(pass[p])
  BY RunningShape DEF CalendarHistory
<1>2. /\ pass[p].source \in Sources /\ pass[p].claimed \subseteq Sources
      /\ pass[p].rest \subseteq Sources
  BY <1>1 DEF RunShape
<1>3. TableTyped'
  BY <1>2 DEF EndSource, CalendarHistory, TableTyped, providerVars, tableVars
<1>4. CASE pass[p].rest # {}
  BY <1>2, <1>3, <1>4, SourceStarts DEF EndSource
<1>5. CASE pass[p].rest = {}
  <2> DEFINE r == [at |-> "retry", claimed |-> pass[p].claimed]
  <2>1. Go(p, r)
    BY <1>5 DEF EndSource
  <2>2. RetryShape(r)
    BY <1>2 DEF RetryShape
  <2> QED
    BY <1>3, <2>1, <2>2, NotAtSource
<1> QED
  BY <1>4, <1>5

LEMMA ProviderKeeps ==
  ASSUME CalendarHistory,
         \/ \E e \in Events : Publish(e)
         \/ \E s \in Sources : Age(s)
  PROVE  CalendarHistory'
<1>1. CASE \E e \in Events : Publish(e)
  <2>1. TableTyped'
    BY <1>1, CalendarAssumption
       DEF Publish, CalendarHistory, TableTyped, Figures, tableVars, sourceVars
  <2> QED
    BY <1>1, <2>1, NoPassMoves DEF Publish
<1>2. CASE \E s \in Sources : Age(s)
  <2>1. TableTyped'
    BY <1>2 DEF Age, CalendarHistory, TableTyped, providerVars, tableVars
  <2> QED
    BY <1>2, <2>1, NoPassMoves DEF Age
<1> QED
  BY <1>1, <1>2
\* Whoever is in a phase of a run has a run's record.
LEMMA InRun ==
  ASSUME CalendarHistory, NEW p \in Passes, pass[p].at \in Phases
  PROVE  /\ Running(p) /\ RunShape(pass[p]) /\ Listed(p) = ListedIn(pass[p])
         /\ pass[p].alone => CopyHolds(pass[p], eventRow)
         /\ AlertHolds(pass[p], eventRow, alerts)
  BY RunningShape DEF CalendarHistory, CopiesHold, AlertsHold, Listed, ListedIn

LEMMA FetchKeeps ==
  ASSUME CalendarHistory, NEW p \in Passes, Fetch(p)
  PROVE  CalendarHistory'
<1> DEFINE old == pass[p]
           got == [e \in Mine(old.source) |-> upstream[e]]
           r == RunOf("read", old.claimed, old.source, old.rest, got, old.creates,
                      old.updates, old.gone, old.alone)
<1>1. old.at = "fetch" /\ Running(p) /\ RunShape(old)
  BY InRun DEF Fetch, At, Phases
<1>2. Go(p, r) /\ UNCHANGED <<providerVars, tableVars, sourceVars>>
  <2>1. [old EXCEPT !.at = "read", !.got = got] = r
    <3> HIDE DEF got, old
    <3> QED
      BY <1>1, RunChanges, Zenon
  <2>2. Go(p, [old EXCEPT !.at = "read", !.got = got])
    BY Zenon DEF Fetch, Mine
  <2>3. UNCHANGED <<providerVars, tableVars, sourceVars>>
    BY DEF Fetch
  <2> HIDE DEF r, got
  <2> QED
    BY <2>1, <2>2, <2>3
<1>3. got \in [Mine(old.source) -> Figures \cup {Unlisted}]
  BY DEF CalendarHistory, TableTyped, Mine
<1> HIDE DEF got
<1>4. RunShape(r) /\ r.at = "read" /\ r.source = old.source /\ r.alone = old.alone
  BY <1>1, <1>3 DEF RunShape, RunOf, Phases
<1>5. TableTyped'
  BY <1>2 DEF CalendarHistory, TableTyped, providerVars, tableVars, sourceVars
<1> HIDE DEF r
<1>6. CopyHolds(r, eventRow') /\ AlertHolds(r, eventRow', alerts')
  BY <1>4 DEF CopyHolds, AlertHolds
<1>7. UNCHANGED <<eventRow, alerts>>
  BY <1>2 DEF tableVars
<1>8. \A e \in Events : alerts[e] > 0 => eventRow[e].status # "none"
  BY DEF CalendarHistory, AlertsHold
<1> QED
  BY <1>1, <1>2, <1>4, <1>5, <1>6, <1>7, <1>8, AtSource

LEMMA ReadExistingKeeps ==
  ASSUME CalendarHistory, NEW p \in Passes, ReadExisting(p)
  PROVE  CalendarHistory'
<1> DEFINE old == pass[p]
           known == {e \in Listed(p) : eventRow[e].status # "none"}
           stale == {e \in known : NeedsRowUpdate(eventRow[e], pass[p].got[e])}
           r == RunOf("write", old.claimed, old.source, old.rest, old.got,
                      Listed(p) \ known, stale, old.gone, old.alone)
<1>1. /\ old.at = "read" /\ Running(p) /\ RunShape(old)
      /\ Listed(p) = ListedIn(old)
  BY InRun DEF ReadExisting, At, Phases
<1>2. Go(p, r) /\ UNCHANGED <<providerVars, tableVars, sourceVars>>
  <2>1. [old EXCEPT !.at = "write", !.creates = Listed(p) \ known, !.updates = stale] = r
    <3> DEFINE fresh == Listed(p) \ known
    <3>1. \A a, x, u : [old EXCEPT !.at = a, !.creates = x, !.updates = u] =
            RunOf(a, old.claimed, old.source, old.rest, old.got, x, u, old.gone, old.alone)
      BY <1>1, RunChanges, Zenon
    <3> HIDE DEF fresh, stale, old
    <3> QED
      BY <3>1, Zenon
  <2>2. Go(p, [old EXCEPT !.at = "write", !.creates = Listed(p) \ known,
                         !.updates = stale])
    BY Zenon DEF ReadExisting
  <2>3. UNCHANGED <<providerVars, tableVars, sourceVars>>
    BY DEF ReadExisting
  <2> HIDE DEF r, known, stale
  <2> QED
    BY <2>1, <2>2, <2>3
<1>3. ListedIn(old) \subseteq Mine(old.source)
  BY <1>1 DEF RunShape, ListedIn
<1>4. \A e \in ListedIn(old) : e \in known <=> eventRow[e].status # "none"
  BY <1>1
<1>5. \A e \in known : e \notin stale =>
         /\ eventRow[e].status = StatusOf(old.got[e])
         /\ old.got[e] \in {0, eventRow[e].actual}
  BY DEF NeedsRowUpdate
<1>6. known \subseteq ListedIn(old) /\ stale \subseteq known
  BY <1>1
<1> HIDE DEF known, stale
<1>7. /\ r.at = "write" /\ r.source = old.source /\ r.alone = old.alone /\ r.got = old.got
      /\ r.creates = ListedIn(old) \ known /\ r.updates = stale
      /\ ListedIn(r) = ListedIn(old)
  BY <1>1 DEF RunOf, ListedIn
<1>8. RunShape(r)
  BY <1>1, <1>3, <1>6 DEF RunShape, RunOf, Phases, ListedIn
<1>9. TableTyped'
  BY <1>2 DEF CalendarHistory, TableTyped, providerVars, tableVars, sourceVars
<1> HIDE DEF r
<1>10. CopyHolds(r, eventRow')
  BY <1>2, <1>4, <1>5, <1>7 DEF CopyHolds, Copied, tableVars
<1>11. AlertHolds(r, eventRow', alerts')
  BY <1>7 DEF AlertHolds
<1>12. UNCHANGED <<eventRow, alerts>>
  BY <1>2 DEF tableVars
<1>13. \A e \in Events : alerts[e] > 0 => eventRow[e].status # "none"
  BY DEF CalendarHistory, AlertsHold
<1> QED
  BY <1>1, <1>2, <1>7, <1>8, <1>9, <1>10, <1>11, <1>12, <1>13, AtSource

LEMMA UpdateRowKeeps ==
  ASSUME CalendarHistory, NEW p \in Passes, NEW f \in Events, UpdateRow(p, f)
  PROVE  CalendarHistory'
<1> DEFINE old == pass[p]
           r == RunOf(old.at, old.claimed, old.source, old.rest, old.got, old.creates,
                      old.updates \ {f}, old.gone, old.alone)
<1>1. /\ old.at = "write" /\ Running(p) /\ RunShape(old)
      /\ old.alone => CopyHolds(old, eventRow)
  BY InRun DEF UpdateRow, At, Phases
<1>2. Go(p, r)
  <2>1. [old EXCEPT !.updates = old.updates \ {f}] = r
    BY <1>1, RunChanges
  <2> QED
    BY <2>1 DEF UpdateRow
<1>3. /\ f \in old.updates /\ f \in Mine(old.source) /\ f \in ListedIn(old)
      /\ f \notin old.creates /\ old.got[f] \in Figures
  BY <1>1 DEF UpdateRow, RunShape, ListedIn
<1>4. eventRow' = [eventRow EXCEPT ![f] = [status |-> StatusOf(old.got[f]),
                   actual |-> IF old.got[f] = 0 THEN eventRow[f].actual ELSE old.got[f]]]
  BY DEF UpdateRow
<1>5. UNCHANGED <<providerVars, alerts, sourceVars>>
  BY DEF UpdateRow
<1>6. eventRow \in [Events -> [status : RowStatus, actual : Figures]]
  BY DEF CalendarHistory, TableTyped
<1>7. /\ eventRow'[f].status = StatusOf(old.got[f])
      /\ eventRow'[f].actual = IF old.got[f] = 0 THEN eventRow[f].actual ELSE old.got[f]
      /\ \A e \in Events \ {f} : eventRow'[e] = eventRow[e]
  BY <1>4, <1>6
<1>8. StatusOf(old.got[f]) \in RowStatus \ {"none"}
  BY DEF StatusOf, RowStatus
<1>9. eventRow' \in [Events -> [status : RowStatus, actual : Figures]]
  BY <1>3, <1>4, <1>6, <1>8
<1>10. TableTyped'
  BY <1>5, <1>9 DEF CalendarHistory, TableTyped, providerVars, sourceVars
<1>11. /\ r.at = "write" /\ r.source = old.source /\ r.alone = old.alone
       /\ r.got = old.got /\ r.creates = old.creates /\ r.updates = old.updates \ {f}
       /\ ListedIn(r) = ListedIn(old)
  BY <1>1 DEF RunOf, ListedIn
<1>12. RunShape(r)
  BY <1>1, <1>3 DEF RunShape, RunOf, Phases, ListedIn
<1> HIDE DEF r
<1>13. ASSUME r.alone PROVE CopyHolds(r, eventRow')
  <2>1. CopyHolds(old, eventRow)
    BY <1>1, <1>11, <1>13
  <2>2. ListedIn(old) \subseteq Events
    BY <1>1 DEF RunShape, ListedIn, Mine
  <2>3. Copied(old, f, eventRow')
    BY <1>7 DEF Copied
  <2>4. \A e \in ListedIn(old) :
          /\ e \in old.creates => eventRow'[e].status = "none"
          /\ e \notin old.creates \cup (old.updates \ {f}) => Copied(old, e, eventRow')
    BY <1>1, <1>3, <1>7, <2>1, <2>2, <2>3 DEF CopyHolds, Copied
  <2> QED
    BY <1>11, <2>4 DEF CopyHolds, Copied
<1>14. AlertHolds(r, eventRow', alerts')
  BY <1>11 DEF AlertHolds
<1>15. \A e \in Events : /\ eventRow[e].status # "none" => eventRow'[e].status # "none"
                         /\ alerts'[e] > 0 => eventRow'[e].status # "none"
  BY <1>5, <1>7, <1>8 DEF CalendarHistory, AlertsHold
<1>16. \A e \in Events : SourceOf[e] # r.source =>
         eventRow'[e] = eventRow[e] /\ alerts'[e] = alerts[e]
  BY <1>3, <1>5, <1>7, <1>11 DEF Mine
<1> QED
  BY <1>1, <1>2, <1>10, <1>11, <1>12, <1>13, <1>14, <1>15, <1>16, AtSource
LEMMA CreateRowsKeeps ==
  ASSUME CalendarHistory, NEW p \in Passes, CreateRows(p)
  PROVE  CalendarHistory'
<1> DEFINE old == pass[p]
           r == RunOf("alert", old.claimed, old.source, old.rest, old.got, old.creates,
                      old.updates, old.gone, old.alone)
<1>1. /\ old.at = "write" /\ Running(p) /\ RunShape(old) /\ old.updates = {}
      /\ old.alone => CopyHolds(old, eventRow)
  BY InRun DEF CreateRows, At, Phases
<1>2. Go(p, r)
  <2>1. [old EXCEPT !.at = "alert"] = r
    BY <1>1, RunChanges
  <2> QED
    BY <2>1 DEF CreateRows
<1>3. /\ old.creates \subseteq Mine(old.source) /\ old.creates \subseteq ListedIn(old)
      /\ ListedIn(old) \subseteq Events /\ \A e \in ListedIn(old) : old.got[e] \in Figures
  BY <1>1 DEF RunShape, ListedIn, Mine
<1>4. UNCHANGED <<providerVars, alerts, sourceVars>>
  BY DEF CreateRows
<1>5. eventRow \in [Events -> [status : RowStatus, actual : Figures]]
  BY DEF CalendarHistory, TableTyped
<1>6. \A e \in Events : eventRow'[e] =
        IF e \in old.creates /\ eventRow[e].status = "none"
        THEN [status |-> StatusOf(old.got[e]), actual |-> old.got[e]] ELSE eventRow[e]
  BY DEF CreateRows
<1>7. \A e \in Events : StatusOf(old.got[e]) \in RowStatus \ {"none"}
  BY DEF StatusOf, RowStatus
<1>8. \A e \in Events :
        /\ eventRow'[e] \in [status : RowStatus, actual : Figures]
        /\ eventRow[e].status # "none" => eventRow'[e] = eventRow[e]
        /\ e \notin old.creates => eventRow'[e] = eventRow[e]
        /\ e \in old.creates => eventRow'[e].status # "none"
  <2> SUFFICES ASSUME NEW e \in Events
               PROVE  /\ eventRow'[e] \in [status : RowStatus, actual : Figures]
                      /\ eventRow[e].status # "none" => eventRow'[e] = eventRow[e]
                      /\ e \notin old.creates => eventRow'[e] = eventRow[e]
                      /\ e \in old.creates => eventRow'[e].status # "none"
    OBVIOUS
  <2>1. CASE e \in old.creates /\ eventRow[e].status = "none"
    <3> HIDE DEF old
    <3>1. old.got[e] \in Figures /\ StatusOf(old.got[e]) \in RowStatus \ {"none"}
      BY <1>3, <1>7, <2>1
    <3>2. eventRow'[e] = [status |-> StatusOf(old.got[e]), actual |-> old.got[e]]
      BY <1>6, <2>1
    <3> QED
      BY <2>1, <3>1, <3>2
  <2>2. CASE ~(e \in old.creates /\ eventRow[e].status = "none")
    BY <1>5, <1>6, <2>2
  <2> QED
    BY <2>1, <2>2
<1>9. TableTyped'
  <2>1. eventRow' = [e \in Events |-> eventRow'[e]]
    BY DEF CreateRows
  <2>2. eventRow' \in [Events -> [status : RowStatus, actual : Figures]]
    BY <1>8, <2>1
  <2> QED
    BY <1>4, <2>2 DEF CalendarHistory, TableTyped, providerVars, sourceVars
<1>10. /\ r.at = "alert" /\ r.source = old.source /\ r.alone = old.alone
       /\ r.got = old.got /\ r.creates = old.creates /\ ListedIn(r) = ListedIn(old)
  BY <1>1 DEF RunOf, ListedIn
<1>11. RunShape(r)
  BY <1>1 DEF RunShape, RunOf, Phases, ListedIn
<1> HIDE DEF r
<1>12. ASSUME r.alone PROVE CopyHolds(r, eventRow')
  <2>1. CopyHolds(old, eventRow)
    BY <1>1, <1>10, <1>12
  <2>2. ASSUME NEW e \in ListedIn(old) PROVE Copied(old, e, eventRow')
    <3>1. CASE e \in old.creates
      <4>1. eventRow[e].status = "none" /\ e \in Events
        BY <1>1, <1>3, <2>1, <2>2, <3>1 DEF CopyHolds
      <4>2. eventRow'[e] = [status |-> StatusOf(old.got[e]), actual |-> old.got[e]]
        BY <1>6, <3>1, <4>1
      <4> QED
        BY <4>2 DEF Copied
    <3>2. CASE e \notin old.creates
      BY <1>1, <1>3, <1>8, <2>1, <2>2, <3>2 DEF CopyHolds, Copied
    <3> QED
      BY <3>1, <3>2
  <2> QED
    BY <1>10, <2>2 DEF CopyHolds, Copied
<1>13. AlertHolds(r, eventRow', alerts')
  <2>1. ASSUME NEW e \in old.creates PROVE eventRow'[e].status # "none"
    BY <1>3, <1>8, <2>1
  <2>2. ASSUME old.alone, NEW e \in old.creates PROVE alerts'[e] = 0
    <3>1. eventRow[e].status = "none" /\ e \in Events
      BY <1>1, <1>3, <2>2 DEF CopyHolds
    <3>2. alerts[e] \in 0 .. MaxAlerts /\ ~(alerts[e] > 0)
      BY <3>1 DEF CalendarHistory, TableTyped, AlertsHold
    <3> QED
      BY <1>4, <3>2, CalendarAssumption
  <2> QED
    BY <1>10, <2>1, <2>2 DEF AlertHolds
<1>14. \A e \in Events : /\ eventRow[e].status # "none" => eventRow'[e].status # "none"
                         /\ alerts'[e] > 0 => eventRow'[e].status # "none"
  BY <1>4, <1>8 DEF CalendarHistory, AlertsHold
<1>15. \A e \in Events : SourceOf[e] # r.source =>
         eventRow'[e] = eventRow[e] /\ alerts'[e] = alerts[e]
  BY <1>3, <1>4, <1>8, <1>10 DEF Mine
<1> QED
  BY <1>1, <1>2, <1>9, <1>10, <1>11, <1>12, <1>13, <1>14, <1>15, AtSource

LEMMA AlertKeeps ==
  ASSUME CalendarHistory, NEW p \in Passes, Alert(p)
  PROVE  CalendarHistory'
<1> DEFINE old == pass[p]
           r == RunOf("scheduled", old.claimed, old.source, old.rest, old.got, {},
                      old.updates, old.gone, old.alone)
<1>1. /\ old.at = "alert" /\ Running(p) /\ RunShape(old)
      /\ old.alone => CopyHolds(old, eventRow)
      /\ AlertHolds(old, eventRow, alerts)
  BY InRun DEF Alert, At, Phases
<1>2. Go(p, r)
  <2>1. [old EXCEPT !.at = "scheduled", !.creates = {}] = r
    BY <1>1, RunChanges
  <2> QED
    BY <2>1 DEF Alert
<1>3. UNCHANGED <<providerVars, eventRow, sourceVars>>
  BY DEF Alert
<1>4. alerts \in [Events -> 0 .. MaxAlerts] /\ MaxAlerts \in Nat
  BY CalendarAssumption DEF CalendarHistory, TableTyped
<1>5. alerts' = [e \in Events |->
        IF e \in old.creates /\ alerts[e] < MaxAlerts THEN alerts[e] + 1 ELSE alerts[e]]
  BY DEF Alert
<1>6. alerts' \in [Events -> 0 .. MaxAlerts]
      /\ \A e \in Events : e \notin old.creates => alerts'[e] = alerts[e]
  BY <1>4, <1>5
<1>7. TableTyped'
  BY <1>3, <1>6 DEF CalendarHistory, TableTyped, providerVars, sourceVars
<1>8. /\ r.at = "scheduled" /\ r.source = old.source /\ r.alone = old.alone
      /\ r.got = old.got /\ ListedIn(r) = ListedIn(old)
  BY <1>1 DEF RunOf, ListedIn
<1>9. RunShape(r)
  BY <1>1 DEF RunShape, RunOf, Phases, ListedIn
<1> HIDE DEF r
<1>10. r.alone => CopyHolds(r, eventRow')
  BY <1>1, <1>3, <1>8 DEF CopyHolds, Copied
<1>11. AlertHolds(r, eventRow', alerts')
  BY <1>8 DEF AlertHolds
<1>12. \A e \in Events : /\ eventRow[e].status # "none" => eventRow'[e].status # "none"
                         /\ alerts'[e] > 0 => eventRow'[e].status # "none"
  BY <1>1, <1>3, <1>6 DEF CalendarHistory, AlertsHold, AlertHolds
<1>13. \A e \in Events : SourceOf[e] # r.source =>
         eventRow'[e] = eventRow[e] /\ alerts'[e] = alerts[e]
  BY <1>1, <1>3, <1>6, <1>8 DEF RunShape, Mine
<1> QED
  BY <1>1, <1>2, <1>7, <1>8, <1>9, <1>10, <1>11, <1>12, <1>13, AtSource

LEMMA ReadScheduledKeeps ==
  ASSUME CalendarHistory, NEW p \in Passes, ReadScheduled(p)
  PROVE  CalendarHistory'
<1> DEFINE old == pass[p]
           gone == Disappeared(p)
           r == RunOf("cancel", old.claimed, old.source, old.rest, old.got, old.creates,
                      old.updates, gone, old.alone)
<1>1. /\ old.at = "scheduled" /\ Running(p) /\ RunShape(old)
      /\ Listed(p) = ListedIn(old)
      /\ old.alone => CopyHolds(old, eventRow)
  BY InRun DEF ReadScheduled, At, Phases
<1>2. Go(p, r) /\ UNCHANGED <<providerVars, tableVars, sourceVars>>
  <2>1. [old EXCEPT !.at = "cancel", !.gone = gone] = r
    <3>1. \A a, g : [old EXCEPT !.at = a, !.gone = g] =
            RunOf(a, old.claimed, old.source, old.rest, old.got, old.creates, old.updates,
                  g, old.alone)
      BY <1>1, RunChanges, Zenon
    <3> HIDE DEF gone, old
    <3> QED
      BY <3>1, Zenon
  <2>2. Go(p, [old EXCEPT !.at = "cancel", !.gone = gone])
    BY Zenon DEF ReadScheduled
  <2>3. UNCHANGED <<providerVars, tableVars, sourceVars>>
    BY DEF ReadScheduled
  <2> HIDE DEF r, gone
  <2> QED
    BY <2>1, <2>2, <2>3
<1>3. DOMAIN old.got = Mine(old.source)
  BY <1>1 DEF RunShape
<1>4. /\ gone \subseteq Mine(old.source) /\ gone \cap ListedIn(old) = {}
      /\ ListedIn(old) # {} => \A e \in (DOMAIN old.got) \ ListedIn(old) :
           eventRow[e].status # "SCHEDULED" \/ e \in gone
  BY <1>1, <1>3 DEF Disappeared
<1> HIDE DEF gone
<1>5. /\ r.at = "cancel" /\ r.source = old.source /\ r.alone = old.alone
      /\ r.got = old.got /\ r.gone = gone /\ ListedIn(r) = ListedIn(old)
  BY <1>1 DEF RunOf, ListedIn
<1>6. RunShape(r)
  BY <1>1, <1>4 DEF RunShape, RunOf, Phases, ListedIn
<1>7. TableTyped'
  BY <1>2 DEF CalendarHistory, TableTyped, providerVars, tableVars, sourceVars
<1> HIDE DEF r
<1>8. UNCHANGED <<eventRow, alerts>>
  BY <1>2 DEF tableVars
<1>9. r.alone => CopyHolds(r, eventRow')
  BY <1>1, <1>4, <1>5, <1>8 DEF CopyHolds, Copied
<1>10. AlertHolds(r, eventRow', alerts')
  BY <1>5 DEF AlertHolds
<1>11. \A e \in Events : alerts[e] > 0 => eventRow[e].status # "none"
  BY DEF CalendarHistory, AlertsHold
<1> QED
  BY <1>1, <1>2, <1>5, <1>6, <1>7, <1>8, <1>9, <1>10, <1>11, AtSource

LEMMA CancelRowsKeeps ==
  ASSUME CalendarHistory, NEW p \in Passes, CancelRows(p)
  PROVE  CalendarHistory'
<1> DEFINE old == pass[p]
           r == RunOf("mark", old.claimed, old.source, old.rest, old.got, old.creates,
                      old.updates, {}, old.alone)
<1>1. /\ old.at = "cancel" /\ Running(p) /\ RunShape(old)
      /\ old.alone => CopyHolds(old, eventRow)
  BY InRun DEF CancelRows, At, Phases
<1>2. Go(p, r)
  <2>1. [old EXCEPT !.at = "mark", !.gone = {}] = r
    <3>1. \A a, g : [old EXCEPT !.at = a, !.gone = g] =
            RunOf(a, old.claimed, old.source, old.rest, old.got, old.creates, old.updates,
                  g, old.alone)
      BY <1>1, RunChanges, Zenon
    <3> HIDE DEF old
    <3> QED
      BY <3>1, Zenon
  <2> QED
    BY <2>1 DEF CancelRows
<1>3. UNCHANGED <<providerVars, alerts, sourceVars>>
  BY DEF CancelRows
<1>4. eventRow \in [Events -> [status : RowStatus, actual : Figures]]
  BY DEF CalendarHistory, TableTyped
<1>5. eventRow' = [e \in Events |->
        IF e \in old.gone THEN [eventRow[e] EXCEPT !.status = "CANCELLED"]
        ELSE eventRow[e]]
  BY DEF CancelRows
<1>6. /\ eventRow' \in [Events -> [status : RowStatus, actual : Figures]]
      /\ \A e \in Events : /\ e \in old.gone => eventRow'[e].status = "CANCELLED"
                           /\ e \notin old.gone => eventRow'[e] = eventRow[e]
  BY <1>4, <1>5 DEF RowStatus
<1>7. TableTyped'
  BY <1>3, <1>6 DEF CalendarHistory, TableTyped, providerVars, sourceVars
<1>8. /\ r.at = "mark" /\ r.source = old.source /\ r.alone = old.alone
      /\ r.got = old.got /\ r.gone = {} /\ ListedIn(r) = ListedIn(old)
  BY <1>1 DEF RunOf, ListedIn
<1>9. RunShape(r)
  BY <1>1 DEF RunShape, RunOf, Phases, ListedIn
<1> HIDE DEF r
<1>10. /\ DOMAIN old.got = Mine(old.source) /\ DOMAIN old.got \subseteq Events
       /\ ListedIn(old) \subseteq Events
  BY <1>1 DEF RunShape, Mine, ListedIn
<1>11. ASSUME r.alone PROVE CopyHolds(r, eventRow')
  <2>1. CopyHolds(old, eventRow)
    BY <1>1, <1>8, <1>11
  <2>2. \A e \in ListedIn(old) : Copied(old, e, eventRow')
    BY <1>1, <1>6, <1>10, <2>1 DEF CopyHolds, Copied
  <2>3. ListedIn(old) # {} => \A e \in (DOMAIN old.got) \ ListedIn(old) :
          eventRow'[e].status # "SCHEDULED"
    BY <1>1, <1>6, <1>10, <2>1 DEF CopyHolds
  <2> QED
    BY <1>8, <2>2, <2>3 DEF CopyHolds, Copied
<1>12. AlertHolds(r, eventRow', alerts')
  BY <1>8 DEF AlertHolds
<1>13. \A e \in Events : /\ eventRow[e].status # "none" => eventRow'[e].status # "none"
                         /\ alerts'[e] > 0 => eventRow'[e].status # "none"
  BY <1>3, <1>6 DEF CalendarHistory, AlertsHold
<1>14. \A e \in Events : SourceOf[e] # r.source =>
         eventRow'[e] = eventRow[e] /\ alerts'[e] = alerts[e]
  BY <1>1, <1>3, <1>6, <1>8 DEF RunShape, Mine
<1> QED
  BY <1>1, <1>2, <1>7, <1>8, <1>9, <1>11, <1>12, <1>13, <1>14, AtSource

LEMMA CalendarStep == CalendarHistory /\ [CalendarNext]_calendarVars => CalendarHistory'
<1> SUFFICES ASSUME CalendarHistory, [CalendarNext]_calendarVars PROVE CalendarHistory'
  OBVIOUS
<1>1. ASSUME NEW p \in Passes, MarkSuccess(p) \/ FailSource(p) PROVE CalendarHistory'
  <2>1. Running(p)
    BY <1>1, InRun DEF MarkSuccess, FailSource, At, Phases
  <2> QED
    BY <1>1, <2>1, EndSourceKeeps DEF MarkSuccess, FailSource
<1>2. ASSUME NEW p \in Passes, SourceStep(p) PROVE CalendarHistory'
  BY <1>1, <1>2, FetchKeeps, ReadExistingKeeps, UpdateRowKeeps, CreateRowsKeeps, AlertKeeps,
     ReadScheduledKeeps, CancelRowsKeeps DEF SourceStep
<1>3. CASE UNCHANGED calendarVars
  <2>1. TableTyped'
    BY <1>3 DEF CalendarHistory, TableTyped, calendarVars, providerVars, tableVars, sourceVars
  <2> QED
    BY <1>3, <2>1, NoPassMoves DEF calendarVars
<1> QED
  BY <1>1, <1>2, <1>3, ReadDueKeeps, ClaimKeeps, RunKeeps, RetrySoonerKeeps, DieKeeps,
     ProviderKeeps DEF CalendarNext

\* Inductive invariant of the calendar: while a pass is alone at its source, what it
\* fetched, compared and listed is still true of the rows it has yet to write.
THEOREM CalendarHistoryHolds == CalendarSpec => []CalendarHistory
  BY CalendarStart, CalendarStep, PTL DEF CalendarSpec

\* However passes claim, overtake one another, fail and die, every pass holds what is
\* its source's, and one that met no other at its source leaves the table as it was
\* listed: listed events with their status and figure, dropped ones not scheduled.
THEOREM CalendarCopies == CalendarSpec => []CalendarInv
<1>1. CalendarHistory => CalendarInv
  <2> SUFFICES ASSUME CalendarHistory PROVE CalendarInv
    OBVIOUS
  <2>1. ASSUME NEW p \in Passes, Running(p)
        PROVE  /\ pass[p].source \in Sources \ pass[p].rest
               /\ \A e \in pass[p].creates \cup pass[p].updates \cup pass[p].gone :
                    SourceOf[e] = pass[p].source
    BY <2>1, RunningShape DEF CalendarHistory, RunShape, Mine
  <2>2. CalendarTypeOK
    BY <2>1 DEF CalendarHistory, TableTyped, CalendarTypeOK
  <2>3. ASSUME NEW p \in Passes, At(p, "mark"), pass[p].alone
        PROVE  /\ \A e \in Listed(p) :
                    /\ eventRow[e].status = StatusOf(pass[p].got[e])
                    /\ pass[p].got[e] \in {0, eventRow[e].actual}
               /\ Listed(p) # {} => \A e \in (DOMAIN pass[p].got) \ Listed(p) :
                    eventRow[e].status # "SCHEDULED"
    BY <2>3, InRun DEF At, Phases, CopyHolds, Copied
  <2> QED
    BY <2>2, <2>3 DEF CalendarInv, LonePassCopies
<1> QED
  BY <1>1, CalendarHistoryHolds, PTL

\* An event is announced again only by a pass that met another at its source: the
\* alert of a pass that is alone is for rows that were not there when it wrote them.
THEOREM AlertsOverlap == CalendarSpec => AlertedTwiceNeedsOverlap
<1> DEFINE OnceAlone == \A e \in Events : alerts'[e] > 1 /\ alerts'[e] > alerts[e] =>
             \E p \in Passes : At(p, "alert") /\ ~pass[p].alone
<1>1. ASSUME CalendarHistory, NEW p \in Passes, Alert(p)
      PROVE  OnceAlone
  <2> SUFFICES ASSUME NEW e \in Events, alerts'[e] > 1, alerts'[e] > alerts[e]
               PROVE  ~pass[p].alone
    BY <1>1 DEF Alert
  <2>1. alerts[e] \in Nat
    BY <1>1, CalendarAssumption DEF CalendarHistory, TableTyped
  <2>2. e \in pass[p].creates /\ alerts'[e] = alerts[e] + 1
    BY <1>1, <2>1 DEF Alert
  <2>3. alerts[e] # 0
    BY <2>1, <2>2
  <2>4. AlertHolds(pass[p], eventRow, alerts) /\ pass[p].at = "alert"
    BY <1>1, InRun DEF Alert, At, Phases
  <2> QED
    BY <2>2, <2>3, <2>4 DEF AlertHolds
<1>2. ASSUME CalendarHistory, UNCHANGED alerts PROVE OnceAlone
  BY <1>2, CalendarAssumption DEF CalendarHistory, TableTyped
<1>3. CalendarHistory /\ [CalendarNext]_calendarVars => OnceAlone \/ UNCHANGED calendarVars
  <2> SUFFICES ASSUME CalendarHistory, CalendarNext, ~UNCHANGED alerts
               PROVE  \E p \in Passes : Alert(p)
    BY <1>1, <1>2
  <2> QED
    BY DEF CalendarNext, ReadDue, Claim, Run, SourceStep, RetrySooner, FailSource, Die,
           Publish, Age, Fetch, ReadExisting, UpdateRow, CreateRows, ReadScheduled,
           CancelRows, MarkSuccess, tableVars
<1>4. CalendarSpec => [][OnceAlone]_calendarVars
  BY <1>3, CalendarHistoryHolds, PTL DEF CalendarSpec
<1> QED
  BY <1>4 DEF AlertedTwiceNeedsOverlap
=============================================================================
