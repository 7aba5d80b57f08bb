------------------------------ MODULE Listings ------------------------------
(***************************************************************************)
(* One listing between its seller and the moderators:                      *)
(* server/services/product-service.ts, admin/product-moderation-service.ts *)
(* and admin/listing-admin-service.ts.                                     *)
(*                                                                         *)
(* The content is what the Product row says, as a version number: every    *)
(* edit of the seller that reaches the row makes a new one.  Cover and     *)
(* files are rows of their own (ProductAssets), which the seller replaces  *)
(* in any status and which no review looks at again.  Reasons, audit       *)
(* entries, mails, prices and the hard deletion of an unsold listing are   *)
(* left out.                                                               *)
(***************************************************************************)
EXTENDS Naturals

CONSTANTS
  Edits,      \* calls of updateOwnProduct
  Restorers   \* calls of transitionListing(restore)

VARIABLES
  listing,      \* Product.status
  everPublished,\* Product.publishedAt is set
  content,      \* version of the row's content
  reviewed,     \* versions that were in the row when it was approved
  reader        \* what each edit and each restoration read

listingVars == <<listing, everPublished, content, reviewed, reader>>

ListingCalls == Edits \cup Restorers
ListingStatus == {"DRAFT", "PENDING_REVIEW", "UNDER_REVIEW", "PUBLISHED",
                  "REJECTED", "SUSPENDED", "ARCHIVED"}
Reviewable == {"PENDING_REVIEW", "UNDER_REVIEW"}
TakenDown  == {"SUSPENDED", "ARCHIVED"}
PublishedAt == {"set", "null"}

ASSUME ListingsAssumption == Edits \cap Restorers = {}

ListingTypeOK ==
  /\ listing \in ListingStatus
  /\ everPublished \in BOOLEAN
  /\ listing \in {"PUBLISHED", "SUSPENDED"} => everPublished
  /\ content \in Nat /\ reviewed \subseteq Nat
  /\ reader \in [ListingCalls -> ListingStatus \cup PublishedAt \cup {"unread", "done"}]

ListingsInit ==
  /\ listing = "DRAFT" /\ everPublished = FALSE
  /\ content = 0 /\ reviewed = {}
  /\ reader = [c \in ListingCalls |-> "unread"]

EndCall(c) == reader' = [reader EXCEPT ![c] = "done"]
-----------------------------------------------------------------------------
(* The seller.                                                             *)

\* updateOwnProduct reads the status ...
ReadForEdit(e) ==
  /\ reader[e] = "unread"
  /\ reader' = [reader EXCEPT ![e] = listing]
  /\ UNCHANGED <<listing, everPublished, content, reviewed>>

\* Mutant: only an edit of a rejected listing sends it back.
ResetsRejectedOnly(seen) == seen = "REJECTED"

\* resetsReview
ResetsReview(seen) == seen \in {"PUBLISHED", "REJECTED"}

\* ... and writes the edit, whatever the status has become.
Edit(e) ==
  /\ reader[e] \in ListingStatus
  /\ content' = content + 1
  /\ listing' = IF ResetsReview(reader[e]) THEN "PENDING_REVIEW" ELSE listing
  /\ EndCall(e)
  /\ UNCHANGED <<everPublished, reviewed>>

Submittable == listing \in {"DRAFT", "REJECTED"}

\* submitProductForReview, one conditional update.
SubmitForReview ==
  /\ Submittable
  /\ listing' = "PENDING_REVIEW"
  /\ UNCHANGED <<everPublished, content, reviewed, reader>>
-----------------------------------------------------------------------------
(* The moderators; each decision is one conditional update.                *)

Decide(from, to) ==
  /\ listing \in from
  /\ listing' = to
  /\ UNCHANGED <<everPublished, content, reviewed, reader>>

ClaimForReview == Decide({"PENDING_REVIEW"}, "UNDER_REVIEW")
RejectProduct  == Decide(Reviewable, "REJECTED")

SuspendProduct == Decide({"PUBLISHED"}, "SUSPENDED")
Unpublish      == Decide({"PUBLISHED"}, "DRAFT")
Remove         == Decide(ListingStatus \ {"ARCHIVED"}, "ARCHIVED")

ApproveProduct ==
  /\ listing \in Reviewable
  /\ listing' = "PUBLISHED"
  /\ everPublished' = TRUE
  /\ reviewed' = reviewed \cup {content}
  /\ UNCHANGED <<content, reader>>

\* transitionListing(restore) reads publishedAt before it writes.
ReadPublishedAt(c) ==
  /\ reader[c] = "unread"
  /\ reader' = [reader EXCEPT ![c] =
       IF everPublished THEN "set" ELSE "null"]
  /\ UNCHANGED <<listing, everPublished, content, reviewed>>

\* Mutant: a restored listing goes live whether it was ever approved or not.
RestoredToMarket(publishedAt) == "PUBLISHED"

\* "A restored listing that was never published goes back through review."
RestoredTo(publishedAt) ==
  IF publishedAt = "set" THEN "PUBLISHED" ELSE "PENDING_REVIEW"

Restore(c) ==
  /\ reader[c] \in PublishedAt
  /\ listing \in TakenDown
  /\ listing' = RestoredTo(reader[c])
  /\ EndCall(c)
  /\ UNCHANGED <<everPublished, content, reviewed>>

-----------------------------------------------------------------------------
ListingsNext ==
  \/ \E e \in Edits : ReadForEdit(e) \/ Edit(e)
  \/ SubmitForReview
  \/ ClaimForReview \/ RejectProduct \/ ApproveProduct
  \/ SuspendProduct \/ Unpublish \/ Remove
  \/ \E c \in Restorers : ReadPublishedAt(c) \/ Restore(c)

ListingsSpec == ListingsInit /\ [][ListingsNext]_listingVars
-----------------------------------------------------------------------------
(* Properties.                                                             *)

Live == listing = "PUBLISHED"
LiveUnreviewed == Live /\ content \notin reviewed

\* A first publication is an approval: no listing reaches the marketplace
\* that no moderator approved, however removals, restorations, edits and
\* submissions follow each other.
NeverLiveUnapproved == Live => everPublished /\ reviewed # {}

\* The status fits the history: well typed, and approved before it is live.
ListingInv == ListingTypeOK /\ NeverLiveUnapproved

Restored(c) == reader'[c] = "done" /\ reader[c] # "done"
Edited(e)   == reader'[e] = "done" /\ reader[e] # "done"

\* What the row of a live listing says was approved, with two exceptions: an
\* edit that read the row before it was approved and reached it afterwards,
\* and an edit of a listing that was taken down and restored.
UnreviewedOnlyBehindReview ==
  ~LiveUnreviewed /\ LiveUnreviewed' =>
    \/ \E e \in Edits : Edited(e) /\ reader[e] # listing /\ Live
    \/ \E c \in Restorers : Restored(c) /\ reader[c] = "set"

\* A listing that a moderator took down comes back by a moderator, unless an
\* edit that read it before is written over the decision.
TakenDownStaysDown ==
  listing \in TakenDown /\ listing' \notin TakenDown =>
    \/ \E c \in Restorers : Restored(c)
    \/ \E e \in Edits : Edited(e) /\ reader[e] \notin TakenDown

\* No step undoes what the moderators decided, but for those stale edits.
DecisionsHold ==
  [][UnreviewedOnlyBehindReview /\ TakenDownStaysDown]_listingVars

-----------------------------------------------------------------------------
(* A sentence of the code that its behaviour contradicts.                  *)

\* "A published listing must go back through review after material edits."
EditSendsBack ==
  [][content' # content /\ Live => listing' = "PENDING_REVIEW"]_listingVars
=============================================================================
