--------------------------- MODULE ProductWizard ----------------------------
(***************************************************************************)
(* The page a seller lists a product with                                  *)
(* (components/seller/product-wizard.tsx), and the server's row of the     *)
(* product as far as the page writes it.                                   *)
(*                                                                         *)
(* Of the steps, those before "Description" are one step "basics", and     *)
(* "Screenshots" and "Files" are left out (see ProductAssets).  What is    *)
(* entered is a version number per group of fields.  A call to the server  *)
(* answers once it is applied, or throws in the page.  A call that threw   *)
(* was refused, or its answer was lost: the server may still be at work on *)
(* it, and applies it at any later time (a Late action), or never.         *)
(***************************************************************************)
EXTENDS Naturals, Sequences

CONSTANTS
  MaxEdits,    \* bounds on the versions of each group of fields
  MaxCovers,   \* bound on the cover photos chosen
  MaxQueue,    \* bound on the updates queued
  MaxFaults    \* bound on the calls that lose their answer

ASSUME WizardAssumption ==
  /\ MaxEdits \in [{"basics", "pricing", "compatibility"} -> Nat]
  /\ {MaxCovers, MaxQueue, MaxFaults} \subseteq Nat

VARIABLES
  step, busy,
  problem,       \* pricingProblem # null
  entered,       \* data, per group of fields
  product,       \* does the page have a productId?
  saves,         \* pendingSaves: the queued draft updates
  sent,          \* the last version of each group that was handed over
  failure,       \* saveFailure # null
  finishing,     \* finish(): "no", "waits", "submits", "done"
  warned,        \* was a failed save reported to the seller?
  cover, coverState, upload, \* chosen photo, its state, uploads in flight
  drafts, stored, inReview,  \* the server: rows made, the row, its status
  storedCover,
  faults,
  lateDrafts, lateCovers, lateSaves, lateSubmit, \* calls whose answer was lost
  storedLate     \* history: was storedCover applied after the page saw it fail?

wizardVars == <<step, busy, problem, entered, product, saves, sent, failure,
                finishing, warned, cover, coverState, upload, drafts, stored,
                inReview, storedCover, faults, lateDrafts, lateCovers, lateSaves,
                lateSubmit, storedLate>>

formVars  == <<entered, problem>>
savesVars == <<saves, sent, failure>>
photoVars == <<cover, coverState, upload, storedCover, storedLate>>
productVars   == <<drafts, stored, inReview>>
lateVars  == <<faults, lateDrafts, lateCovers, lateSaves, lateSubmit>>
\* What the page keeps, but for the photo.
wizardPage  == <<step, busy, formVars, product, savesVars, finishing, warned>>

Steps == <<"basics", "description", "pricing", "compatibility", "submit">>
Groups == {"basics", "pricing", "compatibility"}
OnStep(s) == Steps[step] = s

\* Versions of the pricing come in pairs: the even ones are amounts the server
\* refuses (an offer price above the market price).
Valid(group, v) == group = "pricing" => v % 2 = 1 \/ v = 0

WizardTypeOK ==
  /\ step \in DOMAIN Steps /\ busy \in BOOLEAN /\ problem \in BOOLEAN
  /\ entered \in [Groups -> Nat] /\ sent \in [Groups -> Nat]
  /\ stored \in [Groups -> Nat]
  /\ saves \in Seq({"pricing", "compatibility"} \X Nat)
  /\ {product, failure, warned, inReview} \subseteq BOOLEAN
  /\ finishing \in {"no", "waits", "submits", "done"}
  /\ finishing # "no" => busy
  /\ coverState \in {"idle", "uploading", "saved", "failed"}
  /\ {cover, storedCover, drafts, faults, lateDrafts} \subseteq Nat
  /\ upload \subseteq Nat
  /\ lateCovers \subseteq Nat \X Nat
  /\ lateSaves \subseteq Nat \X ({"pricing", "compatibility"} \X Nat)
  /\ {lateSubmit, storedLate} \subseteq BOOLEAN

WizardInit ==
  /\ step = 1 /\ busy = FALSE /\ problem = FALSE
  /\ entered = [g \in Groups |-> 0] /\ sent = [g \in Groups |-> 0]
  /\ stored = [g \in Groups |-> 0]
  /\ product = FALSE /\ saves = <<>> /\ failure = FALSE
  /\ finishing = "no" /\ warned = FALSE
  /\ cover = 0 /\ coverState = "idle" /\ upload = {} /\ storedCover = 0
  /\ drafts = 0 /\ inReview = FALSE
  /\ faults = 0 /\ lateDrafts = 0 /\ lateCovers = {} /\ lateSaves = {}
  /\ lateSubmit = FALSE /\ storedLate = FALSE

\* The answer of a call is lost.  Lost calls are told apart by their number.
Lose == faults < MaxFaults /\ faults' = faults + 1
-----------------------------------------------------------------------------
(* What the seller enters; the fields stay enabled while the page waits.   *)

Enter(g) ==
  /\ OnStep(g) \/ (g = "basics" /\ OnStep("description"))
  /\ entered[g] < MaxEdits[g]
  /\ entered' = [entered EXCEPT ![g] = @ + 1]
  /\ problem' = (IF g = "pricing" THEN ~Valid(g, entered[g] + 1) ELSE problem)
  /\ UNCHANGED <<step, busy, product, savesVars, finishing, warned, photoVars,
                 productVars, lateVars>>

\* saveCover: one upload at a time, for the picker is disabled meanwhile.
BeginUpload(photo) == upload' = upload \cup {photo} /\ coverState' = "uploading"

\* Mutant: the picker stays enabled during an upload.
PickerAlways == TRUE

PickerEnabled == coverState # "uploading"

\* chooseCover: kept until the draft exists, uploaded at once after that.
ChooseCover ==
  /\ OnStep("basics") /\ PickerEnabled /\ cover < MaxCovers
  /\ cover' = cover + 1
  /\ IF product THEN BeginUpload(cover + 1)
                ELSE coverState' = "idle" /\ UNCHANGED upload
  /\ UNCHANGED <<wizardPage, productVars, storedCover, storedLate, lateVars>>

RetryCover ==
  /\ OnStep("submit") /\ coverState = "failed"
  /\ BeginUpload(cover)
  /\ UNCHANGED <<wizardPage, productVars, cover, storedCover, storedLate, lateVars>>

\* setCoverImage replaces whatever cover is stored.
UploadCover(photo, answered) ==
  /\ photo \in upload
  /\ IF answered
     THEN /\ coverState' = "saved"
          /\ storedCover' = photo /\ storedLate' = FALSE
          /\ UNCHANGED <<faults, lateCovers>>
     ELSE /\ coverState' = "failed"
          /\ Lose /\ lateCovers' = lateCovers \cup {<<faults, photo>>}
          /\ UNCHANGED <<storedCover, storedLate>>
  /\ upload' = upload \ {photo}
  /\ UNCHANGED <<wizardPage, productVars, cover, lateDrafts, lateSaves, lateSubmit>>

LateCover(call) ==
  /\ storedCover' = call[2] /\ storedLate' = TRUE
  /\ lateCovers' = lateCovers \ {call}
  /\ UNCHANGED <<wizardPage, productVars, cover, coverState, upload, faults,
                 lateDrafts, lateSaves, lateSubmit>>
-----------------------------------------------------------------------------
(* next() and back().                                                      *)

NeedsDraft == OnStep("description") /\ ~product

\* The page waits for createProductFromDataAction ...
Create ==
  /\ NeedsDraft /\ ~busy
  /\ busy' = TRUE
  /\ sent' = [sent EXCEPT !["basics"] = entered["basics"]]
  /\ UNCHANGED <<step, formVars, product, saves, failure, finishing, warned,
                 photoVars, productVars, lateVars>>

\* ... which stores the basics, and a price of zero.
Created(answered) ==
  /\ OnStep("description") /\ busy
  /\ busy' = FALSE
  /\ IF answered
     THEN /\ drafts' = drafts + 1
          /\ stored' = [g \in Groups |-> IF g = "basics" THEN sent[g] ELSE 0]
          /\ product' = TRUE /\ step' = step + 1 /\ problem' = FALSE
          /\ IF cover # 0 THEN BeginUpload(cover) ELSE UNCHANGED <<coverState, upload>>
          /\ UNCHANGED <<faults, lateDrafts>>
     ELSE /\ Lose /\ lateDrafts' = lateDrafts + 1
          /\ UNCHANGED <<drafts, stored, product, step, problem, coverState, upload>>
  /\ UNCHANGED <<entered, savesVars, finishing, warned, cover, storedCover,
                 storedLate, inReview, lateCovers, lateSaves, lateSubmit>>

\* A draft the page knows nothing of.
LateDraft ==
  /\ lateDrafts > 0
  /\ drafts' = drafts + 1 /\ lateDrafts' = lateDrafts - 1
  /\ UNCHANGED <<wizardPage, photoVars, stored, inReview, faults, lateCovers,
                 lateSaves, lateSubmit>>

\* saveInBackground
Save(g) ==
  /\ saves' = Append(saves, <<g, entered[g]>>)
  /\ sent' = [sent EXCEPT ![g] = entered[g]]

\* "Next" on every other step: pricing and compatibility are queued.
GoOn ==
  /\ ~busy /\ step < Len(Steps)
  /\ ~NeedsDraft
  /\ ~(OnStep("pricing") /\ problem)
  /\ IF product /\ Steps[step] \in {"pricing", "compatibility"}
     THEN Len(saves) < MaxQueue /\ Save(Steps[step])
     ELSE UNCHANGED <<saves, sent>>
  /\ step' = step + 1 /\ problem' = FALSE
  /\ UNCHANGED <<busy, entered, product, failure, finishing, warned, photoVars,
                 productVars, lateVars>>

Back ==
  /\ ~busy /\ step > 1
  /\ step' = step - 1 /\ problem' = FALSE
  /\ UNCHANGED <<busy, entered, product, savesVars, finishing, warned,
                 photoVars, productVars, lateVars>>

\* The oldest queued update; the next one waits for its end.
SaveEnds(answered) ==
  /\ saves # <<>>
  /\ LET g == Head(saves)[1]
         v == Head(saves)[2]
     IN  \/ /\ Valid(g, v) /\ answered
            /\ stored' = [stored EXCEPT ![g] = v]
            /\ UNCHANGED <<faults, lateSaves>>
         \/ /\ Valid(g, v) /\ ~answered
            /\ Lose /\ lateSaves' = lateSaves \cup {<<faults, Head(saves)>>}
            /\ UNCHANGED stored
         \/ ~Valid(g, v) /\ ~answered /\ UNCHANGED <<stored, faults, lateSaves>>
  /\ failure' = (failure \/ ~answered)
  /\ saves' = Tail(saves)
  /\ UNCHANGED <<step, busy, formVars, product, sent, finishing, warned,
                 photoVars, drafts, inReview, lateDrafts, lateCovers, lateSubmit>>

LateSave(call) ==
  /\ stored' = [stored EXCEPT ![call[2][1]] = call[2][2]]
  /\ lateSaves' = lateSaves \ {call}
  /\ UNCHANGED <<wizardPage, photoVars, drafts, inReview, faults, lateDrafts,
                 lateCovers, lateSubmit>>
-----------------------------------------------------------------------------
(* finish().                                                               *)

Finish ==
  /\ OnStep("submit") /\ product /\ ~busy
  /\ busy' = TRUE /\ finishing' = "waits"
  /\ UNCHANGED <<step, formVars, product, savesVars, warned, photoVars,
                 productVars, lateVars>>

\* Mutant: submission does not wait for the queued updates.
WaitsForNothing == TRUE

SavesSettled == saves = <<>>

\* A failure of any of them is reported, and forgotten; else the product is
\* submitted.
Settled ==
  /\ finishing = "waits" /\ SavesSettled
  /\ IF failure
     THEN busy' = FALSE /\ finishing' = "no" /\ warned' = TRUE
     ELSE finishing' = "submits" /\ UNCHANGED <<busy, warned>>
  /\ failure' = FALSE
  /\ UNCHANGED <<step, formVars, product, saves, sent, photoVars, productVars,
                 lateVars>>

\* Submitted, the page stays disabled until the seller leaves it.
AfterSubmit(ok) ==
  busy' = ok /\ finishing' = (IF ok THEN "done" ELSE "no")

\* submitForReviewAction, which refuses a product that is in review.
Submitted(answered) ==
  /\ finishing = "submits"
  /\ \/ ~inReview /\ answered /\ inReview' = TRUE /\ UNCHANGED <<faults, lateSubmit>>
     \/ ~inReview /\ ~answered /\ Lose /\ lateSubmit' = TRUE /\ UNCHANGED inReview
     \/ inReview /\ ~answered /\ UNCHANGED <<inReview, faults, lateSubmit>>
  /\ AfterSubmit(answered)
  /\ UNCHANGED <<step, formVars, product, savesVars, warned, photoVars,
                 drafts, stored, lateDrafts, lateCovers, lateSaves>>

LateSubmit ==
  /\ lateSubmit /\ ~inReview
  /\ inReview' = TRUE /\ lateSubmit' = FALSE
  /\ UNCHANGED <<wizardPage, photoVars, drafts, stored, faults, lateDrafts,
                 lateCovers, lateSaves>>

WizardNext ==
  \/ \E g \in Groups : Enter(g)
  \/ ChooseCover \/ RetryCover \/ Create \/ GoOn \/ Back \/ Finish \/ Settled
  \/ \E answered \in BOOLEAN :
       \/ \E photo \in upload : UploadCover(photo, answered)
       \/ Created(answered) \/ SaveEnds(answered) \/ Submitted(answered)
  \/ \E call \in lateCovers : LateCover(call)
  \/ \E call \in lateSaves : LateSave(call)
  \/ LateDraft \/ LateSubmit

WizardSpec == WizardInit /\ [][WizardNext]_wizardVars
-----------------------------------------------------------------------------
(* Properties.                                                             *)

\* "Submit waits for them (and for any failure)": a product goes to review
\* with the pricing and notes the seller left those steps with, unless the
\* seller was told that a save had failed, or it goes there by a submission the
\* page had reported as failed, while the seller was free to edit on.
SubmittedSavedOrWarned ==
  [][~inReview /\ inReview' =>
       \/ lateSubmit /\ ~lateSubmit'
       \/ \A g \in {"pricing", "compatibility"} :
            stored[g] = entered[g] \/ warned]_wizardVars

\* Leaving "Description" again after going back makes no second draft; only a
\* creation whose answer was lost leaves one behind, then or later.
OneDraft == drafts <= 1 + faults /\ (product => drafts > 0)

\* Under "Cover photo saved." the product has the photo in the preview, until
\* an upload the page had reported as failed is applied after all: the page
\* cannot know of that one, and goes on saying so.
CoverAsShown == coverState = "saved" => storedCover = cover \/ storedLate

\* The page and the server's rows agree in every state.
WizardInv == WizardTypeOK /\ OneDraft /\ CoverAsShown

-----------------------------------------------------------------------------
(* A sentence of the page that its behaviour contradicts.                  *)

\* "Ready to submit <name> for review": the basics that the page shows are
\* those of the product, unless an answer was lost.
SubmittedAsShown ==
  finishing = "submits" /\ faults = 0 => stored["basics"] = entered["basics"]
=============================================================================
