# FXBotHub: TLA+ models, model checking and proofs

FXBotHub is a marketplace for trading robots, signals and market information:
a Next.js application on Postgres (through Prisma), with background workers
(BullMQ) and an optional Redis. These modules describe the parts of it whose
correctness depends on the order in which concurrent requests, webhook
deliveries, administrators, workers, sockets and browser pages act on state they
share: mostly the database, in places a cache, a socket, a cookie or a form.

Paths below are relative to `src/src/` unless they start with `prisma/`.

## What one step is

Every server action and route handler is a sequence of awaited database
calls. Postgres runs at READ COMMITTED, so between two awaited calls any other
request may run. The models follow that grain:

- an awaited call outside a `$transaction` is one action;
- a `$transaction` is one action, its conditional `updateMany` being the atomic
  test. The exceptions are transactions whose first read another open
  transaction can make stale: in PartnerCommissions (a change of one row and a
  sum over others), AdminAccounts (grants counted before one is deleted),
  Community (a mark read before it is toggled) and ProductAssets (covers deleted
  before one is inserted) they are several actions, in between which the rows
  that were written stay locked;
- in one process (`MarketStream`, `PublicCache`) and in a page (`ProductWizard`,
  `ProductAssets`) a step is one turn of the event loop;
- what a handler read earlier is kept in its own variable and may be stale;
- a crash, or an awaited call that throws, is an action that may happen between
  any two steps of a handler (`RequestDies`, `HookDies`, `AdminDies`, `Throw`,
  `CutShort`, `Die`, `CallFails`, `ServerFails`).

Audit rows, notifications, e-mails and analytics are left out: nothing reads
them to decide anything. The payment provider and the clients are external:
modelled from what the code in `lib/payments/` and the handlers accept of them.

Rows are named by the request that creates them (an order by its checkout, a
refund or payout row by its request, a renewal order by its idempotency key).
That keeps every table a function with a fixed domain; "none" is a row that does
not exist.

## Inventory

### Modelled

**Checkout and settlement** (`features/checkout/checkout-service.ts`,
`lib/payments/payment-service.ts`, `app/api/payments/webhook/route.ts`, cart).
State: cart, orders and their status, the provider's charge, payment rows, event
rows (unique by provider event id), ledger entries, invoices, licences and
subscriptions. A checkout looks its idempotency key up, reads cart and
possessions, creates the order, charges it, records the payment, and then
completes the order, fails it or leaves it pending. Webhooks do the rest.
Hard: the reply and up to three events of one charge race for one order; a
retry of a request overlaps the first; the event may be earlier than the payment
row; anything may die in between. Correct when an order is settled once, only
for captured money, atomically with what it grants; when a retry has no second
effect; when FAILED is only ever reported, never guessed.

**Refunds** (`features/refunds/refund-service.ts`). State: refund rows, REFUND
entries. Approval awaits the provider between its check and its transaction,
and marks invoices on another connection. Correct when a refund debits what its
own sale credited, revokes only what its own order granted, and is final.

**Seller ledger and payouts** (`features/payouts/payout-service.ts`). State:
ledger balance, payout rows. A request reads balance and payout in progress
separately; an administrator's transition is checked before the transaction.
Correct when the status of a payout and its ledger entry agree, and a seller is
never paid more than was credited.

**Licences and activations** (`features/licenses/license-service.ts`, the admin
licence screen). State: licence status, one activation row per machine. Count
and insert are two statements. Correct when active machines stay within
`maxActivations`, or exceed it by a known bound.

**Partner commissions and payouts** (`features/partnership/commission-service.ts`
and `payout-service.ts`). State: commissions with status and payout, payouts
with status and amount. Creation, release after the holding period, early
approval, rejection, reversal after a refund or chargeback, payout request,
approval, rejection and payment, each split by a read before its write.
Correct when nothing is paid twice, what a payout amounts to covers every commission
it holds, what was paid stays paid, and nothing of a refunded order becomes payable.

**Attribution** (`features/partnership/attribution-service.ts`,
`decideRegistrationAttribution` and `decideOrderReferral` of
`lib/partnership/rules.ts`). State: the browser's cookie, the account's owner, the
order's credit, which Partners are active. Owner and credit are each decided from
one read and inserted in a later step, behind unique indexes. Correct when the owner
keeps the account's orders, and nobody is credited for their own.

**Commissions of one order** (`createCommissionsForOrder`, `planOrderCommissions`).
State: profiles, recruiters, rates, the order's rows. A call reads the order with its
Partner and recruiter, then the settings, then inserts; it may be made again, later or
at the same time. Correct when the order has one row of either tier at most, within
the rates, and nobody earns on their own purchase.

**Subscriptions and renewals** (`services/subscriptions/renewal-service.ts`, the
queue worker, the buyer's actions). State: subscription, its period and
cancellation, one order per subscription and period end, charges. Two workers
may run at once, any step may throw, and a failed run is retried from its start.
Correct when a period is charged at most once, captured money extends the
subscription, and nothing stays ACTIVE past its period, but for the losses that
the properties name.

**Partner applications** (`features/partnership/partner-service.ts`,
`admin-account-service.ts`). State: each profile's two statuses, codes, recruiter
and its confirmation. An approval is a conditional update followed by a code, a
read of the recruiter and a confirmation, all awaited one by one from a row read
before. Correct when an approved Partner has what approval promises, a confirmed
recruiter stays, and nobody is, over any number of steps, their own recruiter.

**Signal subscriptions** (`features/signals/subscription-service.ts`). State: one
row per provider and member, charges. Subscribe checks, charges and writes; cancel,
pause and resume are single updates. Correct when ACTIVE was paid for, and paid
once unless two calls overlap.

**Market data stream** (`lib/market-data/`). State: reference counts per bar
subscription and per symbol, the sockets with what each was asked for, the
reconnect timer. The last viewer closes the socket, whose `close` event comes in a
later turn and acts on whatever socket is current by then. Correct when the
connection in use carries what is watched, and a watched symbol is carried again.

**Cache** (`lib/cache.ts`) with the rating summary and the writers of other keys.
State: entry, load in flight, waiting readers, rows. Correct when staleness is
bounded although an old load may store its value after an invalidation.

**Calendar synchronisation** (`services/calendar/`). State: event rows, the age of
each source's last pass, passes. Page views and the cron claim sources, the worker
does not; a pass then runs every enabled source. Correct when a pass that met no
other leaves the table as the provider listed it and an event is announced once.

**Event reminders** (`features/alerts/`, the reminder worker). State: the event, the
member's alert row, one delayed job per alert. Nothing changes a job when the event
moves, and only what the job reads when it runs stops it. Correct when a member who
subscribed in time is reminded, once, and not early, but for the moves, repeats and
refusals that the properties name.

**News synchronisation** (`services/news/sync-service.ts`, `dispatchNewsAlert`).
State: the provider's list, article rows, jobs, announcements under way. Jobs overlap
and nothing claims the source. Correct when a job passes no article over, slugs are
distinct, and an article is announced once unless two jobs saw no row for it.

**Rate limiting** (`lib/security/rate-limit.ts`). State: one Redis counter, its
expiry, commands whose callers no longer wait. Correct when a window admits at most
the limit and every counted key expires.

**Staff and roles** (`features/admin/`, `lib/admin/rules.ts`). State: roles,
suspension, admin role grants. Role changes are serializable, grants and
revocations are not. Correct when a Super Administrator remains and staff rank goes
with the last grant, but for the races the properties name.

**View as user** (`features/admin/impersonation-*.ts`, the `jwt` callback of
`lib/auth.ts`). State: session rows, the browser's cookie, requests under way.
Correct when no page runs as the member once the session ended before the
request was sent, although old responses restore old cookies.

**Community** (`features/community/`). State: a post, its comments and threads,
marks, denormalised counters. Correct when counters follow rows and threads hold.

**Listings and moderation** (`server/services/product-service.ts`,
`features/admin/product-moderation-service.ts`, `listing-admin-service.ts`). State:
status, version of the row's content, what was reviewed. Correct when what the row of a
live listing says was approved and what was taken down stays down, but for stale edits.
Cover and files are rows of their own: the seller replaces them in any status
(`asset-service.ts:15-21` checks none), so of these nothing is claimed.

**Uploads and cover** (`components/seller/file-dropzone.tsx`,
`features/seller/upload-client.ts`, `asset-service.ts`). State: the page's queue,
objects in storage, file and cover rows. Correct when what a page shows as uploaded
can be downloaded, in order, and a cover row never points at a deleted object.

**Product wizard** (`components/seller/product-wizard.tsx`). State: step, what is
entered, the chain of background saves and its failure, the draft, the cover, and the
calls whose answer was lost while the server goes on: it may apply them late.
Correct when what is submitted is what was entered, or the seller was warned.

Interaction: Refunds extends Orders (same orders, payments and licences).
Licences, commissions and renewals see checkout and refunds only through the row
they change (`RefundRevokes`, `PayOrder`/`ProcessRefund`, `Buy`/`RefundCancels`);
seller payouts see sales as credits to the balance. Orders sees a listing only as
available or not (`ToggleListing`), which stands for everything Listings does. The
wizard and the upload control write the rows that Listings reviews. PublicCache sees
its writers as two steps, write and invalidation, in either order. Attribution ends in
the credit that Earnings starts from, Earnings in the rows that PartnerCommissions
releases, reverses and pays; each takes the others' effect on it as a step anybody may
take (`ToggleActive`, `SetRates`, `OrderBecomes`). EventReminders sees CalendarSync as
`MoveEvent`. The others share no state with one another.

### Not modelled

- Clicks on referral links and payout methods: counted or stored, never read to decide.
- The Redis tier of the cache (entries only expire), aggregation of ticks to bars.
- Notifications and e-mail but for those of events and news: fire and forget; nothing
  reads them back.
- Market-data synchronisation: upserts by symbol and time.
- Sign-in and password reset: a library's behaviour behind configuration. Only the
  part of the session callback about viewing as a member is modelled.
- Creation of signals, reports, restrictions, categories, edits of community texts,
  profile edits by administrators, featuring and hard deletion: single updates.
- Search, ranking, discounts and quality scores: pure functions of one row that the
  unit tests cover. Brokers, VPS, favourites and analytics: single rows.
- Pages and components that render, which is most of the code by lines; those with
  state across server actions are modelled.

## Modules

| Module | Models | State and actions |
|---|---|---|
| `Settlement` | the abstract promise of checkout | `Place`, `Capture`, `Settle` over placed, captured, credited and granted |
| `Orders` | checkout, payments, webhook | per request `LookUpKey, ReadCart, ReadOwned, CreateOrder, CreateCharge, RecordPayment, SettleNow, FailNow, RequestDies`; per event `ClaimEvent, MatchPayment, ApplyEvent, AcknowledgeDuplicate, HookDies`; provider and shop steps |
| `Refunds` | refunds, EXTENDS `Orders` | `AskRefund, CheckExisting, CreateRefund`; `OpenRefund, Reject, CheckPayment, ReturnMoney, MarkInvoices, RecordRefund, AdminDies` |
| `SellerPayouts` | seller payouts | `ReadBalance, ReadInProgress, CreatePayout`; `OpenPayout, UpdatePayout, AdminDies`; `Sell` |
| `LicenseActivations` | one licence | `StartActivation, CreateActivation, StartDeactivation, CloseActivation`; `OpenScreen, SetLicenseStatus`; `RefundRevokes` |
| `PartnerCommissions` | one Partner's ledger in one currency | creation, release, approval, rejection, reversal and payouts, each as read and write (`SumPayout` before `MarkPaid`); `Commit`/`Abort` of the two-step transactions |
| `PartnerApplications` | profiles and recruitment | `ReadApplication, Apply, ApplyAsMaster`; `ReadProfile, Decide, AssignCode, ReadRecruiter, ConfirmRecruiter, CutShort`; `CreateAccount, UndoCreation`; `DecideMaster, AssignMasterCode` |
| `Attribution` | from a referral link to an order's credit | `FollowLink, CreateUser, DecideOwner, InsertOwner`; `PlaceOrder, ReadReferral, RecordReferral`; `ToggleActive, DayPasses` |
| `Earnings` | the rows one credited order earns | `ReadCredited, PlanEarnings, InsertEarnings`; `SetApproved, SetMaster, Recruited, SetRates, OrderBecomes` |
| `Renewals` | renewal job and subscriptions | `Start, FindDue, Expire, LookUp, CreateOrder, Charge, RecordPayment, Renew, FailOrder, FailSubscription, Finish, Throw`; per event `ClaimEvent, MatchPayment, ApplyEvent, HookDies`; buyer, provider and clock |
| `SignalSubscriptions` | a member's signal subscriptions | `ReadSubscription, Charge, Activate, Lost`; `Cancel, Pause, Resume` |
| `MarketStream` | the shared socket | `Watch, Leave`; `Opened, Closed, Reconnect`, with `EnsureConnected`, `Send`, `Disconnect` inside them |
| `PublicCache` | one cached key | readers `ServeFresh, ServeStale, Wait`; loads `ReadRows, StoreValue, LoadFails, Evict`; writers `Step` |
| `CalendarSync` | passes over sources | `ReadDue, Claim, Run`; per source `Fetch, ReadExisting, UpdateRow, CreateRows, Alert, ReadScheduled, CancelRows, MarkSuccess, FailSource`; `RetrySooner, Die`; provider `Publish`, clock `Age` |
| `EventReminders` | one member's alert for one event | `UpsertAlert, ReadEvent, AddReminder, AddFails, Unsubscribe`; `StartReminder, Notify, ReminderFails, ForgetReminder`; `MoveEvent, DeleteEvent, HourPasses` |
| `NewsSync` | jobs over a provider's articles | `FetchArticles, LookUpArticle, SaveArticle, FinishNews, NewsJobFails`; `Announce`; `ProviderPublishes, DeleteArticle` |
| `RateLimit` | one limited key | `Ask, Incr, Answer, SetExpiry, GiveUp, Drop`; `WindowEnds, Connection` |
| `AdminAccounts` | roles of the staff | `ChangeRole, Suspend, Reactivate, BecomeSeller`; `ReadForGrant, CountOthers, Grant, Revoke` |
| `Impersonation` | one administrator's browser | `Send, Check, OwnRequest, Create, Refuse, Begin, Act, End, Restore, Respond, SignOut`; `RevokeView, Expire, MemberChanges, StaffChanges` |
| `Community` | one post | `StartToggle, CheckTarget, ReadMark, RemoveMark, AddMark`; `StartComment, ReadPost, ReadParent, WriteComment`; `StartDelete, Delete, StartDeletePost, DeletePost`; `OpenModeration, Moderate, LockPost` |
| `Listings` | one listing | `ReadForEdit, Edit, SubmitForReview`; `ClaimForReview, ApproveProduct, RejectProduct, SuspendProduct`; `Unpublish, Remove, ReadPublishedAt, Restore` |
| `ProductAssets` | files and cover of one product | `Pick, Retry, Start, Presigned, Put, Leave, Done, Fail`; `FindVersion, UpdateVersion, CreateVersion, InsertFile, ServerFails`; `ReadCovers, BeginCover, CommitCover, FailCover, CleanUp` |
| `ProductWizard` | the wizard of one product | `Enter, ChooseCover, RetryCover, UploadCover`; `Create, Created, GoOn, Back, SaveEnds`; `Finish, Settled, Submitted`; lost answers: `LateCover, LateDraft, LateSave, LateSubmit` |
| `OrdersProofs`, `RefundProofs` | theorems about checkout and refunds | |
| `LicenseProofs`, `CommissionProofs`, `PartnerProofs` | about activations; what one order earns and the partner ledger; attribution and applications | |
| `MemberProofs` | about limits, seller payouts, signal subscriptions, views, community, staff | |
| `ServiceProofs` | about renewals and the stream | |
| `CatalogueProofs` | about cache, listings, wizard, news, reminders, uploads and covers, calendar | |
| `MC*` | symmetry sets, bounds and compositions for TLC | |

Each definition's comment says what it stands for; PROJECT.json gives its lines.
Operators whose comment calls them a mutant (`CreateOrderWithoutUniqueKey`,
`OpenWithoutSubscribing`, ...) are deliberately wrong variants of a step: put in its
place, they must make the property that PROJECT.json names fail, which shows that
the property does depend on that step.

`MCSales`, `MCServices`, `MCPartners`, `MCMembers` and `MCCatalogue` put several
specifications side by side: a variable `part` is chosen in the first state and
never changes, one specification runs and the others rest in their first states. The
specifications in one such module share no state, so interleaving them would add
products of states and no behaviour that either does not have alone.

## Runs

| Run | Question and answer | Bounds, and why they are enough |
|---|---|---|
| `outcomes` | Does one checkout keep the promise whatever the provider replies and in whatever order success, failure and refund events come, and does captured money end in a settled order, also when the request died? Yes, unless the event came before the payment row or its own handler died. | One request, a one-time and a subscription product, all three events, crashes anywhere. One order suffices for the provider's orderings, which never mix two charges. |
| `sales`, checkout part | Do two overlapping checkouts of one buyer (same key, no key, common products), with crashes, answer every retry with one order, and do all licences trace to a sale? Yes. (That `Orders` keeps the promise of `Settlement` with any number of requests and with crashes is proved.) | Two requests are the smallest that race; a third adds no pairwise conflict. One success event per charge. The subscription product stays listed (`SubscriptionsStayListed`); `outcomes` lets it leave. |
| `sales`, refunds part | Two orders for one product and a refund of each, the administrator's call dying anywhere: is a refund final and only about its own order? Yes. | One product bought twice is the case where a licence belongs to another order. No keys or subscriptions, and only the administrator's call dies. One administrator; what two do is the run `refund_twice`. |
| `services`, renewals | Overlapping and repeated runs that throw at any step, buyer actions, early and late events, handlers that die: is a period charged once, captured money honoured, nothing overdue for ever? Yes, but for a captured charge whose event found no payment row or whose handler died after the event row, and for a subscription whose run ended by an error once it had the period's order. | One subscription (runs share nothing between two), two workers, a clock of one period, one error of a run or a handler at any of their steps: each exception needs one. |
| `services`, stream | Whatever order subscriptions, releases and socket events come in, does the connection in use carry what is watched, is a watched symbol carried again, and when is a socket lost? Yes; only by a late close. | Two browsers with two symbols and intervals share or split a symbol; three sockets: current, abandoned, and one more. |
| `partners`, commissions | With refunds and chargebacks anywhere: is what was paid final, is nothing of a refunded order payable, do payouts amount to what they hold, is nothing paid twice? Yes; an amount may exceed what is held, by rows reversed or rejected since it was read. | Two payouts: a commission can be reserved, freed and reserved again. `OneOrderOrNoDispute`: with one order everything interleaves; two orders are considered without refunds and with two reviews under way. |
| `partners`, applications | Is an approval complete, a confirmed recruiter kept, recruitment without circles? Yes, for members whose calls never met; a circle is impossible even then. | Two members who may recruit each other, two administrators; the calls about one of them may meet (`OneDisturbed`). |
| `partners`, attribution | When is an order credited to another than the account's owner? Only after the owner's days, or when it was decided before the owner was inserted. | Two Partners and the buyer's own profile, windows of one day and a clock of two, so that each ends. Proved for all values. |
| `partners`, earnings | What can an order cost, and do its rows agree, when commissions are created twice, and while rates and recruiters change? One row of either tier within the rates; rows disagree only after a change between the calls. | Two calls, three profiles of which one is the buyer's, at most one recruited (`OneRecruited`); 30 cents, where rounding decides. |
| `members`, payouts | Do payout status and ledger agree, with a process that may die? Yes, unless two sessions worked on that payout at once (`contested`). | Two administrators, two overlapping requests, credits 1 and 2 around a minimum of 2 (below, at, above), 4 in all, so that two payouts can follow one another. |
| `members`, licences | By how much can activations exceed the limit? By the calls in flight less one. | Limit 1, two calls, three machines: as many machines as slots and calls together. The bound is proved for all values. |
| `members`, signals | Is an ACTIVE subscription paid for, and when is it charged twice? Yes; only by overlapping calls, or when a cancelled or paused row was revived. | Three calls, one provider that charges and a free one. |
| `members`, accounts | Which steps can strand the site without a Super Administrator, or leave staff rank without a grant? Only grants and revocations that overwrite what they did not see. | Root and one account, two scopes, two calls; Root is not a seller (`RootIsNoSeller`). |
| `members`, views | Does anyone act as a member after the session was closed? No. | Two sessions, two requests: one under way while the other ends the session. |
| `members`, limits | Does a window admit more than the limit? No. | Four attempts around a limit of two. |
| `members`, community | Do counters and threads hold, and when does the comment count drift? By a status written over one that changed since it was read. | One member with two tabs (`TwoTabs`), who is staff and may answer on a locked post, one moderator, two comments; likes of the post, one level of comments, a drift of at most one. |
| `catalogue`, listings | Can a product row that nobody reviewed go live, or a decision be undone? Only by an edit that read the row earlier, or by the restoration of an edited listing. | Two edits, two restorations, all moderators' decisions. |
| `catalogue`, assets | Is what is shown as uploaded downloadable and in order, a version announced once, a cover's object kept? Yes. | Two pages with one version, two items, two cover calls; files or covers (`FilesOrCovers`), which share only storage. |
| `catalogue`, wizard | Is the submitted pricing what was entered, or was the seller warned? Is there one draft, and is the cover under "Cover photo saved." the one stored? Yes, until a cover that was reported as failed is applied after all. | One edit of basics and notes, two of the price (so that saves queue and overtake), two covers, one call that fails or loses its answer and is then applied at any later time or never. |
| `catalogue`, cache | How old may a shown value be? A load and twice the time to live. | Two writers, one of each order, clock up to 5 (an entry is stored, goes stale and expires). Proved for all values. |
| `catalogue`, calendar | Does a pass that met no other copy the provider's list, and when is an event announced twice? Yes; only by two passes at once. | One source and two events, a page view's pass and the worker's, two changes upstream, one figure. With one source two passes meet through the worker, which takes no claim; two sources are out of TLC's reach at these bounds. |
| `catalogue`, reminders | Is a member who subscribed in time reminded, once and in time? Yes, unless the event was moved, an attempt repeated, or the queue refused or had forgotten the job. | Two pages and two alert rows (unsubscribed and subscribed again), two times, one repeat; at most one of these disturbances (`OneDisturbance`). |
| `catalogue`, news | Does every listed article get a row and one announcement? Up to the first title whose slug is taken, and unless two jobs saw no row. | Two jobs, three articles of which two share a slug, a list of two; at most one article excused (`OneExcused`). |
| `duplicate` | Was an acknowledged duplicate processed? No (see below). | One request with a crash. |
| `refund_twice` | Is an order refunded once? No (see below). | One order, one refund, two administrators. |
| `payout_stale` | Is a seller only paid the current balance? No (see below). | Two requests, one administrator, credits up to 2. |
| `renewal_skipped` | Was what a later run skips handled? No (see below). | One worker, one exception. |
| `wizard_basics` | Is the product that is submitted the one on the last screen? No (see below). | One edit of the basics after the draft was created, nothing fails. |
| `news_alerts` | Did everybody who is told of an article ask for it? No (see below). | Three articles, one without a currency and one without a topic; one alert of either type. |

Every safety property of the passing runs is also proved for all values of the constants
(below), so for these the bounds only decide what TLC sees; liveness rests on them.

Runs with symmetry check no liveness. `CHECK_DEADLOCK FALSE` appears where the
modelled system really stops: all payout requests were made and decided, the product
was submitted, every upload ended, the cache's clock reached its bound.

## Fairness

`Orders!FairSpec`: a request that was started goes on (Node runs the promise to
its end) unless it dies, and an event is delivered until acknowledged, as payment providers do
and as the webhook route expects when it answers with an error on failure.
Nothing makes a buyer check out or the provider capture a pending charge.

`Renewals!FairSpec`: the cron (`lib/queue/queues.ts`) keeps starting runs and the
worker goes on with the run it has, unless it throws; an event is delivered until it
is answered and its handler goes on, unless it dies. An event takes three steps and
there are finitely many, so fairness of some handler's step is enough. Buyers and the
clock may stop.

`MarketStream!StreamFairness`: a timer that is set fires, `close()` is answered by a
`close` event, a connection attempt ends one way or the other, and one of attempts
made again and again succeeds (strong fairness, the only assumption about the
outside). Browsers come and go as they like and sockets fail when they like.

`MCServices!ServicesSpec` is both at once; `FairRenewals` asks the renewals' fairness
of the renewals' part only, because a run could start in the first state, where the
module rests in the other part.

All other specifications are safety only and state no fairness.

## What is proved

`OrdersProofs`, for every set of requests, users, products, keys and event
kinds, with or without crashes, from `OrdersAssumption`:

- `TypeCorrect`: the type invariant;
- `Refinement`: `Orders` implements `Settlement`, so an order is settled at most
  once, after its charge was captured, in the step that grants its items;
- `RetrySafe`: requests with one key that were answered got one order;
- `OwnFailure`: the order a request is about to mark FAILED was not completed;
- `FailureReported`: FAILED was said by the provider.

The inductive invariant is `TypeOK /\ SettlementInv`. `SettlementInv` has three
parts: `StepInv` ties the point a request has reached to what exists of its
order and charge; `ChargeInv` says that replies and events only tell what the
provider did, e.g. that a success reply or event means captured money; `SaleInv`
says that ledger, invoices and status agree and that a sale was captured. None of
the properties is inductive alone: that settling needs captured money is known
at `SettleNow` only from the reply (`StepInv`) and at `ApplyEvent` only from the
event (`ChargeInv`), and that a FAILED reply excludes a completion only from
`ChargeInv` and `SaleInv` together. `RetrySafe` adds `KeyInv` (distinct orders
have distinct keys, and an answer has the key of its request), where the unique
index is used in `CreateOrder`. The refinement maps each step to `Place`,
`Capture`, `Settle` or a stutter; `CompletionEffect` and `SaleSettles` say what
`completePaidOrder` does, once for both of its callers.

`LicenseProofs`, for every finite set of calls and machines and every limit,
from `ActivationsAssumption`: `ActivationTypes`, and `Overshoot` by way of
`SlotsPromised`, which also counts the calls that have read the licence and not
yet inserted: the bound alone is not inductive, as a call about to insert has
already passed its check. With one call at a time the limit is exact.

`RefundProofs`, on top of them: `RefundsSafe` and `RefundsFinal`. Nothing locks a
refund and success events may come late, so the invariant adds what the calls under
way know (`CallsInv`: whoever works on a refund works on one of a settled order, and
from the provider's answer on the money is back), and where licences come from
(`LicenceInv`, which by itself gives `LicencesTraced`). That a refund is final rests on
invoices, which are never taken away: `completePaidOrder` throws for such an order ever
after (`GrantStep`).

`CommissionProofs`, from `CommissionsAssumption` and `EarningsAssumption`:

- `CommissionsSafe` and `PaidStaysPaid`. A two-step transaction writes what it read
  before its last statement. `ReservationsHold` says what a payout has reserved, but is
  not inductive: `WritesHold` adds what such a transaction relies on (its row is locked
  and unpaid, and what it left in its payout is all that is attached to it), and
  `ClaimsHold` that no two payouts count a commission or may come to count it.
  `AmountsCover` (a payout amounts to all it holds, and beyond those only to rows that
  left it reversed or rejected) is kept by the conditional updates of both sides:
  `CoversHold` says the same of a sum that was read and not yet written.
  `RefundsHold` says that of a refunded order a reversal is still due, or the
  commission is at most PENDING with no approval under way.
- `OrderEarns`. What is inserted was planned in an earlier step from recruiters read
  in a step before that, so plans, readers and rows each have their part of
  `EarnedInv`, and `FirstHolds` ties all plans to the first for as long as nothing
  changed in between.

`PartnerProofs`, from `AttributionAssumption` and `PartnersAssumption`:

- `OwnerKept`. The credit is written in a step after it was decided, so the invariant
  `OwnerInv` says of the decision under way what it says of the row (`Kept`), and
  `OwnerIsLast` that an owner is inserted only into an account without one.
- `PartnersHold` and `ConfirmedStays`. `PartnersInv` says of a member whose calls never
  met (`Undisturbed`) that one call works on it and that what this call read is still
  so; of every member that what an approval gives is held by approved members only
  (`RowHolds`). Hence who may still apply recruits nobody, a new link never closes a
  circle, and `NoCircle` holds for circles of any length, disturbed or not.

`ServiceProofs`, from `RenewalsAssumption` and `StreamAssumption`:

- `PeriodsBilledOnce`. `WorkerHolds` says that one worker at most is on the order of a
  period, the one whose insert met the unique key, and that nobody has charged while it
  is to charge; `PeriodHolds` that an order completed and then given up has no event
  left that would complete it again.
- `StreamCarries` and `StraysNeedLateClose`. `StreamInv` is inductive once the watched
  intervals of a symbol are known to be finitely many (`CarriedInv`): `refCount` is
  their number. A subscription sends one symbol, so that a socket carries all of them
  needs that one which is opening carries none yet (`FreshSockets`). The proof takes
  counts and sockets apart (`SocketsHold`).

`MemberProofs`, one section per module, from that module's assumptions:

- `WindowsHold`: a request that is to set the expiry found the key without one
  (`WindowInv`), so each window has such a request before it admits anybody else.
- `PayoutsDebited`: a session that works on a payout alone found it open, and it still
  is (`JobsInv`).
- `SubscriptionsPaid` and `ChargesOverlap`: a call that is to write ACTIVE was charged or
  the provider is free, and what it saw was not ACTIVE (`PaidInv`).
- `CookiesHeal`: no session is opened twice, so one that is open now was open when any
  request that carries it was sent (`HealedInv`).
- `CommunityHolds` and `DriftsOnlyStale`: counters are cardinalities of finite sets of
  rows; what a call is to write, answer or delete is unwritten or written, and stays so
  (`CallsWrite`, `ModeratorsWrite`).
- `AccountsTyped` and `StaffIsKept`, with one lemma for either half of the action
  property. Role changes read all Super Administrators in the transaction that writes,
  so only a grant that was overtaken can leave none; a revocation that leaves no scope
  takes the rank unless what it counted was stale.

`CatalogueProofs`, likewise:

- `CacheTyped` and `CacheAge`. What a page shows says nothing of how old it is, so the
  invariant `AgeInv` follows the value backwards: `ShownInv` for what is shown,
  `EntryInv` for what is stored (its `staleUntil` tells when it was stored), `LoadInv` for
  what is being computed.
- `ListingsApproved` and `OnlyStaleEditsUndo`: what was ever published was reviewed, and
  a restoration that read `publishedAt` as set read what stays true.
- `WizardAgrees` and `SubmittedAsLeft`: the last queued save of a group carries what was
  handed over last, and without one the row has it or a save has failed (`SavesInv`);
  what was entered has been handed over once its step is left (`PlaceInv`). Calls that
  are applied late do not disturb this: a late save follows a failure that was reported,
  a late cover is what `CoverAsShown` excepts, and a submission that is applied after
  the page was told it failed is excepted by `SubmittedSavedOrWarned`.
- `NewsHolds`: of an article that neither was deleted nor looked new to two jobs, a job
  that saw no row is alone with it and nothing announces it yet (`ToldOnce`).
- `RemindersHold`: a promised reminder that is done was sent or nobody wants it any more
  (`KeptInv`), jobs are due when their notice is unless the event moved (`DueInv`), and
  while nothing is moved, repeated or forgotten one job begins (`OneBegan`).
- `AssetsAgree`: queue, picked items and rows are in one order but for retried items,
  and what waits is queued (`QueuedAsPicked`, `QueueInOrder`, `StartInOrder`,
  `RowsFollowPage`); an object that a cover call may still delete belongs to no row
  that will stay (`CoversHold`). It assumes that uploads have storage keys of their own
  (`AssetsAssumption`: a key has a random UUID, `asset-service.ts:46`).
- `CalendarCopies` and `AlertsOverlap`. A pass writes what it fetched, compared and
  listed several steps before. `CopyHolds` says at each point of a pass that is alone
  what of that is still true of the rows: to be created means absent, no update needed
  means as listed, gone means not listed. It is kept because a pass writes events of its
  own source only, and of two passes at one source neither is alone (`AloneHolds`).
  `AlertHolds` adds that what is about to be announced has a row and, if the pass is
  alone, was never announced.

Assumptions on constants are the named `ASSUME`s of the modules: numbers are natural,
placeholders (`NoOrder`, `Nobody`, `Unlisted`, ...) are none of what they stand beside,
and the calls and machines of `LicenseActivations` are finitely many. TLC evaluates
each of them in the run of its module.

Only model-checked: the liveness properties `CapturedIsSettled`, `CapturedIsRenewed`,
`NoneOverdueForever` and `WatchedIsCarried` (liveness under fairness is outside the
prover's reach). Every invariant and action property that a passing run checks is
stated by a theorem.

## Disagreements found

Shown by a run:

- `duplicate`: the webhook route calls a duplicate "already processed", but the
  event row is committed before the order is completed (`payment-service.ts:95`).
- `refund_twice`: approval is called idempotent against a double click, but the
  status is read before the provider is awaited and not again.
- `payout_stale`: "current balance" is read before the check for a payout in
  progress, and may be from before a payout was paid.
- `renewal_skipped`: an order that exists is taken as "already handled", although
  the run that created it threw before charging.
- `wizard_basics`: the last screen says "Ready to submit" with the name entered, but
  what is edited before the Description step is never saved once the draft exists
  (`product-wizard.tsx:132`).
- `news_alerts`: "Alert me on <topic> news", but the topic or currency an article lacks
  is `undefined` in the query, which drops the condition
  (`dispatch-service.ts:84-85`): it is sent to all who asked for any.

Stated in the modules as a sentence of the code, each false in a small instance, and
described by the property in brackets that does hold:

- `OneConnection` (`twelvedata-provider.ts:97`, "exactly one shared upstream WebSocket
  connection"): the late close of an abandoned socket clears the reference to its
  successor, and the next subscription opens another (`StrayNeedsLateClose`).
- `NeverDoubleRun` (`auto-sync.ts:20-22`; its counterexample needs two sources, and the
  `catalogue` run has one) and `AlertedOnce`: the claim is per source, the
  pass runs every source, and the worker claims none (`AlertedTwiceNeedsOverlap`).
- `EditSendsBack` (`product-service.ts:126`, "must go back through review"): an edit that
  read the row before its approval does not send it back (`DecisionsHold`).
- `OldNumbersNotRecached` (`review-service.ts:73`): a load that began before the
  invalidation stores its value after it (`StaleAtMost`).
- `CommentsCounted` (`moderation-service.ts:60`): two removals of one comment are both
  subtracted (`DriftNeedsStaleRead`).
- `OneCover` (`asset-service.ts:70-71`, "exactly one at a time"): two calls that overlap
  insert two (`AssetsInv`: none of them without its object).
- `SuperAdminRemains` (`user-admin-service.ts:191`): a grant that read an account before
  it became Super Administrator writes MODERATOR over it (`StaffKept`).

- `OutageBlocksNobodyForGood` (`rate-limit.ts:27-30`, "fails OPEN"): a key whose EXPIRE
  was lost never expires and, past the limit, refuses although Redis is back
  (`RateLimitInv`).
- `FiresAhead` (the reminder's title says "in 30 minutes"): an event moved to a later
  time is announced at the old one (`ReminderInv`).

Seen while modelling:

- Concurrent activations exceed `maxActivations` (`prisma/schema.prisma:642`);
  `OvershootBounded` says by how much.
- A machine that was deactivated, or whose retry overlaps, meets the unique index
  instead of the idempotent answer (`license-service.ts:54-56`).
- An administrator with a stale page takes a licence out of REVOKED
  (`license-service.ts:119`), and a rejection may overwrite a PROCESSED refund
  (`refund-service.ts:72`).
- A refund debits the gross line amount, where the comment and the schema speak of
  reversing what the seller was credited (`refund-service.ts:138`, comment 23-24).
- When the transaction of a refund fails after the provider returned the money, the
  refund stays REQUESTED, and a second approval asks the provider again
  (`refund-service.ts:100`); and a refund cancels a subscription that a later order paid
  for, as subscriptions of a product name no order (`refund-service.ts:120`).
- A success event before the payment row is acknowledged as unmatched, and the
  order stays PENDING (`payment-service.ts:30`); `CapturedIsSettled` names it.
- A renewal is lost in the same way, and when a handler dies after the event row:
  captured money that extends nothing (`CapturedIsRenewed` names both). A run that ends
  by an error once it has the period's order leaves the subscription ACTIVE and unbilled
  for good (`renewal-service.ts:58`; `NoneOverdueForever`).
- A payout is marked PAID with a sum read before (`payout-service.ts:136`, `139`): a
  commission that is rejected or reversed in between is in the amount and was not paid
  by it. The amount is never too small (`AmountsCover`).
- A cover whose upload was reported as failed (`upload-client.ts:117-127`) may be
  stored after the next one was, under "Cover photo saved." (`asset-service.ts:84-88`,
  `product-wizard.tsx:97-107`); `CoverAsShown` excepts it.
- The cover and files of a published listing are replaced without a review
  (`asset-service.ts:15-21`).
- A commission created after a chargeback is released, as the order stays PAID; and
  two reversals in one payout add up each other's old rows
  (`commission-service.ts:140`, `151`).
- A PENDING renewal charge is marked FAILED at once (the late event repairs it), and
  a cancellation between query and charge is undone by the extension.
- A crash between an approval and its code leaves an APPROVED Partner without a
  referral code, and decisions that overlap leave a recruiter unconfirmed, or a
  confirmation without a recruiter (`partner-service.ts:137-154`).
- `pause` writes PAUSED over CANCELED and `resume` then revives it
  (`signals/subscription-service.ts:69`); a charge whose write is lost leaves no row.
- The failure of a background save is reported once and then forgotten: a second Submit
  sends the product with the unsaved price (`product-wizard.tsx:193-198`).

## Plan

1. Done: all modules above, and a theorem for every safety property of the runs.
2. Proofs next: abstract specifications that several properties follow from, each with
   the refinement proved: the stream as "watched symbols are served by the connection in
   use", a partner ledger as balance, reserved and paid amounts, the calendar of one
   source as a copy.
3. Models next: the Redis tier of the cache. Runs stay few: two parties per race, one
   question each, and a wider run replaces a narrower one that it contains.
