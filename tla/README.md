# Verification of ES Studio API

TLA+ models of the stateful core of ES Studio API, a NestJS service on
PostgreSQL (TypeORM), Redis and Bull that schedules and publishes social media
posts, imports and reports page history, keeps a unified inbox, watches metrics
and bills its workspaces through Stripe.  The modules are translated from the
TypeScript source; TLC checks them on small instances, and TLAPS proves their
main safety properties for every instance.

All file names below are under `src/src/` of the repository; "await" means a
point where Node may run another handler, and where the process may die.

## 1. Inventory

| Part | State | Operations | What is hard |
|---|---|---|---|
| Content posts (`modules/ops/schedule`) | `content_posts`, `content_post_approvals` | create, PATCH, delete, submitForReview, approve, reject, schedule | read, await, save of the whole row without a condition on its status |
| Publishing (`modules/publish`) | Bull queue `publish` (job id = post id), `content_publish_attempts` | `handleStatusChanged` (replace / cancel the job), `handlePublish` | retries, stalled jobs, the save of `publishing` before the work, lost answers of a platform |
| Billing (`modules/billing`) | `workspace_subscriptions`, `workspaces.plan`, Stripe | checkout, four webhook events | events acknowledged before they are processed; order; half-done events |
| Plan guard (`guards/plan.guard.ts`) | Redis entry `sub:{workspaceId}`, TTL 300 s | `canActivate` | a fill that races an eviction |
| Inbox poll (`modules/inbox`) | `platform_connections`, `inbox_threads`, `inbox_messages`, Bull queue `inbox-poll` (job id per connection) | cron `enqueueAll`, `handlePoll`, adapters | partial insertions with retries, the moving start of the next poll, fixed job ids |
| Inbox API | the same rows | `sendReply`, `updateThread`, `createNote` | reply and poll store the same message; stale save of a thread |
| Connections (`modules/ops/connections`) | `platform_connections`, OAuth links and candidates in Redis | getOAuthUrl, callback, confirmCandidates, disconnect | a token used by two confirmations, by another workspace, or after ten minutes; a loop of upserts that breaks |
| Meta history (`modules/facebook`) | `social_profiles`, `analytics_snapshots`, `social_posts`, ... , Bull queue `social-sync` | confirmPages, disconnectMeta, manual sync, aggregate, daily cron, `handleHistoricalSync` | a state column that must agree with the queue, deletion against a running job, broken imports |
| Auth (`modules/auth`) | `users`, `sessions`, cookies | login, refresh, logout, sign-up, reset, switch | rotation of tokens, revocation |
| Alerts (`modules/ops/alerts`, `listeners`, `notifications`) | `alert_rules`, `insight_cards`, `in_app_notifications`, sockets | listener, evaluation of a rule, edit, delete | the same rules evaluated twice, five effects one after the other, edits that write a whole row |
| Reports (`analytics.controller.ts`, `email-reports`) | read `analytics_snapshots`, `social_posts` | aggregate, per page, profile view, mail | four pieces of code that compute the same figures; days of two time zones |
| Revenue (`meta.service.ts`, `sync.processor.ts`) | `daily_revenue`, `snapshots.revenue`, `revenue_mappings` | fetch with six fallbacks, two writes, sums by page and team | fallbacks that disagree, two tables for one figure |
| Page mappings (`modules/page-mappings`) | `page_mapping` | create, CSV import, update, batch, delete | one team per page, kept in several rows |
| UTM analytics (`modules/utm-analytics`) | `daily_analytics` | sync from BigQuery in batches, sums by page and team | a key cut by a batch, two syncs at once |
| Workspaces and team | `workspaces`, `workspace_users`, `workspace_invites` | create (one transaction), invite, change of role | |
| Campaigns, audit, other guards, migrations | rows of their own | CRUD | little: single-row writes and reads |

Interaction: a transition of a post emits `post.status.changed` in process; the
publish service (queue) and the status listener (alerts, notifications) receive
it.  Guards run before every handler.  Crons and Bull workers run in the same
process as the HTTP handlers and share with them only the database and Redis.

What makes each part correct, in a line:

- *Publishing*: a post goes out only after an approval, at most once per profile
  for each time it was scheduled, not before its time, and `published` is true,
  unless a body wrote the status itself.
- *Billing*: the rows end up with what Stripe has; a request is not granted on a
  cached plan much longer than the row allows.
- *Inbox*: no message is skipped or announced twice, a reply does not vanish.
- *Connections*: only what was granted and chosen is connected, once, and an
  answer means the whole selection.
- *Meta history*: the state of a profile agrees with the work that is queued for
  it and the history it has; queued jobs bring nothing deleted back.
- *Reports and revenue*: the screens report the same rows, the mail those of the
  active profiles, and revenue is what Meta has.
- *Page mappings and traffic*: the rows of a page agree on its team, and every
  stored session of a source the sheet asks for is in one page and one team.
- *Auth*: nobody is signed out by his own requests; rotation does not multiply
  sessions; a revoked session stays dead, and a reset revokes all there are.
- *Alerts*: a rule that fires leaves a card, a notification and a push, once;
  a card is true; one failure stops nothing else.

## 2. Modules

| Module | Models | Rests on |
|---|---|---|
| `PostLifecycle` | abstract: the status of one post, one action per entry of `TRANSITIONS` and of the processor | |
| `Publishing` | schedule service, publish service, queue, processor | refines `PostLifecycle` (`LifecycleSpec`) |
| `PublishingProofs` | inductive invariant and theorems | `Publishing`, TLAPS |
| `Billing` | checkout, webhooks, plan guard; Stripe and Redis from their use | |
| `BillingProofs` | inductive invariant and theorems | `Billing`, TLAPS |
| `Sessions` | the session rows of a user, the cookies of his browsers, the requests of login, refresh, switch, logout and reset | |
| `SessionsProofs` | inductive invariant and theorems | `Sessions`, TLAPS |
| `Inbox` | connection, cron, poll job, replies, thread edits; platform and Bull from their use | |
| `InboxProofs` | inductive invariant and theorems | `Inbox`, TLAPS |
| `MetaSync` | connect / disconnect / sync requests, cron, queue, worker | |
| `MetaSyncProofs` | inductive invariant and theorems | `MetaSync`, TLAPS |
| `Offers` | abstract: what the hand-over of an OAuth grant promises | |
| `Connections` | links, callbacks, candidates, confirmations, disconnect | refines `Offers` (`OfferSpec`) |
| `ConnectionsProofs` | inductive invariant, theorems, the refinement | `Connections`, TLAPS |
| `Alerts` | listener, evaluation of rules, edits and deletions | |
| `AlertsProofs` | inductive invariant and theorems | `Alerts`, TLAPS |
| `Reports` | the two tables of metrics and every query the reports make of them | |
| `Revenue` | fetch, sync and deletion of revenue, sums by page and team | extends `Reports` |
| `PageMappings` | the rows of `page_mapping` and the requests that change them | |
| `Traffic` | BigQuery sync and traffic sheet | extends `PageMappings` |
| `FiguresProofs` | sums over finite sets; inductive invariants and theorems | `Traffic`, `Revenue`, TLAPS |
| `MC...` | instances for TLC | |

Common conventions.

- A handler that awaits is split there: one action per stretch of code between
  two awaits, with a `pc` and the values the handler holds across them.
  Everything a stretch changes, the emission of an event included, is one action.
- A TypeORM `save(entity)` writes the copy the handler holds: columns that differ
  are updated, and a row that is gone is inserted again.
- A crash drops requests, handlers and workers, and keeps database, Redis and
  queue.  Bull is modelled as the code configures it: `add` ignores a known id;
  an active job cannot be removed; `attempts`; a stalled job is restarted once.
- Deployments run one process, so one worker per queue (Bull's default
  concurrency).
- Rows of other posts, workspaces, connections or profiles share no state with
  the one followed, so each model follows one, unless a property speaks of several.
- A failing await is an action of its own.  What it excuses is kept in history
  variables (`marks` in `Inbox` and `MetaSync`, `broken` and `stale` in `Alerts`).

### Publishing

`row` is the `content_posts` row (status, `scheduledAt`), `job` the Bull job,
`request[r]` the HTTP handlers, `handler[s]` the runs of `handleStatusChanged`
(one started by each request, one by the processor), `worker` is
`handlePublish`.  `posted`, `arms`, `submissions`, `approved`, `given` and `dropped`
are history: what platforms published, which saves happened, which statuses bodies
wrote, and whether an event that schedules the post ended without its job.

`BeginTransition`, `BeginSchedule`, `BeginUpdate`, `BeginDelete` are the part of
a request up to its save; `SavePost`, `RemovePost`, `SaveDecision` the rest.
`LookupPost`, `ProbeJob`, `RemoveJob`, `AddJob`, `CancelProbe`, `CancelRemove` are
the event handler.  `LoadPost` ... `SaveOutcome` are the numbered steps of
`handlePublish`; `WorkerThrows` is a query outside its try blocks.

Assumptions.  `markPublished`, `markFailed` and `retry` are in the transition
table but no route calls them.  The bodies of create and PATCH are `any` and are
assigned over the row: `scheduledAt`, any status of `BodyStatuses`, and columns that
are left out.  Such a status emits no event and asks nobody; `given` remembers it,
and the properties say what it may then break.
The links of a post to profiles are inserted outside this code and chosen freely
at creation.

### Billing

`stripe` is the subscription at Stripe, `mail` the webhook events on their way;
`ReceiveEvent` may take any of them, since they are acknowledged at once and
processed with `setImmediate`.  `hook[h]` runs `processEvent`, `guard[g]`
`PlanGuard.canActivate`, `checkout[k]` `createCheckoutSession`.  `barred[w]`
counts the ticks since the row stopped to allow requests of kind `w` (reading or
writing) to a pro feature, and `order` tells whether events came in order.  The in-memory `planCache` is read only by `enforcePlan`, which
nothing calls, and is left out.

### Inbox

`conn` is the connection row, `job` its poll job, `worker` is `handlePoll`,
`rows` and `pending` are the message rows by platform id and by pending id,
`last` is `last_message_at`.  Platform messages carry the time they were sent as the
platform tells it (`Stamp`: milliseconds on LinkedIn, whole seconds on the others),
and each platform has its filter (`Lets`): the adapters of Facebook and Instagram ask
for everything from the whole second of `since` on, those of LinkedIn and TikTok skip
what is not after `since`, which with TikTok's seconds is also what comes later in the
second of the last poll.  `due` holds the messages that were in sight when they
came (`InSight`): no poll had yet fetched, and the filter lets them through for the
connection and for the polls under way.  `FetchFirstPage` and `FetchThreadOnly` are
fetches that miss something: no adapter reads a second page; when the messages of a
thread cannot be read, LinkedIn stores the thread without them and TikTok leaves the
thread out.  `marks` is what excuses a property: `blind`, that a poll left something
out in this way, or by the 24-hour reach of a first poll; `overwritten`, that an edit
put an older row of the thread back; `broken`, that a poll threw or died.

### MetaSync

The clock counts days.  `profile` is the row, `days` the dates that have a
snapshot, `other` the remaining tables that have rows of it.  `task[t]` runs the
handler of a request or the cron, `job[j]` the queue (one entry for each request
and each day of the cron), `worker` is `handleHistoricalSync`, chunk by chunk and
table by table: posts, demographics, team, revenue (`WriteRows`; `SkipRevenue` and
`SkipRows` are what it leaves out).  A deletion takes the tables in an order of its
own, revenue, team, demographics, snapshots, posts, and the profile last
(`DeleteRows`, `DeleteSnapshots`, `DeleteProfile`); one that found no profile leaves
the first two alone.  `marks` holds what excuses a property: `lost`, a handler or job
that died between marking and syncing; `broke`, a sync that failed; `overlap`, a sync
that wrote to a table a deletion had passed (`AfterDeletion`) or was still to write
when the profile went.

### Sessions

`session[i]` is the i-th row of `sessions` of one user, `jar[b]` the cookies of a
browser, `request[r]` a handler between its awaits; `link` says that a reset mail
is out.  A `Begin...` action is a handler up to its first write, with every check
that may refuse it.  `RevokeOld` is the update in `refresh`; `InsertSession` and
`SaveHash` are the two saves of `issueTokensForWorkspace`, `SetCookies` the arrival
of the answer.  The second save writes the entity the first one left, so
`revoked_at` (NULL) goes with it; `RevokedForGood` holds because no request can
revoke a session whose token is not out yet, except a reset, and a session that
one overtakes is marked `late`.

`since` (the resets over when the user last gave a proof), `late` (a reset
overtook the request, or one of its ancestors), `opened`, `resets` and `died` are
history.

The logout route is `@Public()`, so `JwtAuthGuard` does not fill in `req.user` and
the handler never reaches the revocation it is written for (the comment at
`modules/auth/auth.controller.ts:121` expects otherwise).  `BeginLogout` models
what is left: the answer that clears the cookies.  The row stays as it is until
a reset, or the end of its thirty days.

Left out: the workspace a token names, the age of a refresh token, sign-up and
verification (they open no session; the access token that verification and
Google's callback set is `GrantAccess`).

### Connections and Offers

`row` says what became of each (workspace, platform, profile): `none`, `active`,
`removed`.  `flow[f]` is an OAuth link and its callback, `entry[f]` the candidates
that callback left in Redis, `request[q]` a run of `confirmCandidates`:
`BeginConfirm` loads and selects, `ConfirmOne` upserts one profile of the loop,
`SpendEntry` deletes the key, last, and `Answer` follows its reply: in between the
process may die or the reply be lost, with the key gone.  `FetchPages`, `StoreMetaCandidates`,
`FetchProfile` and `ConnectProfile` are the two kinds of callback; `Expire`
takes the ten minutes, `StateExpires` those of the link.

`Offers` is what all this promises: a grant becomes an offer or is dropped, only
open offers connect, and only to their own workspace; closed is closed.  An
offer is open as long as it may still connect something: its entry can be loaded
or a confirmation that loaded it is at work (`InHand`, `OfferOf`).  Two
confirmations of one token do overlap; the second then connects what it had
loaded, which `Offers` allows since the offer closes after both.

`disconnect` tests the first element of what a raw `DELETE ... RETURNING` gives, which
is the list of rows and never missing, so its 404 is never answered; the model has
no such branch.

### Alerts

`handler[e]` is `PostStatusChangedListener` for one event, which runs the rules of
the workspace one after the other: `ReadCurrent`, `ReadPrev`, then for a rule that
fires `SaveCard`, `SaveNotice` (or `SaveNoticeInApp`), `SendMails`, `Push`,
`StampTriggered`, and for every rule `StampEvaluated`.  `EvaluationThrows` is an
error of any of them, after which the catch block stamps again (`RestampFails`
when that fails too).  `StoreNotice` and `Tell` are the notice of the event
itself.  `request[q]` edits a rule (a read, an await, a save of the whole row) or
deletes it.  The sums a rule reads are any members of `Values`: an import may
change them between the two reads.

What the code leaves undone shows in what is not there.  `evaluateAll`, which
`PHASE2.md` has an hourly job for, is called by nobody, so events alone evaluate
rules.  `createRule` passes `metric_family` and `time_window` to an entity that
calls them otherwise, and breaks two NOT NULL columns; rules are in the table
from the start.  The gateway that is injected has no `register`, so the SSE stream
throws and a push reaches web sockets alone; who listens there is left out.

### Reports and Revenue

`snapshots` and `posts` are the two tables, `active` the profiles with `isActive`,
which `confirmPages` and `disconnectMeta` change (`Select`) and the mail asks for; the
screens are asked for those, or for more by a client that still shows them (`Asked`).
Each report is an operator over them:
`Total` and its companions for `POST /aggregate`, `PageTotal` for the figures by
page, `SmartEngagements` for the view of one profile, `MailTotal` for the mail.
Days are those of Asia/Kolkata; an instant 2d lies in the hours of day d in which
UTC is still at the day before, 2d + 1 in the rest.  A date column comes back as
the midnight of the process, and the screens key it with `toISOString`: outside UTC a
snapshot is found under the day before (`KeyDay`, `analytics.controller.ts:487` and
`:592`), in UTC a post of the first hours of a day (`DbDay`).  A relative range ends now, and
its current window is one day longer than the one before it.

`Revenue` adds the last part of a sync.  `worker` fetches a window with its
fallbacks (which calls fail is chosen), saves `revenues` (`daily_revenue`), and copies
the amounts to the snapshots row by row; `purge` is `disconnectMeta` with
`deleteData`; `team` is `revenue_mappings`.  `stale` holds the rows whose copy failed,
found no snapshot or is under way, `overlap` that a deletion met a sync.

Three things found while translating.  The parser gives nothing for the answer
which the comment at `meta.service.ts:529` calls shape B, so such a window falls to
its total.  A window with a bonus only counts as "not segregated", so the bonus
is not kept as one, only in the total.  Days missing from a breakdown are not
corrected, whatever the comment at `sync.processor.ts:378` says.  In all three the
total is right, which is what `RevenueIsTrue` states.

Assumed: the profile ids of a request are distinct; the impressions of a snapshot
are zero or at least its reach (the mail takes the first that is not zero, the
screens the greatest).  What a day earned does not change later, and rounding is
left out.  The six fallbacks of a window ask Meta for different metrics, with and
without a breakdown and in different units (`toDollars`); every one that answers is
taken to give the same total for a day, in dollars (`Amounts`), so `RevenueIsTrue` says
what this code does with the answers, not that Meta's metrics agree.

### PageMappings and Traffic

`mapping[id]` is a row, `patch[q]` a run of `update` or `batchUpdateTeam`: the write
of the row (`WriteRow`, `BeginBatch`), the read of it (`FindRow`), the update of all
rows of its page (`UpdateTeamByPageName`).  Create, import and delete are single
steps.  `mixed` holds the pages whose rows the code lets differ: a row that came
by create or import, or an update that failed after its first write.  A PATCH
without a team means `Unassigned`, and takes the team from all rows of the page.

`sync[s]` is a run of `syncBigQueryData`: one query, then batches that are summed by key
and upserted.  `daily[k]` is the set of source rows a key's sum stands for, and
`split` the keys one run cut in two batches.  A key is a day, a source and a medium; the
sync stores every source, the sheet asks for `SheetSources` only (`Found`, the `ILIKE`
condition of `csv-generators.service.ts:53`).  Its lookups are operators over both tables; they accept any order in which the database returns mappings.

## 3. Runs

| Run | Shows |
|---|---|
| `publishing_concurrent` | two clients with any routed operation on one post, bodies that carry a status, three calls, two crashes, one failed query, stalls and retries: `AtMostOncePerArm`, `ApprovedBeforePosted`, `PublishedWasPosted` |
| `publishing_serial` | clients one at a time who edit drafts only and leave the status out, six calls, a crash, a failed query and time passing anywhere: the row implements `PostLifecycle` (`LifecycleSpec`), `ScheduledHasJob`, `NeverEarly`, `OneDecisionPerSubmission`, and liveness, `ScheduledIsResolved` |
| `publishing_stuck` | violated: `publishing` is for ever after a crash |
| `billing` | two events at a time, one lost, evictions that fail: `MatchesStripe` (events in order), `NoLateGrant`, `CacheConverges` |
| `inbox` | polls of each kind of platform, reply, edit, reconnects and any two faults: `NoGap`, `AnnouncedOnce`, `LastCoversRows`, `ReplyKept`, `EveryMessageArrives` |
| `meta_sync` | two requests of any kind, cron, worker, one fault: `SyncingHasOwner`, `CompletedHasHistory`, `NoOrphans` |
| `meta_sync_ends` | one request, cron, two faults: `SyncingEnds` |
| `sessions` | two browsers, two requests of any kind at a time, any of which may die: `StaysSignedIn`, `SessionsDoNotMultiply`, `ResetEndsSessions`, `RevokedForGood` |
| `alerts` | two events over two rules, one of which is edited or deleted meanwhile, one fault: `FiringLeavesAll`, `CardsTellTheTruth`, `EveryEventIsHandled` |
| `connections` | two grants, two workspaces, two confirmations of any of them, expiry, one fault: `OnlyChosen`, `ConfirmedIsComplete`, and the refinement of `Offers` (`OfferSpec`) |
| `reports` | every table of up to three rows, syncs of revenue, a deletion and changes of the selection among them, every period: `ReportsAgree`, `RevenueIsTrue`, `RevenueIsReported` |
| `traffic` | two rows of mappings, two edits, two syncs, two sources of which the sheet has one, one failure: `TeamsAgree`, `TrafficIsReported` |

The types are an invariant of `billing`, `sessions`, `publishing_concurrent`,
`inbox` and `meta_sync`; for `Alerts`, `Connections` and `PageMappings` they are
part of a proved invariant.  The one violated property contradicts a comment of
the repository, which `PROJECT.json` quotes.

### Bounds

- *Publishing.*  Two requests suffice for every pair of read and save that can
  overlap; a third could only repeat one of them.  Bodies carry `review`,
  `approved`, `scheduled` and `published`, so three calls reach a published post
  from any of them with two more interfering, and the whole way from a draft as
  well; two crashes exceed the single restart Bull grants (`MaxStalls`), so jobs also
  end by stalling.  One tick separates past and future; the serial run has two, for
  drafts whose time is moved before they are scheduled and for events whose time
  passes before their handler runs, and two profiles, for a run with one success
  and one failure.  The theorems of section 5 do not depend on these bounds.
- *Billing.*  Two changes at Stripe make up to four events, with two processed at
  once.  `TTL = 2` distinguishes an entry that ages from one that ends.  One
  customer: section 4 says what becomes of a second.
- *Inbox.*  A connection of each kind of platform, one inbound message, one reply and
  two ticks: each property speaks of one message against the poll; `MaxEvents = 2`
  lets a fault hit a poll and its retry.  `Lookback = 1` leaves a message of the first
  tick to a first poll of the second one, except on LinkedIn and TikTok.  Both ticks
  lie in one second (`WholeSecond`), so Meta's filter reaches back behind
  `last_synced_at`, and a TikTok message stamped before it is lost.  A TikTok message
  that a second poll has in sight needs a second second: that case is left to the
  theorems, which hold for any clock.
- *MetaSync.*  `Depth`, `Cap` and `Chunk` keep the order 85 <= 90 and a chunk
  shorter than the history (two chunks or more per import, the last one partial);
  the clock runs from day `Cap` to `MaxDay`, one midnight later.  `Jobs` has
  an entry for all requests and days, so no job is lost to a bound.
- *Sessions.*  Three rows and five calls: a login and the two refreshes that race
  for its token, with a reset or a second browser beside them.  Two requests
  overlap; the theorems hold for any number.
- *Alerts.*  (Thresholds below zero are left to the theorem.)  Two rules, a fall of more than 50 % with mail and any rise without,
  and two events, so that each rule is evaluated twice at once and a failure of
  one has another rule behind it.  Values 0..2 have the zero, the exact half and
  both directions.  One request, one fault; the theorems hold for any number.
- *Connections.*  Two pages of which one has an Instagram account, one LinkedIn or
  TikTok member, two links and two requests: a selection of two breaks after the
  first, and two confirmations of one token, or of two workspaces, overlap.
- *Reports, Revenue.*  One Facebook and one Instagram profile, for the platform
  tests; three days, for a period with a day before and one after it; windows of
  one day, so that a sync has several; amounts that differ in every digit.  Three
  rows, syncs, deletions and selections together: each property fails, if it does, on
  one row and what was done to it.  `ProcessInUTC` is how the container runs; the
  opposite is a constant away, holds as well, and is part of the theorem.
- *Traffic.*  Two rows of one page or of two, one team and none; four source rows
  of three keys, one of them of a source the sheet does not ask for, with batches of
  three, so a key is cut in some orders and not in others; amounts 1, 10, 100 and 1000
  tell every sum of rows.

`CHECK_DEADLOCK FALSE` everywhere: a system whose clients stop calling, and
whose clock and budgets are bounded, comes to rest.

### Fairness

Weak fairness on every action that continues something started: Node runs the
continuation of a settled promise, Bull serves a waiting job, restarts a stalled
one and promotes a delayed one when it is due.  The inbox cron fires for ever;
the daily cron is not obliged to come.  In `Billing` the clock has strong
fairness, since it is held back while a guard runs (a guard takes
microseconds, a tick two and a half minutes).  No client, contact, crash, failure
or Stripe change is ever obliged to happen.

## 4. Properties that are relative

Some properties state their excuse in the formula because the code does not
repair what a failure leaves behind, and says so nowhere:

- `MatchesStripe` needs events in order and none lost.  Out of order, the last
  writer wins and no later step corrects it.
- `NoGap` and `EveryMessageArrives` are about messages in sight when they came.  They
  leave out messages that arrive between the fetch of a poll and its update of
  `last_synced_at`, which stores the later time, and on LinkedIn and TikTok those
  stamped no later than `last_synced_at` (`linkedin.adapter.ts:143`,
  `tiktok.adapter.ts:128`; a TikTok comment of the same second is enough): such
  messages can be missed for good.  They also leave out what a poll was `blind` to:
  second pages, swallowed errors, the reach of a first poll.
- `LastCoversRows` leaves out the stale save of `updateThread`.
- `SyncingHasOwner` and `SyncingEnds` leave out a request that dies between
  marking and queueing (the cron skips a SYNCING profile).
- `CompletedHasHistory` leaves out a profile one of whose imports broke: chunks
  are written oldest first, so a broken one passes the test of the oldest day.
- `NoOrphans` leaves out a sync that writes to a table after the deletion has passed it
  (revenue first, `auth.Controller.ts:185`), or that is still to write when the profile
  goes: its rows stay (`sync.processor.ts:194`).
- `NeverEarly` is about clients who edit drafts.  A PATCH of `scheduledAt` on a
  post that is already scheduled does not move its job, and the post goes out at
  the old time.
- `StaysSignedIn` excepts a browser one of whose requests died: its old token is
  spent, and the new one is lost with the answer.
- `SessionsDoNotMultiply` counts a refresh whose session another had spent
  meanwhile as one that opens a session: the update that revokes has no condition,
  so two tabs that refresh at once both get one.
- `ResetEndsSessions` excepts the sessions of requests the reset overtook: a
  login that compared the old password, or a refresh that read its session, goes
  on to insert a live row.
- `ApprovedBeforePosted` and `PublishedWasPosted` except a status that a body wrote:
  `PATCH {status: 'approved'}` and a `schedule` after it publish a post nobody
  approved, and `PATCH {status: 'published'}` declares one that no platform has.
  A body that writes `scheduled` publishes nothing: it starts no job.
- `ScheduledHasJob` and `ScheduledIsResolved` except a post whose event was `dropped`:
  its handler came after the scheduled time and was refused, met a running job, or
  failed or died before `add`.  The error is logged and forgotten, and the post
  stays `scheduled` (`publish.service.ts:68`).
- `EveryMessageArrives` leaves out a connection whose poll Bull gave up: the failed
  job keeps its id, so the connection is never polled again, although the comment at
  `inbox-poll.processor.ts:60` has `add` drop a poll only while the previous one has
  not finished.
- `FiringLeavesAll` excepts a firing in which an await threw or the process died
  (nothing completes the five effects later), and, for the two stamps, a rule that
  is gone or that an edit wrote back from an older read.  `EveryEventIsHandled`
  excepts handlers that died.
- `CardsTellTheTruth` excepts what the card of a `pct_drop` or `pct_rise` rule says of
  the trend when the rule's threshold is below zero: the DTOs (`@IsNumber` without
  `@Min`) and the migration take one, a `pct_drop` rule with it fires on a rise
  (`alert-engine.service.ts:263`), and its card reports a drop.  That a critical card
  stands for a loss of more than half is said of every threshold.
- `OfferSpec` closes an offer only when the last confirmation that had loaded it is
  over: the entry is read first and deleted last.
- `PagesAddUp` (part of `ReportsAgree`) says that the totals lack exactly the rows that
  are found under a day before the first of the period: in UTC, posts which the database
  dates so, elsewhere the snapshots of the first day.  The sums by page have them,
  though the comment at `analytics.controller.ts:794` calls the metrics the same.
  `MailAgrees` and `AudienceIsCarried` compare the mail with the screens of the active
  profiles: it has no others.
- `RevenueIsReported` compares the mail with what the screen has of the active pages:
  a page that was deselected or disconnected keeps its rows, which the screen and the
  teams still add up and the mail does not (`csv-generators.service.ts:259`).  It excepts days whose copy failed or found no snapshot, a deletion
  half way through, and any later state when a sync met a deletion: its rows may be
  in one table and not in the other.
- `TeamsAgree` excepts pages in `mixed` and pages with an update under way.
- `SheetAddsUp` (part of `TrafficIsReported`) is about the sources the sheet asks for.
  `SyncedIsWhole`, its other part, excepts the keys in `split`: the sum of
  the second batch replaces that of the first.

Some behaviour has no property because there is nothing left to hold:

- Two transitions of a post at once overwrite each other
  (`ops-schedule.service.ts:240`); `LifecycleSpec` is about clients one at a time,
  and `publishing_concurrent` shows what survives.  So is everything
  `publishing_serial` checks: with two clients a later schedule can lose its job to
  the event of an earlier one, and a submission can get two decisions.
- A checkout for a workspace that has a row already (every workspace, since its
  creation inserts one) makes a customer at Stripe that
  `ON CONFLICT DO NOTHING` never stores (`stripe.service.ts:381`), so the next one makes
  another.

## 5. Proofs

`PublishingProofs` proves, for any sets of requests and profiles, any operations
and any bounds (from `OpsAssumption`, `BodyAssumption`, `BoundsAssumption`,
`FlagsAssumption`):

| Theorem | Statement |
|---|---|
| `Inductive` | `Spec => []IInv` |
| `TypeCorrect` | `Spec => []TypeOK` |
| `PublishesOncePerArm` | `Spec => []AtMostOncePerArm` |
| `PublishesOnlyApproved` | `Spec => []ApprovedBeforePosted` |
| `PublishedIsTrue` | `Spec => []PublishedWasPosted` |

None of the three properties is inductive.  `IInv` adds:

- `JobInv`: a busy worker holds the active job.  Hence no second worker, no
  removal of a job that is running, and a job that can still run has runs left.
- `ArmInv`: for each profile, publications made, plus one if the post is armed
  (`scheduled` in the row, or read by a worker that is about to overwrite it),
  plus one if the running worker may still publish there, never exceed the saves
  that armed the post.  Marking `publishing` moves the credit from the row to the
  worker; a stale save that writes `scheduled` again counts as a new arming.
- `ApprovalInv`: a row that says `approved`, a request that read it so, a handler on
  its way to add the job, the job and every publication are later than an approve
  or a body that said `approved`.  The handler is the point: `schedule` reads
  `approved`, its event is the only one that adds a job, and a row that a stale save
  or a body made `scheduled` has none.
- `PublishedInv`: a row that says `published`, and a request that read it so, is later
  than a publication or a body that said it; a success the worker counts is later
  than a publication.

Each step lemma (`TypeStep`, and one per conjunct) has a case for every action
of `Next`.

What `publishing_serial` checks is proved too, from `SerialClients`: one request at a
time, no update or deletion of a post that has left `draft`, and no status but
`draft` in a body.  Crashes, failing calls, stalls and the clock stay free.

| Theorem | Statement, under `SerialClients` |
|---|---|
| `SerialInvariant` | `Spec => []SerialInv` |
| `ImplementsLifecycle` | `Spec => LifecycleSpec`: the row implements `PostLifecycle` |
| `PublishesInTime` | `Spec => NeverEarly` |
| `DecidedOnce` | `Spec => []OneDecisionPerSubmission` |
| `ScheduledIsQueued` | `Spec => []ScheduledHasJob`, if the processor is enabled |

`SerialInv` is what makes a handler's copy true.  `ClientInv`: a request that waits
for its save has read what is still in the row.  `MarkedInv`: from its mark to its
last save the worker has the row to itself.  `QuietInv`: before a post is scheduled
there is no job and no handler.  `DueInv`: the job of a scheduled post, and every
delay under way, ends no earlier than the row asks for.  With it each action maps
to one of `PostLifecycle` or to a stutter.  `DecisionInv` counts a post in review, and
a decision not yet recorded, as a claim on a submission: `submissions` bounds
them and the decisions together.  `QueuedInv` adds that no cancellation meets a
scheduled post and no run of the worker ends on one.  The hypotheses are needed:
section 4 says what happens without them.

`SessionsProofs` proves, for any sets of browsers and requests and any bounds (from
`BoundsAssumption` alone):

| Theorem | Statement |
|---|---|
| `SessionsInvariant` | `Spec => []IInv` |
| `SessionsTypeCorrect` | `Spec => []TypeOK` |
| `SessionsStaySignedIn` | `Spec => []StaysSignedIn` |
| `SessionsEndWithReset` | `Spec => []ResetEndsSessions` |
| `SessionsRevokedForGood` | `Spec => RevokedForGood` |
| `SessionsAreCounted` | `Spec => []SessionsDoNotMultiply` |

What the properties miss, and `IInv` adds, is who knows which session.  `HoldInv`:
a row a request has inserted is named by no other request and in no jar until
its answer arrives.  `HeldRowInv`: until the second save its hash is `pending`, so
that save cannot undo the revocation of a session in use.  `KnownInv`: a session
is in one jar at most, and only requests of that browser spend it.  `StayInv`,
stronger than `StaysSignedIn`: a spent token in a jar has a refresh under way that
names it.  `SinceInv`: no proof is newer than the last reset, and a request that
may still insert a row was overtaken or dates from after it.  Here each action
has a lemma, with a step for every conjunct.  `CountInv` counts, beside the live
sessions, the rotations that have spent one and not yet inserted the next: together
they are at most `opened`, so a rotation that fails half way loses its session and
never doubles it.

`BillingProofs` (from `BillingAssumption`, which bounds the constants): `BillingInvariant`,
`BillingTypeCorrect`, `BillingGrantsInTime` (`NoLateGrant`).  A late fill may put
an old plan back into Redis after the eviction, so the argument is about ages.
`RowInv`: a request that the row allows is not barred.  `CacheInv`: for an
entry that allows a request, the time barred so far plus the life left to the entry
is at most the TTL.  `FillInv`: what a guard is about to store it read
since the last tick, so a fill starts at the right age.  `BillingMatchesStripe`
(`MatchesStripe`) follows the events as long as none is lost or out of order
(`OrderInv`).  `CustomerInv`: the row has the subscription's customer, or the checkout that
brings it is ahead of all other events.  `NewsInv`: the last event says what the
subscription is, wherever it is: on its way, in a handler at each `pc`, or in the
rows.

`InboxProofs`: `InboxInvariant`, `InboxTypeCorrect`, `InboxSkipsNothing` (`NoGap`),
`InboxAnnouncesOnce`, `InboxCoversRows`, `InboxKeepsReplies`.  `TimesInv` orders the times
of the connection and of its job; `JobInv` ties the worker to the active job; `TodoInv`:
what the worker still has to insert came with its fetch; `DueInv`: a due
message that is missing passes its platform's filter for the connection and for the
queued poll (`Owed`), and is on the list of the running one; `ReplyInv`: a reply has its pending row before the platform
sees it; `FreshInv`: what a poll will announce is stored and not yet announced.  That the newest of a bounded set of
times exists (`GreatestExists`) rests on the well-foundedness of the naturals.

`MetaSyncProofs`: `MetaSyncInvariant`, `MetaSyncTypeCorrect`, `MetaSyncHasOwner`
(`SyncingHasOwner`), `MetaSyncLeavesNoOrphans` (`NoOrphans`), `MetaSyncHasHistory`
(`CompletedHasHistory`).  `WorkerInv`: a busy worker
holds an active job; `FreshInv`: each request has a job of its own and has not added it
while it is not over, which is why an `add` is never ignored; `OwnerInv`:
who will still settle a SYNCING profile; `WriterInv` and `DeletionInv`: a sync writes for
a profile that is there, and a table that was deleted stays empty, unless `overlap`.  `HistoryInv` says it of every
connected profile, COMPLETED or not: the old days are there, or a job will have
written them when it ends (`WillHave`: what its chunks have passed is written, oldest
day first), or a request will add such a job.

`ConnectionsProofs`: `ConnectionsTypeCorrect`, `ConnectsOnlyChosen` (`OnlyChosen`),
`AnswersWhenComplete` (`ConfirmedIsComplete`), `ImplementsOffers` (`OfferSpec`).
`FlowInv` and `RequestInv` say what a callback and a confirmation hold at each `pc`: profiles
that were granted, to the same workspace.  `SpentInv`: an entry is deleted only by a
confirmation that had nothing left of its selection, whether it answered or not.  The refinement is proved step by
step: each action maps to one of `Offers` or to a stutter.  `Stays` says what no step
takes back, such as the grant of a flow whose profiles are known.

`AlertsProofs`: `AlertsTypeCorrect`, `FiringsAreWhole` (`FiringLeavesAll`), `CardsAreTrue`
(`CardsTellTheTruth`), `EventsAreHandled` (`EveryEventIsHandled`).  `HandlerRight`
says where a handler stands in the list of its rules; `Good`, for each event and rule,
which effects of the rule at hand are out at each `pc` (`Progress`), and that a rule
the handler has still to come to has none (`ToCome`).

`FiguresProofs` proves what the reports add up.  A sum is a fold of the library over
a set, defined by `CHOOSE` of a recursive function, so the first part shows that
for a finite set this function exists and is unique, and from it that the order of
terms does not matter, that sums of two sets, of two functions and of all parts
of a set add up (`SumTake`, `SumUnion`, `SumPlus`, `SumParts`).  Induction on finite sets is
by a smallest counterexample (`Smallest`), which the library's theorem on strict
subsets gives without an operator parameter; `AudienceIsCarried`, a recursion
over days, is proved by the least day that differs.

| Theorem | Statement | Hypotheses |
|---|---|---|
| `PagesTypeCorrect` | `PagesSpec => []PagesTypeOK` | |
| `PagesAgree` | `PagesSpec => []TeamsAgree` | |
| `PagesAgreeInTraffic` | `TrafficSpec => []TeamsAgree` | |
| `SyncsAreWhole` | `TrafficSpec => []SyncedIsWhole` | |
| `TrafficAddsUp` | `TrafficSpec => []TrafficIsReported` | rows, media and teams are finite; no medium has the name of a page |
| `StoredRevenueIsTrue` | `Spec => []RevenueIsTrue` | |
| `RevenueAddsUp` | `Spec => []RevenueIsReported` | pages, profiles and teams are finite |
| `ReportsAgreeAlways` | `Spec => []ReportsAgree` | profiles are finite |

- Mappings.  `SettledAgree`, stronger than `TeamsAgree`, speaks of rows to which no update
  is owed; `FindsARow`: an update that reads its row back knows which.
- Traffic.  `SyncInv`: a key no run cut has all rows of one query (`OneQuery`), and a run
  that is alone has stored each key it has nothing left of (`AllStored`).  The sheet
  is then split row by row, key by key, medium by medium, page by page and team by team.  The
  hypothesis on names is needed: a medium without a mapping is listed under its own
  name, and if a page has that name too, the code puts both in one bucket, under the
  team of whichever comes first (`csv-generators.service.ts:85`).  `TeamsAgree` is about
  the mappings and cannot exclude it.
- Revenue.  `EarningsInv` carries Meta's totals through every window, fallback and
  merge into rows and worker.  `TeamsInv`: a page with rows has a team, also half way
  through a deletion, unless `overlap`.  `CopyInv`: the snapshot of a day that is not in
  `stale` says what the day's row says, and a day without snapshot has no row.  Hence
  both tables have the same sums over the active pages.
- Reports.  These hold in every state whose tables, and selections, are finite, typed and have one
  snapshot a profile and day (`TablesInv`); with the theorem they hold for either
  value of `ProcessInUTC` and any number of days.

Only model-checked: liveness (`ScheduledIsResolved`, `CacheConverges`, `EveryMessageArrives`,
`SyncingEnds`), which needs fairness and `ENABLED`.  Every other property of a
run that passes is a theorem.

## 6. Not modelled

- Campaigns, invites and roles of a team, the audit log: writes of a single row
  that nothing of what is modelled reads.  Guards other than the plan guard decide
  from the token and one row, and keep no state.
- The register of open sockets and streams: a push is counted when it is made.
- The figures the Graph API returns.  `Reports` starts from rows; that a failed
  call stores zeros over real figures (`meta.service.ts:93`) is a hazard without a
  property, since nothing in the code tells such zeros from true ones.
- Headlines, demographics, the revenue sheet by page, the formatting of e-mails
  and CSV files, SMTP and the crons that start them.
- The import of legacy UTM rows and the SQL of its dashboards.  An import with one key
  twice in a batch fails on PostgreSQL; the shorthand filter `fb` never applies, since
  the controller makes an array of it and the service compares it with a string.
- Wording, pagination, DTO validation, the values of tokens, OAuth redirects.
- Migrations run before the program; the unique indexes and cascades they declare
  are part of the actions that meet them.

## 7. Plan

Done: all modules of section 2, and the proofs of section 5.

Left:

1. The register of open connections; campaigns; the figures and demographics a
   sync reads.
2. The publishing queue with two clients: which of two schedules keeps its job.
