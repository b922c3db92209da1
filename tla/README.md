# Verification of the real-estate SaaS backend in TLA+

The repository is a multi-tenant platform for real-estate organisations: a NestJS
backend over Prisma and PostgreSQL (`src/backend`) and a Next.js client
(`src/frontend`). An organisation signs up, subscribes to a plan, builds landing
pages from templates, publishes them on its domain and works the leads they bring;
a Super Admin approves, prices and edits all of it.

The modules here model the backend's core logic and the two stateful parts of the
client (its session and the page builder's document), translated from the code. TLC
checks the models on small instances; TLAPS proves the main safety properties for
every value of the constants. `PROJECT.json` ties every definition to the lines it
models, every property to a mutant of the code that breaks it, and every hazard to
the properties that watch it.

Contents: 1 the system, 2 how it is modelled, 3 the modules, 4 runs, 5 bounds,
6 fairness, 7 proofs, 8 what the code does not keep, 9 what is not modelled,
10 roadmap.

## 1. The system

### How it runs

One Node process serves every request. A handler is a chain of `await`s on Prisma,
and other handlers run at each of them. Transactions (`$transaction`) are few, run
at PostgreSQL's default isolation and take no locks. There are no partial unique
indexes ("at most one non-cancelled subscription" is a comment, not a constraint)
and a unique violation (P2002) is handled in only a few places. Background work is
timers inside the same process: the hourly subscription sweep and the marketing
syncs. So the hard behaviours are, nearly everywhere, the same three: a check and
the write that depends on it are separate calls; a row is written by its id with
what was decided on an earlier reading; a handler stops between two writes.

### Components

| component (under `src/backend/src`) | state | operations | talks to | hard | correct when |
|---|---|---|---|---|---|
| subscription lifecycle `common/utils/subscription-lifecycle.util.ts`, `subscription-lifecycle.sweeper.ts` | subscriptions (status, cycle, `renewsAt`, `graceEndsAt`), notifications | sweep (timer, and lazily before most billing reads), renew, the plan that counts, the publishing gate | every billing handler, notifications | sweeps overlap each other and renewals; failures half-way; restart | a term or grace window is ended by its own date, in the end always, announced once |
| subscriptions (Super Admin) `modules/subscriptions` | the same rows | create, PATCH, soft cancel, renew | lifecycle, plan limits | revival of an ended row, create twice | one live subscription per organisation |
| organisation billing `modules/org-billing` | the same rows | renew, changePlan, derived invoices | lifecycle, plan limits | stale reads, invoice dates | renewal ends grace; a switch fits the usage |
| package change requests `modules/package-change-requests` | requests | submit, cancel, approve, reject | subscriptions, plan limits, notifications | two deciders, growth between submission and approval | one open request, one decision, switch with the approval |
| plan limits `common/utils/plan-quota.util.ts` | none of its own | resolve a limit, compare with usage, before adding or switching | all creators of limited things | check then act | nothing added beyond the limit that binds |
| plans `modules/plans` | plans (limits, `isActive`) | create, edit, delete | requests, billing | edited while requests are open | the system plan stays active |
| onboarding `common/utils/onboarding-finalize.util.ts` | organisation, subscription | attach the Basic plan, wizard steps | subscriptions | finalised twice | as for subscriptions |
| landing pages `modules/org-landing-pages` | pages with a thank-you companion | create, get (heals), update, publish, unpublish, remove, duplicate | plan limits, templates | healing twice, publication against a changing plan, three writes of one removal | one companion each, entitled publication, edits offline until republished |
| organisation templates `modules/org-templates` | assignments | assign, unassign, set by the Super Admin | plan limits, pages | unassigned while a page is built | a template in use holds its slot |
| templates `modules/admin-templates` | templates | create, edit, delete, reset | assignments, pages | deleted while in use | references follow |
| organisations `modules/admin-organisations` | organisations | approve, reject, suspend, activate drafts, set templates | subscriptions, users, pages | approval of a moving target | one approval, portal put up once |
| authentication `modules/auth` | refresh tokens, reset links, codes | login, refresh (rotation), logout, change, forgot, reset, sign-up | users, guards, browser | a token revoked or exchanged while a refresh has read it; stamps of whole seconds | an ended session gets nothing any more |
| organisation users `modules/org-users`, `common/utils/org-users.util.ts` | users | invite, approve, disable, set status or password, resend, delete | authentication, plan limits, tickets | the member acts while the administrator does; seats taken around the quota | only an administrator lets a disabled member in; seats within the plan |
| permissions `common/guards`, `org-permissions` | role rows, overrides | resolve | every controller | three layers of overrides | deterministic resolution |
| leads `modules/leads`, `sales-agents`, `org-teams` | leads, assignments | stage, assign, reassign | users, teams | assignee disabled meanwhile | only eligible assignees |
| Meta leads `modules/meta-leads`, marketing `modules/marketing` | pages connected and their mirror, leads, sync state | webhook, sweep, sync, backfill, connect, disconnect | Meta, Google, leads | duplicated, late and lost deliveries, overlapping syncs, swallowed errors | every lead once, in the end, or the organisation sees the failure |
| organisation domains `modules/org-domain`, `admin-org-domain` | requests, and a copy in the organisation's row | request, assign, delete, approve, reject | sign-up, pages, public site, sign-in | two organisations, one host; two records of it | one signs in where the site is; no approved host, no address lost |
| support `modules/support` | tickets, messages, unread marks | raise, reply, hold, resume, close, open | notifications, users | ticket numbers from a count, marks cleared before reading | a number for every ticket, no message unmarked, resolved is final |
| team chat `modules/team-chat` | messages, read markers | send, read | users | markers moving back | unread counts only what is new |
| projects `modules/projects` | projects, units | create, edit, delete, book | plan limits | check then act | limit, one booking a unit |
| client session `src/frontend/lib/api.ts`, `auth-context.tsx` | tokens in the browser | call, refresh once, retry, sign in and out | authentication | calls refused at once, lost answers, several tabs | one exchange per token, every call ends |
| page builder `src/frontend/components/openpage/store` | document, page being edited, undo and redo stacks | edit, add and remove pages, undo, redo | pages | long edit sequences | undo and redo lose nothing and stay bounded |

Other parts (dashboards, settings, forms, email, uploads, views) only read, insert
or overwrite single rows; `PROJECT.json` lists them.

### How the modelled parts interact

The sweep and every billing handler share the subscription rows
(SubscriptionLifecycle). Package requests, the two direct switches and the creators
of limited things share subscription, plan limits and usage (PackageRequests), where
the life cycle appears as a single step that may set the state to anything. Pages,
assignments, templates and the plan that counts meet in LandingPages, where
billing appears as a step that may set plan and state to anything in a set.

A member meets the account at sign-in and at every guarded request (AccountSessions),
through a browser that exchanges refresh tokens on its own (BrowserSession): the
server finds a token and revokes it in separate calls, and relies on the browser not to
send it twice. An administrator who deletes a member takes that member's tickets along
(SupportTickets). Sign-up, the organisation, its pages and the platform all write the
two records of a host (OrgDomains). Webhook, sweep, Sync Now and connecting all end in
`ingestLeadgen` (LeadIntake).

## 2. How it is modelled

* **One action per database call.** Between two calls of a handler anything else may
  run. `pc` says at which call each handler waits; its locals (what it read) are in
  `req`, `sweep`, `found` or `job`. A `$transaction` is one action (the rows a
  transaction reads are written by the same handler alone).
* **Overlap.** Each module has a constant `Overlap`. With `TRUE` handlers interleave
  freely, as they do in production. With `FALSE` a handler begins only when none is
  in flight. The second is what the code's comments take for granted, and it is
  where most of its rules hold: section 8 says which do not survive the first. Faults
  and member actions are not restricted by it.
  The account and domain modules use the second form too, each for its reasons (section 3);
  tickets, lead intake and the browser always interleave.
* **Refusal.** An answer of 400, 403, 404 or 409, a failed call and a restart end a
  handler where it stands, with what it has written so far.
* **Data.** Dates are days from 0 and `NoDate` is SQL NULL; contents, names and slugs
  are left out, except that LandingPages remembers whether a published page still has the
  content it was published with (`edited`). Whatever a body may carry comes from a small
  set. Row ids are finite sets: a handler that inserts needs an id.
* **What the code reads in one query is read in one action**, also when it loops
  afterwards: the sweep's decisions are made on the rows of its `findMany` and
  written later by id.

## 3. The modules

### SubscriptionLifecycle

`sub` is the `subscriptions` table of one organisation, `unread` the unread
notifications of each member by row and kind, `now` the clock. A sweep goes
`SweepStart` (policy, then clock), `SweepRead` (`findMany`; `Verdict` is the chain of
conditions at lines 140-199), then per row `Lapse`, `Remind` or `EndGrace`, and
`CountUnread` / `Deliver` for its notice (`ensureOrgNotified`). The organisation's
renewal sweeps twice (once in the service, once in `renewOrgSubscription`), finds the
live row and writes it; the Super Admin's goes through `Lookup` and revives a cancelled
row in place. `WriteUpdate` is the PATCH: the status it names, grace cleared
unless it keeps or sets `past_due`, and the billing cycle read earlier when only the
plan is named. `create`, `changePlan`, an approved package request and onboarding
share `Find`/`FindNone` and insert by `WriteCreate`. `FailSweep`, `FailRequest` and
`Restart` are the faults; a restart loses the handlers and begins with the boot sweep.

### SubscriptionRules

The abstract specification of the same rows: time passes, a term lapses, a grace window
ends, a request renews, changes, approves, creates, edits or cancels, each in one step that looks
at the rows as they are in that step. It knows no handler, no reading and no notice. `KeepsRules`
is `Rules!Spec`, under the mapping that forgets them: a handler counts as having happened when
it writes. The end of a term that an approval or a first subscription writes may be counted from any
earlier instant (the code computes it before further calls), a renewal's only from the write's own.

### PackageRequests and PackageRequestContract

`request` holds the open and decided requests, `sub` the package and whether it is
usable, lapsed or cancelled, `usage` two of the limited things, one for each way the code
finds the plan that binds: projects (as users) go by the subscription whatever its
state, pages (as templates) by the subscription if usable and by the Basic plan
otherwise. `After` is the order of checks of each operation; the Super Admin's `AdminCreate` looks for
a subscription, compares the plan with what is used, and inserts (`WriteAdminCreate`). `EditPlan` lets the
Super Admin change limits and activity between any two requests, `Lifecycle` lets the
subscription lapse, and growth and deletion move `usage`. `Attach` is what onboarding
(`assignBasicPlanIfMissing`) and the approval of an organisation do where there is no subscription, after a
cancellation too: they insert one without looking at what is used. `SwitchFitsUsage` therefore speaks of
every change of plan but that one.

PackageRequestContract is the abstract specification: a request is submitted when none
is open, decided once, and its approval switches the package in the same step.
`KeepsContract` is `Contract!Spec` under the mapping that forgets handlers, usage and
limits.

### LandingPages

`page` holds landing and thank-you pages with status, source template and parent,
`assigned` the organisation's templates, `catalog` the templates that exist, `plan`
and `sub` the subscription. Every page handler begins with `Own` (`getOwned`), which
reads the page with its companion and goes to `heal` if a landing page has none
(`InsertThankYou`, which uses the status the page had when it was read). `ReadGate`,
`ReadTarget`, `CountLive`, `ReadAssignment` and `CountDistinct` are the calls of
`assertOrgCanPublish` in their order; `ReadPlan` and `CountPages` those of
`assertOrgLandingPageQuota`, which, unlike the gate, falls back to the Basic plan.
Publication writes the page and then its companions; removal deletes the companions and then
the page; duplication inserts the copy and then the copy of its companion. `Without` is
ON DELETE SET NULL. `OnDomain` is what `resolveByHost` and `resolveByDomain` may choose from for the
organisation's own domain: published rows. The initial state is an organisation just approved, with or
without the portal pages of `provisionOrgPortal` (`Portal`).

TemplateSlots is what the slots of a plan amount to: a template the plan grants is taken while there is
room, given back only if no page is built from it, dealt out by the Super Admin, withdrawn with its
assignments; pages are built from what is assigned. Each step looks at plan, templates and pages as they
are and writes at once. `KeepsSlots` is `Slots!Spec` under the mapping that forgets handlers and keeps of a
page only the template it is built from (`Built`). It says what the comment on `unassignTemplate` is
afraid of cannot happen: drawing on more templates than the plan has slots by taking, building and
returning in turn. A downgrade takes nothing away, so the assigned templates may exceed the plan; what is
bounded is each taking. `SlotHeld` (every page's template is assigned) follows from these rules; the run
bad_slot checks it on its own, where overlapping handlers break it.

### AccountSessions

One member's row (`account`), its refresh tokens (`live`), reset links (`link`) and the
access tokens that clients may present (`access`; the server keeps no copy). `ended`
and `over` remember which of them belong to a session that an administrator or a reset has
ended: they are bookkeeping for the properties. `clock` counts thirds of a second
because `iat` knows whole seconds only (`IssuedAt`) and `tokenInvalidBefore` is exact.
`Admits` is the member's part of OrgApprovedGuard. A handler that decides on what it read is
two actions: `ReadLogin`/`Login`, `ReadRefresh`/`Refresh`, `ReadChangePassword`/
`ChangePassword`, `ReadForgot`/`Forgot`, `ReadApprove`/`ApproveUser`, `ReadResend`/`Resend`.
`EndSessions` is the transaction that stamps the row and revokes every token, shared by
disabling, an administrator's password, new credentials and a reset. `Issue` hands
out a pair although the insertion of its refresh token may have failed. `Pass` lets
tokens and links expire, `Abandon` is a failure or restart. `Concurrent` plays the part of `Overlap`.

### BrowserSession

`stored` is the pair in local storage, `call` the state of each `apiFetch`, `flight` the
refresh a call has started for its tab (the module variable `refreshPromise`), `row` the
server's rows. `Refused` is a first 401; `Join` awaits the promise there is, `StartRefresh` makes
one, `GiveUp` has nothing to refresh with. On the server `FindToken` and `Rotate` are the
two calls of `refresh`; the answer of `Rotate` may be lost. `Granted` and `Denied` end the flight
for all who wait. `Evicted` is `forceSessionEnd`, which loads the page anew; signing in and out
go on beside all this. `Reload` is a reload or the closing of a tab: its calls and the promise go, while the
server may go on with the exchange that was sent (`adrift`, `Exchanged`, the two calls of the server in one
action here). The browser then keeps a token that has been exchanged, and the next refresh signs the user
out; `StoredIsCurrent` and `ExchangedOnce` say that this is the only way to it. `TabOf` allows several tabs;
the statements about exchange hold in one.

### SupportTickets

`ticket` is the table, `unread` the sides with an unread notification, `unseen` the sides
that have not been shown every message, `desk` what each handler is at. `Count` and `Create` are
the two queries of the numbering transaction, `Retry` its P2002; `Take...` reads the ticket and
decides, the transactions write by id (`Reply`, `Answer`, `Close`, `Hold`, `Resume`, with
`Fails` when the ticket is gone), and staff handlers end by opening the ticket. Opening is `Mark`
and then `Show`; if it fails in between, or the side reads its notices at the bell (`MarkRead`, `Bell`), the
mark is gone and nothing was shown, which `dismissed` remembers for `UnshownIsUnread`. `RemoveMember` is the deletion of a member with its cascade.

### OrgDomains

`requests` is the table of claims in order of age, `primary` the copy in each organisation's
row. `Available` is the check of all claimants, `FallBack` the choice of another host when the one
in the row is lost, `Linked` and `Unpaged` what happens to a claim when its page is given or
deleted. Each handler is one action: overlapping ones are in section 8.

### LeadIntake

One Facebook page and one organisation. `page` and `mirror` are the two records of the connection,
`worker` what each sweep, sync or request is at. A worker goes through `check`, `find`, `store`
of `ingestLeadgen` for each lead; a sync first subscribes and then lists (`Subscribe`, `List`, `Pick`) the leads
in its reach (`listed`: the newest 25 of the active ones among 50 forms; `Relist` moves leads in and out).
Whatever goes wrong there is either swallowed with a line in the log or marked: `Overlook` (Meta declines to
list forms or leads) and `Miss` (a lead is not ingested) let the sync go on to success and put the lead
into `warned`, which the next listing of that lead takes back; `Refuse` (subscribing fails, a fetch throws) marks
the mirror. `Finish` is success. `Unlink` deletes the mirror, and a sync under way has nothing to mark any more.
`Stop` cuts work off: a restart, or a database that fails at the mark too. `Submit` and `notices` are Meta's part:
notifications may be lost, late and delivered again. `LeadsArrive` says that nothing is passed over in silence,
again and again: as long as the connection shows as connected and the lead is in reach, it is in the CRM or
the last sync that listed it logged that it was skipped.

### EditorHistory

`config`, `activePageId`, `undoStack` and `redoStack` as in the store. `ReworkBlocks` and
`MutateBlocks` are the two ways an edit of blocks is written, which differ when the page being edited is
gone; `SetLook` stands for theme, widgets, forms and settings. Documents have a page at least
(`ensurePages` supplies one), and since the pages of a document have ids of their own, the filter of
`removePage` takes out exactly one, which `Without` says by its place.

EditTimeline is what the two stacks amount to: a line of documents and a cursor. An edit puts a
new document behind the cursor and gives up what lay ahead (and the oldest one when there are more
than `MaxUndo` behind), undo and redo move the cursor, a preview changes the document in its place,
loading begins another line. `KeepsTimeline` is `Line!Spec` under the mapping undo stack, document
shown, redo stack backwards.

MCMembers composes the first three of these modules and MCSites the last three. They share no variable,
and a behaviour is one module's (`part`): the composition only lets one run check three. Fairness is
assumed of the part that moves, since a behaviour of another could not be fair to it.

Modules `MC...` hold the instances TLC uses, modules `...Proofs` the theorems.

## 4. Runs

| run | configuration | what it shows |
|---|---|---|
| sub_serial | no overlap, 2 rows, 1 member, 2 policies | a grace window opens only at the end of the row's own term, expiry comes only from `past_due` after its own grace date, only requests bring an ended row back, every handler comes to one step of the rules, no row is inserted next to a live one, no member has two unread notices of a kind |
| sub_overlap | a request and the timer overlap, 1 fault, fair scheduling | a running or paused row never carries a grace date, under every interleaving; every term and grace window within the horizon is acted upon |
| bad_expiry | as above, safety only | ExpiryOnlyAfterGrace is violated when a renewal falls inside a sweep |
| bad_one_live | no overlap, 2 rows | AtMostOneLive is violated by renewing or editing a cancelled row |
| requests | no overlap, 2 requests, 2 plans with editable limits | one open request, decisions final, what handlers switch to fits the usage as it is at the write, growth stays within the limit that binds, the contract is implemented |
| bad_decision | two overlapping handlers | DecidedIsFinal is violated: approval after cancellation |
| pages | no overlap, 4 pages, 2 templates, 3 billing situations | taking, returning, dealing out and building from templates keeps to the rules of TemplateSlots, the organisation's domain shows no edit that was not published, publication needs and keeps to the plan, one companion per page, which goes with it |
| bad_slot | two overlapping handlers | SlotHeld is violated: a page built from a template that is being taken back |
| members | one handler on accounts, one tab with 2 calls and 3 pairs, 2 tickets; tickets both with and without overlapping handlers | ended sessions get nothing, only administrators readmit, no token is exchanged twice and no exchanged token kept unless the page is left in the midst of it, every call ends, no message loses its mark unseen but by the bell or a failed opening, resolved tickets stay resolved |
| bad_numbering | as above | NextNumberIsFree is violated after a member with an earlier ticket is deleted |
| sites | 2 organisations, 2 hosts, a page, 3 claims; 1 lead, 2 workers; 2 pages, history of 2 | sign-in and site agree, an address is kept, leads are stored once, and arrive, or the failure shows or is logged, undo and redo are bounded, lose nothing, implement the line of documents, and alone can strand the editor |
| bad_row | as above | RowInStep is violated when a page is assigned another host |

The properties, each with its source, are at the end of the modules. A violation run
has one property that the repository states and the code breaks; the finding in
`PROJECT.json` quotes the statement.

## 5. Bounds, and why they are enough

* **Days.** A month is one day; a year one (sub_serial) or two. Only the order of
  `renewsAt`, `graceEndsAt`, notify window and clock matters to `Verdict`, and with
  `Horizon` 2 a term can end, its grace can end, and a renewed term can end again.
  Both policies occur: grace and notify of one day with `restrict`, none with `cancel`.
* **Rows.** Two subscriptions are what it takes for a second live row or a wrong row;
  the sweep treats rows independently. One row is enough where a race is about that row.
* **Handlers.** One request and the timer, or two workers: every race described in
  section 8 needs two handlers.
* **Faults.** One failure or restart in sub_overlap; the liveness argument after it is
  the same after the last of any number.
* **Requests, plans, limits.** Two requests show two open at once and a second
  after a decided one; two plans and two offers (one unlimited in projects, one of zero)
  show a switch up, down and a plan edited under an open request; `MaxUsage` 1 reaches
  both sides of the limits 0 and 1.
* **Pages.** Four ids hold a landing page with its companion and its copy with another;
  ids of deleted pages are given out again. Two templates, one with a thank-you template
  of its own. The plans allow two pages and one page of one template; a downgrade, a
  lapse and a missing subscription all occur after pages were published.
* **Accounts.** Two refresh tokens and one link, one handler: a token, its successor, and an ended
  session beside a new one. `LastInstant` 4 spans two whole seconds, so stamps fall before, at and after a
  second's start. TLC has also explored two overlapping handlers (section 8).
* **Browser.** Two calls of one tab share or race for a refresh; three pairs are the one stored, the one
  being exchanged and the fresh one. Ids of pairs nobody holds are given out again, so sessions have no last one.
* **Tickets.** Two tickets of two members, two handlers. Overlap is explored with one ticket at a time
  (`FewTickets`): the races are about one ticket, the numbering about two. Ids and members that are alike are
  used in one order (`Alike`); nothing depends on which of them is which.
* **Domains.** Two organisations and two hosts, three claims: one host claimed, lost and claimed by
  the other, and a second host to fall back to.
* **Leads.** One lead: what a worker does for one lead depends on no other, but that a sync goes on with the
  next. Two workers meet at it. Work is cut off once (`MaxStops`): what must come about after it must come about
  after the last of any number.
* **Editor.** Two pages, one block, two looks, `MaxUndo` 2: the stack overflows at the third edit.

The bounds are named where they bind: `Horizon`, `MaxFaults`, `RoomToCreate`,
`MaxUsage`, `LastInstant`, `MaxRequests`, `MaxStops`, `FewTickets`, `Alike`, and the finite sets of ids. Symmetry is used for ids only, and only in
runs without liveness properties.

## 6. Fairness

`FairSpec` of SubscriptionLifecycle assumes that time passes (`Tick`), that every
database call is answered or fails (`SweepStep`, `HandlerStep`), and that the timer
sweeps again after each sweep (`BeginSweep(Timer)`): `setInterval` in
`subscription-lifecycle.sweeper.ts` fires for as long as the process lives, a failed
sweep is logged and the next one comes, and a restarted process sweeps at
boot. Nothing is assumed of users: no request ever has to be made, no notice read.

`BrowserFairness` assumes that every request is answered or fails and that the browser runs what
follows: weak fairness of each call's steps. Nobody has to send, sign in or sign out.

`LeadFairness` assumes the hourly timer (`Sweep`; strong, because a connection that fails now and then is
not always up for the sweep) and that work begun goes on, be it with a failure (weak, per worker). No call to
Meta or to the database has to succeed, ever, and nothing is assumed of notifications. That a sweep comes to each
connection in turn rests on its order: 100 at a time, those synced longest ago first.

The other modules have no liveness property: nothing in them waits for anything
but the answer of the database.

## 7. Proofs

For every number of rows, handlers, members, plans, pages and templates, every
policy and every horizon. The `ASSUME`s are those of the models: ids distinct
from the "none" values, constants of their types, and finite sets of pages and templates
in LandingPages (their cardinalities are compared with limits).

| module | theorem | along which argument |
|---|---|---|
| SubscriptionLifecycleProofs | TypeCorrect | `TypeInv` adds that a request waiting at a call has the target that call needs |
| | GraceSafe (any overlap) | `GraceOnlyAfterLapse` is inductive beside `TypeInv`: every write that ends `past_due` clears the date, whatever was read before |
| SubscriptionSerialProofs (`~Overlap`) | LapseSafe, ExpirySafe, CancelledSafe, EndedSafe, InsertSafe | `SerialInv`: at most one handler is active, and (`HandlerInv`) what it remembers still holds: each decision of a sweep agrees with the row as it is now, a handler about to insert faces no live row |
| | NoticeSafe | `NoticeInv`: nobody has an unread notice when one is about to be delivered |
| | RulesImplemented | Init maps to Init and every step to a step of SubscriptionRules or a stutter, from `SerialInv` and `RulesInv`: what the handler was asked is a body it can be asked (`RequestOK`), and the row it is about to write is as it was when found (`SeenOK`) |
| PackageRequestProofs | TypeCorrect | as above |
| (`~Overlap`) | PendingSafe, DecisionSafe, SwitchSafe, GrowthSafe | `SerialInv`: the handler's request is still pending, the limits it holds are those of the plan, the limits not in `keys` have been found to suffice |
| | ContractSafe | Init maps to Init and every step to a step of the contract or a stutter, from `SerialInv` |
| LandingPageProofs | TypeCorrect | `TypeInv` adds that a handler that reads a page was given one |
| (`~Overlap`) | SlotSafe, SiteSafe, EntitledSafe, LimitSafe, RemovedSafe, CompanionSafe | `SerialInv`: one handler at most; rows hold their slots, are as published, and have existing parents; what the handler knows (`JobOK`): its route, the page it saw is the page there is, the slot it checked is held, each part of the gate it passed holds, the page it heals has no companion |
| | SlotsImplemented | Init maps to Init and every step to a step of TemplateSlots or a stutter, from `SerialInv` and `RoomInv`: the plan a handler read is the one that counts, the template it takes is not yet taken, and there is still room for it |
| AccountProofs | AccountTypeCorrect | directly |
| (`OneAtATime`: `~Concurrent`) | EvictedSafe, ReadmitSafe | `SessionInv`: what a handler read still holds (`Undisturbed`), no ended token is alive or being refreshed (`EndedGone`), and whatever is over was issued before a stamp not later than the account's (`OverStamped`) |
| BrowserProofs | BrowserTypeCorrect | each step by its disjuncts |
| (`OneTab`: all calls in one tab) | StoredIsCurrentAlways, ExchangedOnceAlways | `RefreshInv`: one flight at most, its token not yet exchanged while it is looked for unless it is adrift, the fresh pair alive or revoked but never exchanged |
| MemberProofs | TicketTypeCorrect, NothingUnshownIsLost | `TypeInv` adds what a handler at each task holds; the second is inductive beside it, under every interleaving, failure and use of the bell |
| | ResolvedIsFinalAlways | `AloneInv`: in part "desk" one desk is busy at most, and the ticket it has taken for a reply, answer, closing, hold or resumption is not resolved |
| | MembersTypeCorrect, MembersSafe (`OneAtATime`, `OneTab`) | a step of MCMembers is a step of one of the three parts, and the others stand still (`PartsRun`): what is proved of the parts holds of the composition |
| SiteProofs | DomainTypeCorrect, SignInMeetsSiteAlways, KeepsAnAddressAlways | `DomainInv`: a host is claimed by one request at a time (`OneClaim`), every host in a row is backed by a request at the same stage (`Backed`), reviewed hosts imply an address |
| | LeadTypeCorrect, OnceEachAlways | the unique index makes `OnceEach` inductive whatever the workers have checked |
| | HistoryBoundedAlways, TimelineAlways | `History` (stacks are sequences) and lemmas on `Front`, `Last` and `Reverse` |
| | EditorTypeCorrect, OnlyHistoryStrandsAlways | `EditorInv`: the document shown and every document on a stack has a page and page ids of its own. Apart ids make the removal of a page by id the removal of one place (`WithoutFacts`), which leaves a page to open, and let the edit of one page keep the others' ids |
| | TimelineImplemented | Init maps to Init and every step to a step of EditTimeline or a stutter, from `EditorInv`; the line is a concatenation of three parts, and lemmas tell its length and each place of it |
| | SitesTypeCorrect, SitesSafe | as for MCMembers, from `DomainInv` and `EditorInv` |

The invariants are needed because each property speaks of the write, while the check
lies several calls earlier: `SerialInv` carries the check to the write. The action
properties then follow from the invariant before the step, one lemma per action.
The four refinements (KeepsContract, KeepsRules, KeepsSlots, KeepsTimeline) need the invariant for the same
reason: the abstract step is taken with the rows as they are, so what the handler read must still be so.
TLC has checked each strengthened invariant on the runs' instances, `RulesInv` on smaller
ones with every body a request may carry (all but `History` and `EditorInv`, whose sequences it cannot
enumerate; TLC has checked their consequences).

The theorems about MCMembers and MCSites hold for every value of the constants too: the definitions by which
their cfgs instantiate `TabOf` and `OwnerOf` occur in no theorem. CancelledSafe (no sweep writes a cancelled row)
is proved without a run of its own; the rules of a sweep in SubscriptionRules do not apply to such a row.
Likewise SlotSafe (SlotHeld without overlap), which the rules of TemplateSlots imply.

Only model-checked: the liveness properties TermEnds, GraceEnds, CallsEnd and LeadsArrive (fairness and
ENABLED are outside the prover's reach). None of the modelled components needs a
recursive definition so far; what recursive algorithms compute could only be checked over
bounded inputs.

## 8. What the code does not keep

Six statements of the repository are refuted, each by a run:

* bad_expiry: the sweep writes by id what it decided earlier, so it expires a
  subscription that has been renewed in the meantime.
* bad_one_live: a Super Admin's renewal (or PATCH) revives a cancelled row although the
  organisation has a new one, even without overlap.
* bad_decision: a request cancelled by the organisation is approved all the same when
  the two decisions overlap.
* bad_slot: a page is created from a template between the count of such pages and the
  removal of the assignment (or the removal falls between the creation's check and its
  insert).
* bad_numbering: a ticket's number is the count plus one; deleting a member deletes the
  tickets that member raised, and from then on every attempt computes a number in use.
* bad_row: assigning a page to a second host unassigns the first in its request, and
  the organisation's row is written the page it has already instead of the change.

The same shape of race breaks, under overlap, the other properties that the serial runs
check. They have no run of their own, since the repository makes no further
statement: two lazy sweeps deliver a notice twice; two creators insert two rows; a
sweep writes a row cancelled after it was read; two submissions open two requests; two
creations pass one count; two publications pass one gate; two reads heal a page twice; a PATCH
that names a plan writes back a cycle changed since (no step of SubscriptionRules).
What survives every interleaving, failure and restart is GraceOnlyAfterLapse (checked
and proved) and the two liveness properties.

Three things the code does without regard to a rule that it keeps elsewhere, in the models and excepted by
the properties:

* Attaching a plan. Creating a subscription compares the plan with what the organisation uses, since
  "assigning a brand-new subscription must not silently exceed what the org is already using"
  (`subscriptions.service.ts:161`); onboarding and the approval of an organisation insert one without. After a
  cancellation an organisation can so come by a plan smaller than what it has.
* Leaving a page. A reload while the refresh token is being exchanged leaves the exchanged one in the browser.
* The bell, and a ticket that fails to open after its mark was cleared: both clear the mark of a message nobody
  has been shown.

`SiteAsPublished` is about the organisation's own domain. Two other endpoints need no domain and claim less:
`/public/site/page/:slug` returns a draft if there is no published page of that slug
(`public-site.service.ts:347`, although its refusal reads "Landing page not found or not published"), and
`/public/site/page-by-id` returns any page. Nothing is claimed of them. The domain itself, when its own page is not
published, shows the organisation's most recently updated published page, a thank-you page included.

Of the newer modules UnshownIsUnread, OnceEach, CallsEnd and LeadsArrive hold under every interleaving.
Under overlap (`Concurrent = TRUE`, or tickets in part "desks") TLC finds: a refresh that has read its token
before a disabling issues a successor after it (EvictedStaysOut); a password change that read `pending`
makes a member active who has been disabled since (OnlyAdminsReadmit); a staff reply that read `open`, a
hold or a resume reopens a ticket resolved meanwhile (ResolvedIsFinal). With two tabs a refresh token can be
exchanged twice. Overlapping domain handlers, which are not modelled, check and write in separate calls like the rest.

Noticed in the newer modules and left alone: a fresh sign-in within the second of a password change is
refused once (the stamp is later than the second); a sign-out during a refresh leaves the new pair in the
browser; when a page is disconnected and the deletion of its mirror fails, the failure is swallowed and leads keep coming;
a connection whose sync failed is not swept again until somebody syncs it by hand; leads of a form
that is archived, or that came before the newest 25, are not fetched by any sync; a sync that skipped leads counts as a
success and tells of them in the log alone; after an undo has removed the page being edited, further edits of blocks change
nothing visible but make entries; `renamePage` and `previewTheme` make none, and settings and SEO
fields make entries that restore nothing.

Noticed and left alone, since nothing in the repository says otherwise: a thank-you page can
itself be duplicated or be given a thank-you page (OneCompanionEach excepts the first);
an edited page's companion stays public; the approval of an organisation merges its
templates beyond the plan's number; approving a request does not look at whether the plan is
still active; a transition whose sweep fails before the notice is never announced.

## 9. What is not modelled

* Slugs, names, contents, SEO fields and the manual order of pages; the unique index on
  slugs keeps the safety part.
* Whether a template is itself published: `catalog` says only whether it exists, and a
  template that is offered is one that may be built from.
* The three-call deletion of the one legacy preset template.
* Creation and deletion of plans (deletion is refused while subscriptions refer to one),
  and three of the five limits in PackageRequests, which repeat one of the two.
* Emails and audit entries: best-effort calls no handler depends on.
* The external services: Meta, Google, storage, SMTP, DNS.
* Sign-up steps, email codes, roles and permission overrides, the seat quota; assignment of
  tickets; DNS verification and platform subdomains; attribution and round-robin assignment of leads; the
  other marketing platforms; where blocks stand on a page and what they say.
* In LeadIntake the forms and their leads are listed in one step, though the code reads form after form.
* In BrowserSession the profile kept beside the tokens, and the two server calls of an exchange whose page was left.
* The components of section 1 that section 10 plans, and those `PROJECT.json` lists as
  not modelled, with the reason for each.

## 10. Roadmap

Done: SubscriptionLifecycle with its rules, PackageRequests with its contract, LandingPages with its slots, AccountSessions,
BrowserSession, SupportTickets, OrgDomains, LeadIntake, EditorHistory with its timeline; every safety property
a run checks is proved. To come, in this order:

1. A contract of sessions that BrowserSession over AccountSessions implements.
2. **OrgSeats** and **LeadAssignment**: invitation and re-approval against the seat limit;
   assignment while users are disabled.
3. **TeamChat**: read markers.
4. Pure algorithms against reference definitions over bounded inputs: derived invoices,
   resolution of limits and of permissions, free slugs.
