# TLA+ specifications of LetsGive

LetsGive counts donations during a live fundraising session. A media operator
prepares a session, a finance officer authorizes it with a one-time code, and
from that moment deposit notifications that arrive in the organization's
mailboxes are parsed and counted on a public display. Around the sessions stand
an organization's members, the plan it pays for through PayPal, and the limits
that plan sets. This directory holds the TLA+ models of the backend (`src/backend/app`), the TLC configurations that
check them and the TLAPS proofs about them. Paths below are relative to
`src/backend/app` unless they start with `src/` or name a README.

Contents

1. Inventory of the system
2. Plan: modules, runs, theorems
3. What is modelled, module by module
4. What each run checks, with its bounds
5. What is proved, and how
6. Findings
7. What is not modelled
8. How to run

## 1. Inventory of the system

One process: FastAPI routes over SQLAlchemy sessions (asyncio, READ COMMITTED,
`expire_on_commit=False`), background tasks on the same event loop, in-memory
registries. Two facts shape every component:

* A route reads rows, decides, edits the objects in memory and commits. The
  commit sends UPDATEs that name only the columns changed against the row *as
  it was loaded*. There is no `version_id_col`, no `SELECT ... FOR UPDATE` and
  no WHERE on a version, so read, check and commit are separate steps and other
  requests come between.
* Between any two awaits another task may run, and a task may be cancelled at
  any await.

| Component | State | Operations | Interacts with | What is hard |
|---|---|---|---|---|
| Session lifecycle and approvals (`api/v1/sessions.py`, `domain/sessions.py`, `db/models/session.py`, `approval.py`) | a row of `sessions` (status, version, four instants, target, visibility); rows of `approvals` (attempts, locked, verified_at, expires_at) | request code, verify code, start, pause, resume, extend, update goal, set visibility, close | writes the watermark that ingestion reads; broadcasts | optimistic locking that is only a check on a loaded row; attempts counted from a loaded row; clock arithmetic of pause, resume, extend |
| Ingestion, ledger, reconciliation (`domain/ingestion.py`, `domain/ledger.py`, `api/v1/reconciliation.py`) | `contribution_events`, `reconciliation_items` | ingest a message, rehearse a deposit, resolve an item (exclude, accept, reverse), compute totals | called by webhook and polls; reads sessions; feeds displays and reports | redelivery, two deliveries at once, a session that ends while a message is matched, two officers on one item, totals from two SELECTs |
| Parsing (`domain/parsing.py`) | parser profiles | match a sender, extract an amount, confidence | ingestion | overlapping profiles |
| IMAP polling (`domain/imap_polling.py`, `imap_provider.py`) | the UID watermark of a connection; one `asyncio.Lock` per connection; log of recent messages | poll: wait for the lock, fetch, ingest, commit, broadcast, mark as seen | three callers; ingestion; realtime | a row loaded before the lock is held; batch failures; crash between fetch and commit |
| IMAP IDLE watchers (`domain/imap_idle.py`) | `_watchers`, `_active_clients` | start, stop, iterate | polls; started by connections and at startup | cancellation at any await, blocking thread, never ending silently |
| Mailbox connections (`api/v1/connections.py`) | `mailbox_connections` | connect (reads a baseline UID), revoke, delete, check now | watchers, polls | revocation and deletion while a poll is under way |
| Webhook (`api/v1/webhooks.py`) | - | receive a message | ingestion | retried calls |
| Realtime (`domain/realtime.py`, websockets in `sessions.py`, the script of `api/display_page.py`) | bounded queues of subscribers | subscribe, publish (drop oldest), send, reconnect | everything that changes a session | order of frames computed before they are published; snapshot before subscribe; frames lost unnoticed |
| PayPal subscriptions (`domain/subscriptions.py`, `api/v1/billing.py`, `integrations/paypal.py`) | subscriptions, payments, refunds; plan, status and grant of an organization | start, confirm, revise, cancel, switch, refund, webhook (activated, cancelled, failed, sale completed, sale refunded), expiry loop | PayPal calls before a commit that may fail | repeated, late and reordered webhooks; superseded subscriptions; answers that are lost |
| Prices (the same files, pricing routes of `api/v1/admin.py`) | prices, savings, promotions; amounts and promotional cycles of a subscription | quote, revise, confirm, edit, prorate | PayPal's own count of cycles | two counts of cycles; promotions that end between charges; month arithmetic |
| Plan limits (`domain/billing.py`) | counts of rows, export counter, bonus sessions | assert may create, count an export | most create routes | count then insert |
| Organizations and membership (`api/v1/organizations.py`, `join_requests.py`, `me.py`) | memberships, invitations, join requests | create, invite, join, accept, decline, change role, approve, deny, withdraw | plan limits, MFA | the last owner; two answers to one request; updates of some columns of one row |
| Display templates (`api/v1/display_templates.py`) | templates with a version, elements and a default mark | create, copy, save, delete | sessions that link to them | optimistic locking again |
| Authentication (`domain/rate_limit.py`, `api/v1/auth.py`) | fixed windows in memory; MFA of a user | login, enrol, activate | roles | window boundaries |
| Roles, tenants (`api/v1/deps.py`, `domain/rbac.py`) | - | checks of one request | all routes | none: stateless |
| Audit, notifications, inbox, reports, support, encryption, migrations, web frontend | rows written once, or output | - | - | none that a model would show, see section 7 |

What makes each one correct:

* Sessions: no session runs without a verified code (dual control); codes have
  bounded guesses and die; the documented state machine; an ended session stays
  ended; a pause freezes the countdown.
* Ledger: a message counts at most once, and only in the window of a session
  that listens to its mailbox; none that came in time is left out as early;
  corrections net out; totals never overstate.
* IMAP: nothing that arrives after a mailbox was connected is passed over, all
  of it is dealt with in the end, polls of one mailbox exclude each other,
  displays hear only of committed deposits, a revoked mailbox is left alone.
* Billing: a row says canceled only of what PayPal has canceled; a charge is one
  payment; a refund recorded as completed was accepted; the organization follows
  its newest subscription in whatever order the webhooks come, and the payment of
  an old one does not move it; two subscriptions that charge are told of.
* Prices: the amounts on a row are those the payer approved; the forecast charge
  is PayPal's; a quote is the best there is; a refund is the unused part.
* Membership: an organization has an owner; nobody owns it or does its finances
  without MFA; a member has a role whatever happens at once.
* Limits: no more rows than the plan allows, but for what requests at once
  overshoot. Templates: one save is one save. Realtime: what a display shows in
  the end is the state after the last change.

`PROJECT.json` lists the components with their status, and under `hazards`
every place in the code where one of these is at risk.

## 2. Plan

Modules, most important behaviour first. All are written; section 3 describes
them.

1. `SessionLifecycle` with the abstract `SessionStateMachine`.
2. `ContributionLedger`, on the watermark and the end that `SessionLifecycle`
   sets, which it restates in three actions, with the abstract `DepositBook`.
3. `ImapPolling`: polls, watchers, sweep and connections together; an event is
   reduced to the Message-ID it records.
4. `Organization`, the row shared by the next four: its plan, its status, and the
   rule by which an UPDATE changes it.
5. `PayPalBilling`: rows, PayPal, and the webhooks between the two.
6. `SubscriptionPricing`: quotes, dates, revisions and refunds of one
   subscription.
7. `Membership`, with MFA and seats.
8. `Workspace`: limits, exports and templates.
9. `DisplayFeed`: publishers, a queue, a display that reconnects.
10. `MCTenancy` puts 4 to 9 into one run; `MCContributionLedger` and `MCImapPolling`
    likewise look at two parts of their modules each, one at a time.

Theorems: every safety property that a passing run checks, but for the joint type
invariant of `tenancy`, and the refinements of `SessionStateMachine` and
`DepositBook` (section 5).
`FiniteSums` holds what the proofs need of sums and of induction.

Left in the plan: login limits as a module of their own.

## 3. What is modelled

All modules share conventions. A request that the code refuses changes nothing
and is not a step: its early returns are the guards. Optional columns hold the
constant `None`. Definitions with a comment that begins with "Mutant" are
plausible mistakes in the code; they are not part of any specification and exist
to confirm that each property can fail.

### SessionStateMachine

The abstract object that the README of the repository describes (README.md:82):
a phase that moves along the documented edges and an edition that tells every
change. No requests, no clock.

### SessionLifecycle

One session row, its approvals and the requests in flight (`Clients`).

| Model | Code |
|---|---|
| `row`, `approvals` | committed rows of `sessions` and `approvals` |
| `failures` | the audit events `session.verify_failed` of each approval |
| `pending[c]` | what a request holds in memory: the columns it will write and the version its caller quoted |
| `Guarded`, `Moves` | `check_version` and `transition` on the loaded row |
| `Start` ... `SetVisibility` | the routes that take `expected_version`; each computes its columns and is left with a write |
| `RequestApproval`, `IssueCode` | the route that flushes the session, then looks for outstanding codes, locks them and inserts a new one |
| `VerifyApproval`, `WrongCode`, `RightCode` | the route that loads the approval and decides by attempts, lock, expiry and code |
| `Commit`, `Abort` | the UPDATE of the changed columns; a rollback |

`Dirty` keeps a column out of the UPDATE when its value did not change, since
that decides what a late commit overwrites. Instants are numbers; a tick may
pass at any time. `MaxTime` bounds the clock and `MaxVersion` the version.

### ContributionLedger

One organization: sessions as ingestion sees them (status, watermark, end), the
ledger in order of commit, the queue of doubtful events, deliveries and reviews
in flight, and readers of totals.

| Model | Code |
|---|---|
| `ledger`, `items` | `contribution_events`, `reconciliation_items` by event |
| `Receive`, `Match`, `Insert` | `ingest_message`: look for an earlier event; find the session and judge; flush under the unique constraint |
| `Candidates`, `InWindow`, `Latest`, `Earliest`, `Verdict` | `_find_target_session`, the choice of the most specific parser profile, the decision by confidence |
| `SimulateDeposit` | the rehearsal route of a test session |
| `Review`, `Exclude`, `Accept`, `Reverse`, `Resolve` | `resolve_reconciliation_item`: load, decide, commit |
| `FirstSelect`, `SecondSelect` | the two aggregates of `compute_ledger_totals` |

The regular expressions are the constant table `ParseResult`: for each message
and profile, how specifically the sender matches, whether there is a credit, and
the amount. Confidence is counted in halves, as the code's three values. Profiles
do not change during a run. `Skew` says how far a message's date may run ahead of
the clock. `MaxLedger` bounds the number of events, `MaxTime` the clock.

### DepositBook

The abstract object behind the totals: a book with one entry for each deposit,
which counts, is doubtful, is left out or is reversed, and the totals last shown of
each session. The README of the repository promises that the original event is
never mutated (README.md:173) and the comment on totals that a reversal makes them
go down (`domain/ledger.py:16-19`). No requests in flight, no events that correct
events, no SELECTs.

| Book | Ledger |
|---|---|
| an entry | an event that corrects none (`Deposits`) |
| `amount` | of the accepted event that stands for it (`Amount`), if there is one |
| `fate` (`Fate`) | counts: an accepted event stands for it and no reversal names that event; reversed: one does; doubtful: its item is pending; excluded: otherwise |
| `Enter` | `Insert` |
| `Accept`, `LeaveOut`, `TakeBack` | `Resolve`, by what the officer decided |
| `Show` | `SecondSelect` |

`ImplementsBook` says that each step of the ledger is one of these, or none of
them. A decision is taken once (only a doubtful entry is decided), what is taken
back was counted and belongs to the same session, and what is shown is no more
than the entries that count.

### ImapPolling

Mailboxes on a server, their rows, and the tasks that poll them.

| Model | Code |
|---|---|
| `inbox`, `highest` | the mail server: UIDs in the mailbox, last UID given out |
| `conn` | row of `mailbox_connections`: status, `imap_last_uid`; `baseline`, kept for the properties, is the first watermark |
| `recorded`, `skipped` | Message-IDs with an event; UIDs passed over as unreadable |
| `lock`, `poll[p]` | `_connection_locks`; the stage a poll is at and what it holds there |
| `Polls` | a caller has loaded the row and calls `poll_imap_connection` |
| `Acquire` ... `Release` | lock, `_fetch_new_sync`, the loop over `ingest_message`, watermark and commit, broadcast, mark as seen and logout |
| `FetchError`, `IngestFails`, `CommitFails` | the error paths: only `webhook_health` is written; the batch is rolled back |
| `WatchIteration`, `SweepBegins`/`SweepNext`, `CheckNow` | the three callers; the sweep loads all rows at once |
| `Connect`, `Create`, `StartWatching`, `Revoke`, `Delete`, `StopWatching` | the life of a connection, with the gap between commit and the watcher's start or end |
| `Restart` | the process dies, or is stopped, and `start_all_watchers` runs |

`StopWatching` cancels the watcher wherever it is, which releases its lock. After
a database error the sweep gives up the mailboxes it has not reached, because its
session is unusable (`Fails`). `Refused` names messages that the database will not
store. A watermark may be NULL (connections older than the column): `Init` starts
each mailbox either absent or connected without a watermark, and mail may have come
and gone. `MaxUid` bounds the
mail, `MaxRestarts` the restarts.

### Organization

The columns of `organizations` that billing writes and every limit reads, and how
a request's UPDATE changes them: `Dirty` keeps the columns that differ from the
row as loaded, `Written` applies them to the row as it is at the commit. Instants
are kept as what the code asks of them (a grace period has an end or not; a
granted plan's last day is ahead or has passed).

### PayPalBilling

| Model | Code |
|---|---|
| `subs`, `payments`, `refunds` | `billing_subscriptions`, `billing_payments`, `billing_refunds`, in order of creation |
| `audit` | the audit events of cancellations that failed |
| `paypal`, `returned`, `events` | PayPal: the status of each subscription, the charges it has refunded, the webhooks it has sent |
| `pending[w]` | what a request holds in memory: columns and statuses to write, calls still to make |
| `ReceiveActivated` ... `ReceiveRefunded` | the branches of `apply_paypal_webhook` |
| `CancelSubscription`, `SwitchPlan`, `UpdateSubscription`, `RevertExpiredPlan`, `StartRefund`, `StartSubscription` | the routes of owner and admin, and the expiry loop |
| `CallCancel`, `CallRefund`, `AfterCancel`, `RefundStatus` | the calls to PayPal and what their answers do: done, refused, or done with the answer lost |
| `Commit`, `Abort` | the one transaction of a request, under `uq_payment_provider_id`; a rollback |
| `PayerApproves`, `PayPalCancels`, `Charge`, `ChargeFails` | PayPal (external) |

PayPal repeats a webhook until it is answered with 200 and promises no order, so
an event once sent stays receivable for ever. `activated`, `setBy` and
`overlapped` are histories that only the properties read: subscriptions whose
ACTIVATED was committed, who wrote the organization's plan and status last, and
whether two requests were ever in flight at once. `MaxSubs`, `MaxSales` and
`MaxRefunds` bound checkouts, charges of each and refunds.

### SubscriptionPricing

One subscription from its checkout on. Amounts are cents, dates are real calendar
dates `<<year, month, day>>`.

| Model | Code |
|---|---|
| `price`, `savings`, `running` | the plan's price, the yearly savings, the promotions that are active; changed by the admin's pages |
| `row` | amounts, promotional cycles and period of `billing_subscriptions` |
| `cycles`, `link` | PayPal's billing cycles with their own count; a revision the payer has not approved yet |
| `add_months`, `promo_cycle_count`, `Cents`, `active_promotion`, `quote_subscription`, `prorated_unused_amount` | the functions of `domain/subscriptions.py`, translated |
| `PricingUpdate`, `Outdated`, `Revise` | `_pricing_update_for` and the route that offers a revision |
| `confirming[c]`, `ConfirmRevision`, `PayPalReports`, `ConfirmFails`, `CommitConfirmation` | the route that confirms it: loads the row, waits for PayPal's cycles, writes the columns that differ from what it loaded (`Updated`) |
| `ChargeCycle`, `RecordPayment`, `Wait` | PayPal charges at the billing date; the webhook counts the payment and starts a period; days pass |

`unconfirmed` and `onTime` are histories: the payer approved cycles that nobody
has read back, or the last confirmation to commit was `Overtaken`, that is, the row
or PayPal's cycles had changed since it read them; the row was written before
PayPal used its cycles. The payments are counted and the row written in one step,
because the first flush of a changed amount locks the row before the count (if
neither amount changes nothing is locked, and the count may be an instant older:
not modelled). `MaxCharges` bounds the charges and `MaxEdits` what the admin
changes.

### Membership

| Model | Code |
|---|---|
| `members`, `inserted` | the row of each user in `memberships`, with a key that tells a row from its successor |
| `mfa_enabled`, `mfa_secret` | columns of `users` |
| `working[c]` | the one INSERT, UPDATE or DELETE a request will commit |
| `Invite`, `Join`, `Approve`, `Deny`, `CancelMine`, `Accept`, `Decline`, `UpdateRole` | the routes: load, check, keep the write |
| `Merged`, `SameRow` | an UPDATE names only the columns it changed; an UPDATE of a row that is gone fails, a DELETE passes |
| `SeatFree`, `MayHold`, `Owners` | `assert_can_add_team_member` (which counts join requests too), the MFA check, the count of owners |

`joint` is the history of two requests in flight at once, `most_seats` of the most
seats the organization's plans have had, since billing moves the plan while
requests are in flight. `AskedRoles` bounds the
roles requests name, `MaxRows` the rows a user has had.

### Workspace

| Model | Code |
|---|---|
| `sessions`, `connections`, `templates`, `usage` | the rows the limits count: sessions of the month with their template, connections that are not revoked, templates, the export counter of each month |
| `asked[e]`, `opened[e]` | a request in memory; the template an editor has on screen |
| `CreateSession` ... `Export` | the routes up to their check; `Commit...` their commit |
| `SaveTemplate`, `CommitSave` | version compared on the loaded row; the elements that were loaded are deleted and new ones inserted; a default mark that the save did not change is left as it is (`Mark`) |
| `DeleteTemplate`, `LinkedTo` | sessions are unlinked by the route, since SQLite enforces no foreign key |
| `PlanMoves`, `GrantBonus`, `BonusExpires`, `NextMonth` | billing, the admin and the calendar |

An element is the number of the save it came from: what matters is whose elements
a template holds. `ceiling` remembers the highest limit there has been, since a
plan that shrinks takes nothing away. `MostOf` bounds sessions, templates and
saves, `MaxMonths` the months.

### DisplayFeed

| Model | Code |
|---|---|
| `truth` | what is committed: the row of a session and the totals of its ledger, each numbered |
| `announcing[p]` | a task from its load of the session to `publish`, with the row it holds in memory and the payload it computed |
| `LoadSession`, `ChangeSession`, `CommitDeposit`, `Refresh` | a task loads the session and commits a change of it, which it then refreshes, or commits an event, after which it goes on with the row loaded before unless that has left its memory |
| `ComputePayload`, `Publish` | `_public_payload`: the row as held and the totals as counted then; `publish` |
| `queue`, `Kept`, `Publish` | a subscriber's queue, which loses its oldest frame when full |
| `LoadSnapshot`, `CountSnapshot`, `JoinFeed`, `FirstFrame`, `SendNext` | `session_live`: reads the row, then the totals, then subscribes, then sends |
| `Render`, `CloseSocket` | the page: shows a frame; closes its socket every 45 seconds and connects again |
| `NeverPublished`, `Lose` | a task that ends before its broadcast; a frame lost on a connection that stays open |

Frames of two commits may be queued in the wrong order, a frame may join an old
status to new totals, and a display may join between a snapshot and a publication:
the model contains all three. `MaxFrames` is the
capacity of a queue (32 in the code), `MaxChanges` bounds the changes.

### MCTenancy

The last six modules share the row `org` and nothing else that they write. The
initial state of `MCTenancy` says which part a behaviour looks at (`Foci`), so
that one run covers them and does not multiply their states. In the parts
`members` to `templates` a platform admin moves `org` (`ByAdmin`).

## 4. What each run checks

Every passing run explores its whole state space. Deadlock is not checked
(`CHECK_DEADLOCK FALSE`): users may stop acting, and the bounds on clock,
versions, events, UIDs and restarts end every behaviour. Requests, approvals,
deliveries and reviews are interchangeable, so those sets are symmetric, and in
`ledger` so are the two doubtful messages, which have the same mailbox and the same
parse; no run with a liveness property uses symmetry.

| Run | Question | Bounds | Shows |
|---|---|---|---|
| `session_serial` | Do the session routes keep their promises when requests do not overlap? | 1 client, 2 approvals, 2 attempts, clock to 3, version to 7 | `ImplementsMachine` (refinement of `SessionStateMachine`), `SpentCodeIsDead`, `OneOutstandingCode`, `GuessesBounded`, `EndedIsOver` |
| `session_concurrent` | What survives every interleaving of two requests? | 2 clients, 2 approvals, version to 5 | `TypeOK`, `DualControl`, `WatermarkIsAVerification`, `LockoutIsPermanent` |
| `session_resurrected` | Does optimistic locking protect an ended session? | as above | a violation, see section 6 |
| `session_restarted` | Does a pause freeze the countdown? | 1 client | a violation, see section 6 |
| `ledger` | One event for each message, in its window, and none left out that came in time? | part `deliveries`: 2 deliveries, 2 sessions, 2 messages in 2 mailboxes, clock to 2 | `TypeOK`, `OneEventPerMessage`, `CountedInWindow`, `OnlyEarlyIsExcluded` |
| | Do corrections and totals add up when reviews do not overlap? | part `reviews`: 1 delivery at a time, 1 review, 2 doubtful messages, 2 sessions of which one is a test session, 4 events | `ImplementsBook` (refinement of `DepositBook`), `OneAcceptPerDeposit`, `NetIsStanding`, `TotalsNeverOverstate` |
| `ledger_double_count` | And when two officers resolve one item? | 2 reviews | a violation, see section 6 |
| `imap` | Is anything passed over, raced, or told too early? Is every deposit seen at last? | 1 mailbox; part `callers`: a watcher, the sweep, a request, 2 messages, the first of them refused; part `deposits`: a watcher, the sweep, 1 restart, 2 messages after one that has come and gone | `TypeOK`, `WatermarkCovers`, `NoLostRace`, `ToldIsRecorded`, `DepositsAreSeen` |
| `imap_revoked` | Is a revoked mailbox left alone? | 1 mailbox, a watcher, the sweep, a request | a violation, see section 6 |
| `tenancy` | Are billing, members, limits and displays sound under repeated webhooks, failing calls, concurrent requests and lost frames? | twelve parts, below | eighteen properties, below |
| `owner_cancel` | Does an owner's cancellation hold? | the part `subscriptions` | a violation, see section 6 |
| `last_owner` | Does an organization keep an owner when two roles change at once? | the part `members` | a violation, see section 6 |
| `templates_mixed` | Does a template hold one save when two are made at once? | the part `coediting`: as `templates`, with requests at once | a violation, see section 6 |

The parts of `tenancy`:

| Part | Bounds | Properties it decides |
|---|---|---|
| `subscriptions` | two checkouts, one charge each, requests one at a time | `DoubleBillingIsAudited`, `OrganizationFollowsNewest`, `LatePaymentKeepsPlan`, `CanceledAtPayPal` |
| `management` | one checkout, all routes of owner and admin, the expiry loop | `OrganizationFollowsNewest` |
| `races` | one checkout, two requests at once | `OnePaymentPerSale`, `CanceledAtPayPal` |
| `refunds` | one checkout, one charge, one refund, two requests at once | `CompletedRefundsAreReal`, `OnePaymentPerSale` |
| `prices` | two prices, a discount, three promotions of which one ends before the next charge and one soon after, three charges, one edit, a checkout on 31 December 2023 before a leap year; a revision is confirmed only once approved, by one request that nothing interrupts | `StoredAmountsAreAgreed`, `ForecastIsPayPals`, `QuoteIsTheBest`, `RefundIsTheUnusedPart` |
| `confirmations` | two requests that confirm, at any moment of the day of a charge and in every interleaving with approvals, charges and payments; all promotions, two charges, no edit | `StoredAmountsAreAgreed`, `ForecastIsPayPals` |
| `members` | three users, one of whom never turns MFA on, two requests, two roles, plans of two and three seats | `MfaBeforePrivilege`, `RoleUnlessRequested`, `KeepsAnOwner`, `SeatsWithinPlan` |
| `sessions`, `connections`, `exports` | two requests at once, limits of one or two, a bonus of one, two months | `WithinLimits` |
| `templates` | two editors, requests one at a time, two templates, three saves, one session | `TemplatesAreSound` |
| `displays` | two publishers, a queue of two, three changes | `DisplaysConverge` |

Where a property is qualified by a history (`overlapped`, `joint`, `disturbed`,
`onTime`) it is because the code does not lock: with two requests at once the
count of owners, the limits and the versions can be passed together, as the
hazards say and, for owners and versions, `last_owner` and `templates_mixed` show.
`SeatsWithinPlan` and `WithinLimits` say by how much; the other qualified
properties promise what requests one after the other keep, in any order and with
any failure between them. The properties without a qualifier hold under
every interleaving.

Why the bounds are enough. Two requests are the least that can race, and every
property of `session_concurrent` is also proved for any number. Two approvals let
a code be replaced; a version of 7 lets a session go through its whole life with
one detour, and two attempts distinguish a first wrong code from the last. Two
messages in two mailboxes and two sessions, one of which listens to one mailbox,
give every combination of windows and candidates; three messages would repeat
them. To reverse a correction takes four events: two doubtful ones, the correction
that accepts the first and the reversal of that correction, which resolves the
second. The same four let a rehearsal be reversed, and leave an item of one session
to try the deposit of another. In `ledger` a session goes live only where
rehearsals ask for it, and ends only once authorized: the matching of messages
sees no difference otherwise. One mailbox suffices for the safety of polls
since mailboxes share nothing but the sweep (the theorems are for any number);
two messages let the watermark pass one while the other is in hand. A refused
message keeps its mailbox's watermark from moving and excuses the rest of it from
being seen (`Storable`), so the part `deposits` has none.

Two subscriptions are the least with which one supersedes another, one charge
of each suffices for its payment to be late, and every webhook may be received
again without limit. Two requests are again the least that can race; the theorems
are for any number. Three charges see a promotion begin, end and be revised; a
checkout on the last day of December takes monthly periods through the end of
January and of a leap February. A queue of two overflows with three frames, which
three changes and two publishers produce out of order. The best promotion
for those who have a subscription ends before the next charge of a month, so
that a revision meets a cycle count of zero.

Fairness. The models of sessions, ledger, billing, members and limits assume
none: nothing there promises progress. `ImapPolling` assumes, in `Fairness`:

* weak fairness of the steps of a poll that holds its lock, of the watcher's
  start after a commit and of its next iteration: the event loop runs every
  task that can run, `_watch_connection` catches every exception, and the IDLE
  wait has a timeout;
* strong fairness of the watcher's taking the lock: other polls take it in
  between, but `asyncio.Lock` is first come, first served;
* strong fairness of the watcher's successful fetch: a server that is asked again
  and again answers at last.

Nothing is assumed of users, of the sweep or of restarts; restarts are finitely
many, or no poll need ever finish.

`DisplayFeed` assumes, in `FeedFairness`: weak fairness of a new connection when
there is none and of the page's closing its socket, which are the page's retry and
its timer (`display_page.py:351-391`); strong fairness of reading the snapshot's
totals, of the subscription that follows and of showing a frame, since a
connection that is tried again and again succeeds at last. It does not assume that anything is published: a
change whose broadcast never happens is shown by the next connection.
`MCTenancy` asks this of the part `displays` only.

`DepositsAreSeen` exempts messages that are removed, mailboxes that are
disconnected, and mailboxes holding a message the database refuses (section 6,
last paragraph).

## 5. What is proved

TLAPS checks these for every value of the constants that satisfies the named
assumptions of each module (`NoneAssumption`, `ApprovalsAssumption`, `TimesAssumption`,
`LedgerAssumption`, `PollingAssumption`, `BillingAssumption`, `PricingAssumption`,
`MembershipAssumption`, `WorkspaceAssumption`: types, that NULL is no value, that
requests in flight and promotions are finitely many, and, for prices, the bounds
of the admin's forms, `api/v1/schemas.py:249-285,820`, and that `Wait` passes less
than a month). Theorems of billing, prices,
membership and limits are about `BillingSpec`, `PricingSpec`, `MembershipSpec` and
`WorkspaceSpec`, each of which takes all steps of its module; the parts of `tenancy` take some of
them.

`SessionLifecycleProofs`: `Invariance`, `TypeCorrect`, `WatermarkSound`,
`DualControlHolds`, `LockoutHolds`. `DualControl` is not
inductive: a request decides on a row that others rewrite before it commits. The
inductive invariant therefore says what each write in flight may contain
(`SafeWrite`): a status that runs comes with a watermark, its own or one that the
row has already; a watermark comes with the verification of a code in the same
commit; a count that reaches the limit comes with the lock. It is kept because
nothing a write relies on is taken back: watermark and end, once set, are never
NULL again. No lock or version is used in the argument, and none would help.

The second part of `SessionLifecycleProofs`, under the assumption `OneClient` (two
requests at once may break these): `LifecycleImplementsMachine`, `OneCodeAtATime`, `SpentCodesStayDead`,
`GuessesAreBounded`, `EndedStaysOver`. On top of the invariant
above, `UpToDate` says that what the only request holds was computed from the rows
as they still are; so the row that its commit leaves (`After`) is one step of the
machine away, and the codes it writes (`CodesFresh`) spend none that was spent and
lock those that a new one replaces. The clock goes on in between: codes may expire
and instants only get older, and both are harmless. `GuessesBounded` needs that
the audit trail and the column count the same attempts (`AttemptsCounted`). The
refinement maps `phase` and `edition` to the status and version of the committed
row.

`ContributionLedgerProofs`: `LedgerInvariance`, `LedgerTyped`, `Idempotence`,
`WindowKept`, `OnlyEarlyLeftOut`, and `CountedOnce` under the additional assumption that `Reviewers`
has at most one element (with two it is false, section 6). The invariant says of
events still in memory what it says of those in the ledger: they were computed
from sessions that may have ended since. A window closes at an instant not before
the message arrived, so what was in it stays in it; a watermark is set once and for
all, so what came before it still does, though the session ended meanwhile.

Totals are sums over sets of events. `NeverOverstated` holds for any number of
readers, deliveries and reviews: between its two SELECTs a reader holds no more
than the ledger does (`ReadersOK`), because the ledger only grows and a sum over
more events is no smaller, and the reversed amounts it subtracts are those of the
later of the two instants. `StandingNetted`, under the assumption `OneReviewer`,
needs that reversals are matched with accepted events of the same session one to
one and for the same amount (`Netted`), which includes the reversal that the
officer is about to commit; then what the reversals take back is a sum over the
image of an injection.

`LedgerImplementsBook`, under `OneReviewer`, puts these together. `BookInv` adds to
them that a correction belongs to the session of the deposit it corrects, the one
about to be committed included (`Traced`). Then an entry has at most one acceptance
and a pending one has none (`DepositFacts`); one more event changes the entry it
enters or decides and the entry it takes back, and no other (`AfterAppend`,
`EntryStays`), so that each commit is one operation (`InsertEnters`,
`ExclusionLeavesOut`, `AcceptanceCounts`, `ReversalTakesBack`). The balance of the
book is the sum of what stands, entry by event (`BalanceIs`), which is the net
(`MatchedNets`), which what a reader shows does not exceed (`ReadingShows`).

`FiniteSums` proves the facts about `SumFunctionOnSet` that these rest on:
`SumAdd`, `SumDisjoint`, `SumMonotone`, `SumImage`. The library's induction
theorems take an operator as a parameter, which no installed prover instantiates;
its `EveryNatural` and `EverySubset` state induction of the *set* of values for
which a claim holds, and follow from the least element of a set of naturals.

`ImapPollingProofs`: `PollingInvariance`, `PollingTyped`, `NothingPassedOver`,
`NoRaceLost`, `ToldAfterCommit`. A poll works from a watermark loaded long ago.
The invariant (`Answers`) says what each stage accounts for: every message up to
the watermark it will leave is settled, or is among what the poll holds. `Grows`
collects what all steps respect (UIDs only grow, events are only added, a baseline
is for good), and `AccountedStays` shows that nothing accounted for is ever lost;
so `WatermarkCovers` does not depend on the lock at all. `NoLostRace` does: two
polls that hold batches for one mailbox would hold the same lock. Locks are
released on every path, cancellation included (`FinishLocks`, `StopWatchingSafe`).

`PayPalBillingProofs`: `BillingTyped`, `CanceledMeansCanceled`,
`SalesRecordedOnce`, `RefundsArePaid`, `LatePayments`, `DoublesAudited`,
`NewestFollowed`. None of the properties is
inductive, because a request writes at its commit what it learnt before. The
invariant says what a request in memory may know (`Learnt`): a status "canceled"
it will write is true at PayPal already, a refund "completed" has been accepted.
It is kept because PayPal takes nothing back, and a webhook CANCELLED exists only
of a canceled subscription (`PayPalKnows`). The unique constraint alone gives
`OnePaymentPerSale`. `LatePaymentKeepsPlan` needs `PaymentInv`: as long as
requests come one by one, a request that will record a payment without moving the
organization names no column of it, and what it decided on (`Decided`) is still so
at its commit, since nobody else has committed in between.

`DoubleBillingIsAudited` and `OrganizationFollowsNewest` relate the rows, the
organization and the audit log, and a request writes all three in one commit,
after calls that may be refused. Their invariant (`SerialInv`) says of the request
in flight what the store comes to once it is committed, whichever way its calls
turn out (`Promises`): `After` is the status each row will have, `Excused` the
subscriptions that it has audited or has still to cancel. A call that succeeds
makes a row canceled, one that fails moves a subscription from the calls to the
audit: neither breaks the promise (`PromisesLess`). A webhook promises to follow
its subscription only if none newer is live, and to cancel the others
(`PromisesWebhook`); an owner's cancellation leaves no live subscription that is
the newest (`PromisesCancel`, which needs that a newest exists, `NewestExists`). A
new checkout is in no request's rows, so its row does not change what was promised
(`StartPromised`).

`SubscriptionPricingProofs`: `AmountsAreAgreed`, `PricingTyped`, `ForecastAgrees`,
`BestQuoted`, `RefundsAreProrated`. The forecast's invariant (`CountsAgree`) is
that the promotional payments the row still expects are those PayPal's cycles
still have, unless both prices are the same; a quote that is no promotion sends
PayPal one promotional cycle all the same, and is harmless because its prices are
equal (`Quotes`), and a read-back with a promotion is one with a lower price. A
confirmation that was not overtaken writes just what it read, whatever others wait
for PayPal (`Updated` then gives the new value in either case); `AmountsAreAgreed`
claims nothing after one that was, until the next. The best quote needs that of
finitely many promotions one is best (`OneIsBest`), that a new subscriber's counts
the first charge, which is today's (`Counted`), and that rounding keeps order
(`IntroLowers`); of a revision, that a count above zero means a promotion that
runs at the next charge. The refund's invariant (`InPeriod`) is that today lies in the
period of the latest payment; the rest is calendar: `MonthsLaterExists`
(`add_months` of an existing date is an existing date), the lemma `DaysBetween` (the
difference of two day numbers is the number of days counted month by month, in
leap years and at the turn of centuries too) and `CentsAreNearest` (rounding half
up is within half a cent).

`MembershipProofs`: `MembersTyped`, `PrivilegeNeedsMfa`, `OnlyMembersHaveRoles`
hold under every interleaving. A request decides on a row that others change; the
invariant (`WorkOK`) says that a role it carries is one its user may hold, which
stays so because MFA is never turned off, and that a row it loaded, if it is still
that row, is still settled: a join request becomes a member, but never the
reverse, and a key is not used twice. `AnOwnerStays` adds that, one by one, the
owners counted are those at the commit; `SeatsAreBounded` counts the seats that
requests in flight will take and bounds them together with those taken.

`WorkspaceProofs`: `WorkspaceTyped`, `LimitsHold`, `TemplatesStaySound`. The
highest limit only rises, so a request that has seen room still has it under that
limit; rows there and rows about to be (`Fits`) pass it together by at most the
other editors. In a new month the count starts at none while requests of the old
one are still in flight: they fit because somebody saw room (`MonthsPassed`). An
export is counted in memory, so `ExportsCounted` holds one by one only. For the
templates `HeldOK` says that what the only request in flight holds is still in the
database, and `ScreenOK` that a screen with the current version shows the current
elements; a version is used once, because it only grows.

Model-checked only: `DepositsAreSeen` and `DisplaysConverge`, since liveness under
fairness is beyond the prover; `TenancyTypeOK`, whose conjuncts for billing,
prices, membership and limits are the theorems `BillingTyped`, `PricingTyped`,
`MembersTyped` and `WorkspaceTyped`, and whose conjunct for displays says only what
the variables of `DisplayFeed` range over; and the runs that end in a violation.

## 6. Findings

1. *An ended session can go live again* (`session_resurrected`). Two requests
   that quote the same version both pass `check_version`; a start that commits
   after a close overwrites it. README.md:92-93 promises a 409.
2. *Start accepts a paused session* (`session_restarted`) and sets a whole new
   countdown, where README.md:91-92 says that pausing freezes it.
3. *Two officers can accept one deposit twice* (`ledger_double_count`): the
   unique constraint does not apply to corrections, whose mailbox is NULL.
4. *A poll that was under way outlives the revocation* (`imap_revoked`): the row
   is loaded before the lock is waited for and its status is not looked at again,
   and only the watcher is cancelled. README.md:247 says that revocation stops
   retrieval immediately.
5. *An owner's cancellation may not hold* (`owner_cancel`). `cancel_subscription`
   cancels the newest row that is pending or live (`organizations.py:305`). When a
   checkout was begun and abandoned later, that row is the checkout: the
   subscription that is paid for is not canceled at PayPal, and its next payment
   makes the canceled organization active again. README.md:191-192 says that
   canceling stops everything immediately.
6. *Two owners can leave an organization without one* (`last_owner`).
   `update_member_role` counts the active owners and commits later, with no lock:
   of two that are demoted at once each request counts two. The refusal it makes
   says that an organization must keep at least one active owner
   (`organizations.py:264`), and `test_membership_roles.py:38` tests it.
7. *A template can hold the elements of two saves* (`templates_mixed`). Two saves
   that quote one version both pass the comparison; each deletes only the elements
   it loaded, and the UPDATE of the version has no WHERE on the old one. The
   comment at `display_templates.py:146-148` speaks of a full-document replace.

Behaviour met while modelling for which there is no line to quote against, listed
with the hazards: a message whose FETCH fails for a passing reason is skipped for
good; a message that the database refuses keeps its mailbox's watermark from ever
moving; a failed poll ends the whole sweep; a refused STATUS makes the baseline 0;
an ACTIVATED that comes late revives the row of a canceled subscription; a second
refund of a payment that was refunded in part returns the unused part again; the
expiry loop takes an organization off the plan it pays for when a granted plan had
not ended; a confirmation that waits for PayPal while another commits may store an
older answer over a newer one.

## 7. What is not modelled

* In the plan still: login limits and password reset (one row or one counter
  each).
* Within the modelled parts: for `SessionLifecycle`, creation of a session (it is
  the initial state; `Workspace` counts it) and its reports; signatures and status of the webhook; profiles that change;
  a database that fails for a passing reason in a poll of the sweep or of a
  request (for a watcher, `StopWatching` and `Restart` are stronger); the log of
  recent messages; the socket shut down under a waiting IDLE thread;
  UIDVALIDITY; several processes, which the code excludes for its registries.
* Within billing: creating products and plans at PayPal
  (`ensure_paypal_plan_id`), the request ids that start and revision send (the
  former changes by the minute), the signature of a webhook, an organization's
  discount that changes, a status "suspended", which is never assigned. The price
  of a subscription (`SubscriptionPricing`) and its status (`PayPalBilling`) are
  modelled apart: they share a row but no column. A refund's amount is in the
  former, its outcome in the latter.
* Within membership and limits: reading reports after the grace period (a check
  of one request), users who leave (no route), the mailboxes a session listens to
  and their limit.
* Templates under saves that are truly at once are looked at only by the run
  `templates_mixed`, which ends at its violation.
* Within displays: the expiry of a display's token, the operators' channel, and
  several displays, which share nothing but the publisher.
* Left out for good: roles and tenants (checks of one request, without state);
  notifications, inbox, support (rows written once in the transaction
  they describe, or output); PDF, QR and the display page (layout); encryption and
  password hashing (libraries); migrations (declarative); the web frontend (views
  over the API).

## 8. How to run

    tlasany ImapPolling.tla
    tlc -workers 2 -config Imap.cfg MCImapPolling.tla
    tlc -workers 2 -config Tenancy.cfg MCTenancy.tla
    tlapm ImapPollingProofs.tla

`PROJECT.json` names the module, configuration and properties of every run, the
mutant that violates each property, the source lines behind each definition, the
hazards and the theorems.
