# vLogBin: a TLA+ model of the API server

vLogBin's API (`src/apps/api`, Go over PostgreSQL) is the control plane of a
multi-tenant provider platform: it keeps providers and their environments,
catalogs, subscriptions, quota, usage and invoices, and connects them to an
identity provider (ZITADEL) and a billing engine (Lago). Several API processes
run against one database. What makes it hard is not any single handler but
what happens between them: READ COMMITTED transactions that read in one
statement and write in another, background workers that claim rows, leave the
database, call the outside world and come back to mark the rows, and crashes in
any of these places.

This directory holds the TLA+ modules for the parts where that matters most,
the TLC configurations that check them, and TLAPS proofs of the main results.
`PROJECT.json` maps every definition to the source lines it models and lists
runs, mutants, hazards and theorems. Paths below are relative to
`src/apps/api`.

## 1. Inventory

| Component | State | Operations | What is hard | What makes it correct |
|---|---|---|---|---|
| Circuit breaker (`internal/circuitbreaker`) | four atomics | Allow, OnSuccess, OnFailure | no lock: every atomic is a step | slots are bounded and come back; callers are let in again |
| Outbox relay (`internal/outbox`) | `outbox_events`, a breaker per process | claim, deliver, mark | leases that end early, crash between delivery and mark, two relays | nothing published unbilled; one live lease per row; every event ends; nothing given up early |
| Quota ledger (`internal/service/quota.go`) | `quota_limits`, `quota_reservations` | set limit, reserve, commit, release, sweep | snapshots, row locks, expiry racing a commit | one settlement per reservation; events tell the ledger; the limit |
| Provider lifecycle (`service.go`, `risk_review.go`, `domain/lifecycle.go`) | `providers`, `environments`, `provider_risk_reviews` | create, activate, transition, review | two operators; gate read before the update | history is a path; environments follow it; go-live is approved |
| Webhook delivery (`internal/webhook`) | `webhook_deliveries`, `webhook_endpoints` | scan, create, claim, post, mark, replay, sweep | 60 s lease against 50 posts of 10 s; unguarded marks; suspension | delivered means received; deliveries end |
| Audit chain and archive (`0031_audit_hash_chain.sql`, `audit_archive.go`, `internal/archive`) | `audit_events`, `audit_chain_tail`, `audit_chain_anchors`, bucket | append (trigger), purge, verify, anchor, archive | ids drawn before the lock, rollback, purge reading twice, upload then mark | one list; the boundary covers what is gone; published means archived |
| Transactions and tenancy (`internal/store`) | session settings, row-level security | WithTenant, WithOperator | rollback on error or panic | each module has begin, commit and abort steps |
| Request gate (`httpapi/middleware.go`, `httpapi/idempotency.go`) | `idempotency_keys`, the request's context | guards, authentication, claim, run, complete or drop, replay, sweep | 5xx or panic after the commit, stopped server, state read once | one effect per key unless the protection was given up; claims end |
| Rate limiter (`internal/ratelimit`) | two atomics per bucket, or a Redis key | allow, clean up | the reset is a second operation | a bounded number of admissions per window |
| Catalog and subscriptions (`catalog*.go`, `subscriptions.go`, `customers.go`) | versions, plans, prices, grants, subscriptions | replace, validate, publish, retire, plan operations, subscribe, terminate | status read without a lock, triggers that look at the committed state | the plan a subscription is pinned to never changes |
| Usage, invoices, entitlements, reconciliation (`usage.go`, `invoices.go`, `entitlements.go`, `reconciliation.go`) | `usage_events`, `invoices`, `invoice_lines`, overrides | ingest, reverse, sync, override, snapshot, reconcile | duplicate keys, fences read in other transactions, two synchronisations | replies true of the ledger; finalized invoices frozen |
| Metered billing (`metered_billing.go`) | pricing rules, budget alerts | set, delete, cost of a quantity | tier arithmetic at its boundaries | the cost agrees with a reference definition |
| Cells (`cell_failover.go`, `cell_migration.go`, `cells.go`) | `cells`, `cell_failovers`, `cell_migrations` | initiate, fence, switch, complete, abort; precheck, execute, cancel | statuses checked without locks; a cell is shared | stages in order; a provider moves only under its fence |
| Migration jobs (`migration.go`) | `migration_jobs`, `migration_records`, the cut-over lock | add, validate, start, batch, roll back, complete | two transactions per record, errors dropped, two requests on one job | each import names its own customer; the lock follows the job; batches end |
| Support sessions (`support.go`) | `support_sessions` | request, approve (one or two persons), deny, revoke, expire | approvals in any order, only the sweeper looks at the time | two different approvers; access ends |
| Credentials and team (`operator_developers.go`, `team.go`) | `credentials`, `team_members` | issue, rotate, revoke; invite, role, suspend, remove, reactivate | key and role of the row that was read | keys follow their member |
| SCIM directory (`scim.go`) | users, groups, memberships | create, update, patch, delete | patches as sequences | one transaction per patch |
| Workspaces (`workspace.go`) | workspaces, members | sign up, rename, invite, role, remove | the count of administrators takes no lock | the last administrator |
| Custom domains (`custom_domains.go`) | `custom_domains`, DNS | register, verify, revoke, delete | records left in DNS by an earlier owner | a verified host was proven by its owner |
| Data export (`data_export.go`) | `data_exports`, `deletion_proofs` | request, snapshot, fail, sign | four transactions, server stops between them | a proof names its own export |
| Supervisor, configuration reload, re-encryption | in memory or per row | restart, reload, batch | back-off | restart |
| Others | see `PROJECT.json` | | | |

How they interact: every business operation writes its outbox event in its own
transaction (`emitOutboxTx`), the relay delivers usage events to the billing
engine and publishes all of them, the webhook worker takes what the relay
published, both workers go through circuit breakers and are restarted by the
supervisor, a provider's lifecycle state holds back its webhook deliveries and
closes the write guard, the cut-over lock of a migration job and a draining cell
refuse usage and subscriptions, the importer and the SCIM directory create or
name customers, a subscription pins a plan of a catalog version, and operator
actions append to the audit chain.

## 2. Modules

`BreakerOps` has the breaker's methods as operators on a record. It is shared
by `SerialBreaker`, the abstract specification of a breaker, and `OutboxRelay`,
in which each relay has its own breaker and uses it from one goroutine.

**`CircuitBreaker`** (`breaker.go`). One step per atomic load, store, add and
compare-and-swap; `pc[c]` is the next atomic of caller `c`, `seen[c]` the value
`tryAcquireHalfOpen` loaded. The clock is the flag `cooldown`. `users` says which
goroutines use the breaker and `panics` whether a protected call may return to nobody;
both are fixed in the initial state, so one run has a breaker with one user and a
shared one. `MaxDrift` stops new calls from
overlapping once `halfInFlight` is that far below zero; it bounds TLC, not the
proofs.

**`OutboxRelay`** (`relay.go`, `outbox.sql`). A poll claims the oldest due rows
that no other relay is marking (SKIP LOCKED) and takes them out of `due`; each
row is then delivered (`Deliver`, `DeliverError`, `Deny`, `ProcessInternal`,
`ProcessGarbled`) and marked in a step of its own (`MarkPublished`,
`MarkRetry`, `MarkDeadLetter`, or `MarkFault` when that transaction fails). A
delivery that errors may still have been taken by the engine. `Crash` and
`Panic` lose the batch in memory. A lease ends at any moment (`Elapse`), also under a
relay that is still at work: a batch of 100 HTTP calls has one lease of 120 s. `leased`
records which claim a row's `next_attempt_at` stands for: a relay loses it when the
lease runs out and when any relay marks the row, and goes on working all the same.
`EventDelivery` is what the outbox promises: an event is owed until it is
published or buried, and what is settled changes only while somebody works on it
without a lease. The engine (`billed`) is external.

**`QuotaLedger`** (`quota.go`, `quota.sql`). A call is a transaction of a lookup
and a write, its effect appearing at `CommitTx`; a statement that meets a row
written by an open transaction waits. The sweep's single UPDATE fixes its rows
when it starts (`todo`), visits them one at a time as their locks come free,
looks again at each, and keeps the locks to its commit.

**`ProviderLifecycle`** (`lifecycle.go`, `service.go`, `risk_review.go`,
`workspace.go`). An operator call reads the provider, passes the gate in another
statement, updates WHERE the state is still the one it read, and commits with
its environment and event. A review's `reviewed_at` is the start of its
transaction, so reviews may commit out of that order.

**`WebhookWorker`** (`worker.go`, `webhooks.go`, `webhooks.sql`). Scan, listing of
endpoints and one insert per delivery, then claim (which counts the attempt),
load, post and mark, all as steps with failures; operators register, delete and
replay; the provider is suspended and re-activated; retention sweeps terminal
deliveries and events. Leases end at any moment. A purge may take a row that a
worker is about to mark; `lost` holds the workers this happened to, whose UPDATE
matches no row. Which posts the endpoint's breaker denies is a free choice here.

**`AuditChain`** (`0031_audit_hash_chain.sql`, `audit.sql`, `audit_archive.go`,
`archive.go`). A row is its id and its hash is abstracted to the id, `prev_hash`
to the predecessor's id. An insert draws its id, then the trigger takes the tail
lock and keeps it to commit or rollback; a rolled-back id leaves a gap. The purge
reads its boundary, then locks the tail and deletes what it selects anew; every API
process runs such a sweeper, and there are two. `overtaken` and `strays` record what a
sweeper deletes after another one's delete has come between its read and its own.
Anchoring is one step, since its transaction touches the tail under its lock.
Archivers list, upload and mark, and may fail or die in between. A purge's
cut-off never passes the start of an open transaction: retention is counted in
days and no transaction stays open that long.

The remaining modules follow one pattern. An operation that reads without a lock
and writes later is two steps, one that reads and checks and one that commits
all its writes, with what it read kept per request (`optx`, `catx`, `wtx`,
`mreq`, `urq`, ...); an operation whose write repeats its checks, or that holds
the row, is one step. Lower-case actions are the HTTP handlers with their
checks and choice of inputs, capitalised ones the service methods and queries
of the same name. Each module names its variables and its next-state relation
with its own prefix, so that they can be extended together.

* **`Trail`** (`emitOutboxTx`, `insertAuditTx`): the outbox and audit rows a
  transaction commits with its writes, as a set. It is also what properties use
  to say that an operation happened.
* **`Customers`** (`customers.go`): shared by `Catalog`, `MigrationJobs` and
  `Directory`.
* **`Catalog`** (`catalog.go`, `catalog_plans.go`, `catalog_policies.go`,
  `subscriptions.go`): versions and their content, transitions and replacements
  that overlap, plan operations under the plan lock with the draft cloned on
  demand, subscriptions waiting on the row of their plan, terminations that read and
  then update without a guard.
* **`Commerce`** (`usage.go`, `invoices.go`, `entitlements.go`,
  `reconciliation.go`): extends `Catalog`; usage requests with a transaction for each
  fence, one that reads and then inserts, and one for the audit of a conflict, which may
  fail and is not retried; synchronisations working on the list they fetched,
  the trigger on finalized invoices, overrides, snapshots and counts.
* **`Rating`** (`metered_billing.go`): the cost of each pricing model as a
  fold over the rule's tiers, the reference definition it is compared with (the
  tier of a quantity, the sum of the prices of its units), pricing rules and budget
  alerts. `TierAmounts` and `BasePrices` are the prices that rules carry.
* **`CellPlacement`** (`cells.go`, `cell_failover.go`, `cell_migration.go`),
  **`MigrationJobs`** (`migration.go`, with the batch loop of an HTTP request
  outside any transaction, lost marks and stopped requests), **`Support`**
  (`support.go`), **`Credentials`** and, extending it, **`TeamMembers`**
  (`team.go`), **`Directory`** (`scim.go`), **`Workspaces`** (`workspace.go`),
  **`CustomDomains`** (`custom_domains.go`; DNS is external),
  **`DataExports`** (`data_export.go`).
* **`RateLimiter`** (`limiter.go`, `redis.go`, `rateLimitMiddleware`): each atomic
  of the in-memory limiter is a step; the Redis script is one. The cleanup may delete a
  bucket that a goroutine has just made and holds, since its window end is still zero.
* **`RequestGate`** (`middleware.go`, `idempotency.go`): the middleware chain in its
  order for several attempts at one operation with one key, with failed
  look-ups, handlers that fail before or after their commit, panics, a server
  that stops, and a lifecycle state that changes behind the request.

Every `MC*` module extends its components and adds only bounds, a choice of focus or
the values of structured constants; no configuration replaces a definition.
`MCWorkers`, `MCCommerce` and `MCControlPlane` compose the modules above. Most of them
share no state, and interleaving them would multiply state spaces without adding a
behaviour of interest, so a variable `focus`, chosen in the initial state, says
which component a behaviour exercises: the state spaces add up, and one run
asks every component's question. Where components do interact (`TeamMembers` with
`Credentials`, `Commerce` with `Catalog`, the importer and the directory with
`Customers`, the write guard with the idempotency record) both are in the same focus.
`MCCellPlacement`, `MCRateLimiter` and `MCWorkspaces` set up one component alone for
a run that tests a claim of the repository.

## 3. Runs

Three runs pass, and nine find a claim of the repository violated.

| Run | Instance | What it shows |
|---|---|---|
| `workers` | six foci, see below | sixteen properties of the background workers |
| `commerce` | six foci, see below | eight properties of the ledgers and the catalog |
| `control_plane` | twelve foci, see below | fifteen properties of the control plane |
| `quota_overspend` | two callers, two reservations | `UsageWithinLimit` is violated: the limit is passed |
| `lifecycle_gate` | two operators, five changes, two reviews | `LiveNeedsApproval` is violated: LIVE_ACTIVE without approval through SUSPENDED |
| `audit_verify` | two writers, three ids | `IntactChainVerifies` is violated: an intact chain fails verification |
| `audit_sweepers` | two writers, two sweepers, batches of one | `BoundaryCoversPurged` is violated: a deleted row above the recorded boundary |
| `relay_dead_letter` | two relays, one event, two attempts | `DeadLetterIsTerminal` is violated: a dead letter is overwritten |
| `recovery_contract` | two operators, two cells, two failovers, a migration | `MoveIsFenced` is violated: an aborted failover moves the provider |
| `team_keys` | two requests, one member, three keys | `KeysFollowMembers` is violated: a removed member keeps a live key |
| `limiter_exact` | two goroutines, limit one | `LimitIsExact` is violated: two admissions in one window |
| `last_admin` | two users, four changes | `LastAdminNeverLost` is violated: the last administrator is demoted |

The foci of `workers`:

| Focus | Instance | Properties |
|---|---|---|
| breaker | one caller without panics, or two with; threshold two, one slot | `SlotCap`, `NoLeakedSlot`, `AlwaysReadmits`, `ImplementsSerial` |
| relay | two relays, one usage event, two attempts; a crash or a fault | `OneHolder`, `PublishedWasBilled`, `DeadLetterSpentAttempts`, `DeadLetterLeftOnlyLate`, `ImplementsDelivery`, `EventuallySettled` |
| batch | one relay, batches of a usage event, a garbled one and an internal one; a crash or a fault | the same |
| webhooks | two workers, one delivery, two attempts; a fault or a crash, a replay, a suspension | `DeliveredWasReceived`, `DeliveriesSettle` |
| chain | two writers, three ids, two sweepers with batches of one | `ChainIsLinear`, `BoundaryMissesOnlyStrays` |
| archive | one writer, two archivers, two anchors; a fault | `PublishedIsArchived`, `AnchorsArchived` |

The foci of `control_plane`, with what each is for:

| Focus | Instance | Properties |
|---|---|---|
| lifecycle | two operators, four changes, two reviews | `HistoryIsPath`, `EnvironmentsFollowState`, `DirectGoLiveApproved` |
| race | two operators, one failover, one migration | `StagesInOrder` |
| shared | one operator, two failovers from one cell, one change by hand | the same |
| import | two requests on a job of two records, one fault | `LockFollowsJob`, `ImportsNameDistinctCustomers`, `BatchEnds` |
| support | one session, three operators | `TwoPersonRule`, `AccessEnds` |
| team | two requests, one member, three keys | `KeysLostOnlyByStaleCommit` |
| workspace | two users, two workspaces, four changes | `LastAdminLostOnlyByRace` |
| domain | two providers, two hosts, three registrations | `VerifiedWasProven` |
| limiter | two goroutines, limit one, both back ends; three ticks | `AdmittedBounded` |
| gate | three requests with one key, two at a time | `DuplicatesHaveACause`, `ClaimsEnd` |
| directory, export | two users and a group; two exports | none in this run: what both promise is proved (section 4) |

In `commerce`: catalog (two requests, two versions, one subscription:
`PinnedPlanStays`), usage (three requests on three ids with two payloads:
`RepliesMatchLedger`), invoices (an ingestion, a reversal, two synchronisations:
`FinalizedFrozen`), entitlements, rating (every rule of up to two tiers over
small bounds and amounts: `CostMatchesDefinition`), and quota (two callers, three
reservations and the sweep: `SettledOnce`, `EventsMatchLedger`, `OverspendBounded`,
`TimedReservationsEnd`).

Where the code checks without a lock and a race gets through, the claim of the
repository has a run that shows it violated, and the passing runs check what is left
of it: the boundary misses only what an overtaken sweeper deleted, a dead letter is
left only by a late mark, a key stops following its member only at a commit whose
row another request has changed since it was read, the last administrator goes only
when the count or the target had changed or by an invitation, a window admits at most
Limit per goroutine, a second effect of one key needs a swept record, a dropped claim
or a failed look-up. Any other way would be a violation of the passing run.

Why the bounds suffice: the interesting cases need two actors on one row and one
failure of each kind. Two relays or workers on one row exhaust the overlaps of a
stale and a fresh claim; `MaxAttempts` of two lets a counter be overtaken;
three ids let two rows link across each other and a third follow; four lifecycle
changes reach LIVE_ACTIVE both ways and leave it again; two requests on one row, one
of them with a stale read, exhaust the two-step operations, and a third (usage,
idempotency) lets a retry meet the outcome of both. Counters of faults, crashes,
replays, suspensions, reviews and changes are bounds on the environment and are
named in the modules. The real grace of the limiter's cleanup is a minute; here it
is zero, so that a bucket can be dropped within three ticks, and the cleanup looks
at the first level's buckets only, the levels being alike. No symmetry is used: the
composed runs check liveness as well, and the others are small. Deadlock checking is
off wherever the bounded instance ends: the lifecycle in OFFBOARDING, and the runs
whose requests are bounded in number.

Every property of a passing run has a mutant: an operator next to the definition
it replaces, with the bug a careless change would make (a claim without a lease,
a compare-and-swap turned into an add, a release that forgets the status, ...).

### Fairness

Liveness is stated under weak fairness of what a ticker or a timeout forces:
workers poll, HTTP clients and transactions end, leases, back-offs and
cool-downs run out. Strong fairness is used in two places: the sweep gets a row
lock that others take again and again (PostgreSQL queues lock requests), and a
webhook worker's scan and claim each run in every cycle, though between cycles
they are not enabled. `Reactivate` is fair in `WebhookWorker`: the claim says a
suspended provider's backlog waits, so settlement is promised only if the
suspension ends. `MCSpec` asks each component's fairness only of the behaviours that
have it in focus. In `control_plane` weak fairness is asked of a batch that a
request is importing (the Go runtime schedules it; `StopRequest` may end it), of the
two expiry sweepers, which are supervised tickers, and of the clocks they read,
each only in its focus. Crashes, faults, operators and new events are never obliged to
happen.

### Disagreements the runs show

* **`quota_overspend`**: `ReserveQuota` sums on a snapshot and locks nothing, so
  two reserves that each fit both succeed (`0013_quota_ledger.sql:5`: "This
  prevents concurrent overspend"). The usage stays within one limit per
  concurrent request (`OverspendBounded`), which is proved.
* **`lifecycle_gate`**: only LIVE_REVIEW to LIVE_ACTIVE passes the gate;
  LIVE_REVIEW to SUSPENDED or RESTRICTED to LIVE_ACTIVE does not
  (`service.go:426-429`).
* **`audit_verify`**: rows are linked in lock order and verified in id order
  (`0031:248`), so two concurrent inserts make an untouched chain fail.
* **`audit_sweepers`**: two retention sweepers read the same boundary; the first
  deletes its batch, the second finds the next rows, deletes those and records the
  boundary it read. A deleted row lies above it, against `0031:13-15` ("records how far
  the chain head was pruned"); verification then starts at that missing id and reports ok
  without having checked a row (`0031:244`).
* **`relay_dead_letter`**: `MarkOutboxEvent*` update `WHERE id = $1`. A relay that lost
  its lease after the delivery marks a row published that another relay has
  dead-lettered meanwhile (`outbox.sql:81`: "a true terminal state").
* **`recovery_contract`**: `SwitchFailover` checks a status it read without a lock. An
  abort between that read and the commit reopens the source cell, and the aborted
  failover moves the provider; with two failovers out of one cell the abort of one
  lifts the fence of the other, and a cancelled migration executes in the same way
  (`MIGRATION_RECOVERY_CONTRACT.md:13-14`: fenced before switched, the source refuses
  writes after the fence; `AbortFailover` "cancels a failover that hasn't been switched
  yet").
* **`team_keys`**: suspension and removal revoke the credential id they read. A
  reactivation that commits in between has linked a new key, which stays live for a
  removed member (`team.go:220`, `:268`: "revokes their credential").
* **`limiter_exact`**: one goroutine opens a window by compare-and-swap, another is
  counted and admitted, then the first clears the counter and is admitted too
  (`redis.go:15`: "the semantics match the in-memory Limiter exactly";
  `limiter_extra_test.go:102` expects exactly the limit of a hundred concurrent calls).
* **`last_admin`**: `guardLastWorkspaceAdmin` counts without a lock. Two demotions or
  removals that both count two leave none; so does a demotion that counted two and an
  invitation that rewrites the other administrator's role (`workspace.go:343`, `:393`:
  "can never be demoted", "removed").

Met while modelling, without a run of their own:

* Relay and webhooks. A breaker denial costs an outbox event an attempt
  (`relay.go:232`). `docs/WEBHOOK_EVENTS.md` says 4xx answers are not retried and
  `worker.go:337-350` retries them; the comment on refused URLs says "dead-letter
  immediately" and `worker.go:391-398` retries. A late webhook worker overwrites a
  terminal delivery as a late relay does. The retention sweep may delete an
  event that a suspended provider's delivery still needs.
* Breaker. `breaker.go:214` releases slots that calls admitted while closed never
  took, so three callers can have two probes at `HalfOpenMax = 1` (`breaker.go:56`).
* Audit. A re-put into a COMPLIANCE-mode bucket fails and is not treated
  as success (`archive.go:15-18`); verification from an id that a rollback left
  unused reports ok after checking no row (`0031:244`).
* Idempotency. A panic unwinds past `idempotencyMiddleware`, which has no defer, so
  the claim is not dropped although `idempotency.go:142` says so. After a 504 the
  context has ended, the delete fails and retries get 409 until the sweep. Refusals
  such as 409 `provider_not_writable` are stored and replayed after the provider is
  writable again, and the guard itself uses the state read at authentication
  (`middleware.go:566` says "real-time"). A record lives two TTLs: `expires_at` is
  one ahead and the sweeper's cut-off one behind, and the look-up ignores
  `expires_at`.
* Rate limiter. A late increment can refuse in a fresh window, and a bucket that the
  cleanup drops under a goroutine starts a second one for the same key.
* Catalog. Transitions that overlap can move a version backwards, and a
  replacement that began on a draft may commit after publication. Two overlapping
  terminations of one subscription are both announced (`subscriptions.go:103-106`).
* Usage and invoices. The loser of a race on one transaction id is told of an error:
  the 23505 has aborted its transaction, so the commit fails, although
  `usage.go:71-73` and `:152` ("Racing retry with the same transaction_id: idempotent")
  mean it to be a duplicate reply. The model has this error reply, and
  `RepliesMatchLedger` says that it is given only for a row that exists. A conflict is
  refused even when its audit row could not be written (`usage.go:186-189`), although
  `:73` says "conflict + audit". An invoice first seen finalized has no lines, so
  its usage can be reversed, and the reconciliation's inner join does not see
  such invoices; `payment_status` does not change after finalization.
* Metered billing. Tiered pricing skips tiers without `up_to`;
  `CalculateMeteredCost` and `UpdateBudgetAlertSpend` have no caller but tests.
* Cells. `InitiateFailover` and `CreateCellMigration` do not check that the provider
  lives in `from_cell`; `AssignProviderCell` ignores the region.
* Migration jobs. `dry_run` is stored and never read; a late validation can leave a
  job `validated` with the lock held and its imported records reset;
  `ResumeMigration` has no caller (`StartMigration` resumes an importing job).
* Support, team, credentials. Approval ignores `expires_at`;
  `ReactivateTeamMember` does not check that the caller holds the role's scopes; two rotations
  give two replacements, and a rotated key is not linked to its member.
* Workspaces. Two sign-ups of one user create two workspaces; renaming leaves the
  provider's slug, so a later sign-up with the freed slug fails.
* Directory. A group patch with one unknown user aborts the whole patch.

## 4. Proofs

Eight modules of theorems, each extending the components it is about and TLAPS, hold
for every value of the constants under the named assumptions of those components
(finite sets of actors, positive ceilings, null values outside their sets, integer
prices, patches that are sequences of well-typed operations, two rate-limit levels
or more). No assumption bounds the number of actors, rows or
steps: the bounds of the runs appear in the specifications only as guards that
make a behaviour end earlier. Each component's theorem is about its own
specification: `Spec`, or for the modules that are run together `PlacementSpec`,
`MigrationSpec`, `TeamSpec` and so on, each with the initial states and the steps of its
focus in `control_plane` or `commerce`.

* **`CircuitBreakerProofs`**. `TypeCorrect`. `SlotCapHolds` needs that a caller
  about to compare-and-swap has loaded a count below the maximum
  (`AcquireBelowMax`): then a successful swap stays at or below it, whatever
  happened in between. `LoneCallerLeaksNoSlot` and
  `LoneCallerImplementsSerial`, for one caller without panics, rest on `LoneInv`,
  which says at each program counter which state the breaker is in and whether
  a slot is taken; the refinement mapping holds back a method's effect until its
  last atomic.
* **`OutboxRelayProofs`**. `RelayInv` (types; a relay marks only what it
  claimed). `NothingPublishedUnbilled` adds that an "ok" in hand is a delivery
  the engine took. `DeadLettersSpentAttempts` adds that a claim's copy of the
  counter is never ahead of the row, so stale copies delay and never hasten.
  `LeaseGivesOneHolder`: a claim takes only rows whose lease has ended, and so nobody
  else's. `DeadLettersOutliveLeases`: under a live lease the row is undelivered, so a
  dead letter is marked again only by a relay that has none. `RelaysImplementDelivery` maps
  the rows to `EventDelivery`, where `overdue` is what relays hold without a lease. None
  of them assumes that a lease is long enough.
* **`WebhookWorkerProofs`**. `WebhookTypes` carries `MarkInv`: a worker about to
  mark holds the delivery in its batch, and an "ok" follows a 2xx answer. From
  it `WebhookDelivered`. `WebhookDeadLetter` needs `CopyInv`, that the claim's copy
  of the attempts is never ahead of the row, for a row that may still be posted and
  for one being marked; the purge is what makes the two cases differ. The
  property behind it (`WebhookSpentAttempts`) is in no run.
* **`AuditChainProofs`**. `ChainInv` says the committed rows are a list ending in
  the tail, that they are one together with the lock holder's uncommitted rows
  (so both commit and rollback keep a list), and that a drawn id is fresh:
  `AuditChainLinear`. `ArchiveInv` says what an archiver is about to mark is
  uploaded: `ArchivedBeforePublished`. `BoundaryMissesStraysOnly`, for any number of
  sweepers, uses that open transactions are younger than any cut-off: until another
  sweeper deletes, the rows selected for deletion are those the boundary was read from.
* **`CommerceProofs`**, what an environment sells and counts. *Catalog, usage and
  invoices*. `InvoicesFrozen`: the upsert's guard and the trigger together leave a
  final row alone, whatever list a synchronisation holds. `UsageReplies`: the ledger
  only gains rows, a reply describes rows that are there, a row is told to the one
  request that wrote it, and a transaction id that has its row makes a second insert
  fail, which is what an error reply rests on. Nothing is claimed of the audit row
  of a conflict. `PinnedPlans` rests on `CatalogInv`: versions are numbered in the
  order they are made, a version with a subscription has left draft for good, and no
  replacement in flight holds a plan that someone subscribed to; the row lock of the
  plan is what the last part needs.

  *Metered prices*. `RatingIsRight` is about two loops over the tiers of a rule, and
  a sum over the units of a quantity, of any length. The loop that looks for a tier
  has found nothing before the quantity's tier and that tier's price after it
  (`LookFindsTier`). The tiered loop stands, after `i` tiers below the quantity's, at
  the sum of the unit prices up to the bound of tier `i`, with the rest of the quantity
  left (`TieredAddsUnits`): within a tier all units cost the same (`TierIs`), so one
  multiplication adds what the sum adds unit by unit (`TotalOfEqualUnits`). The theorem
  covers rules with bounded ascending tiers and every quantity, also beyond the last bound;
  tiers without `up_to` are outside.

  *Hard quota*. `OpenWritesExclusive` is inductive with the types and carries the next
  two: since a written row still is what its writer saw, a commit never overrides a
  settlement (`ReservationsSettleOnce`) and its event agrees with its status
  (`OutboxMatchesLedger`). `OverspendIsBounded`: the property alone is not inductive,
  since reservations that are inserted and not committed are no usage yet. `SpendInv`
  adds what they ask for: committed and pending together stay within one highest
  limit per caller. A caller that inserts has seen room in the committed usage, so
  with its amount that is one limit, and each of the others has at most one limit
  pending.

  *SCIM directory*. `DirectoryStaysConsistent`, which no run checks: users have
  different addresses, groups list existing users, a linked customer exists. A loop
  keeps what each of its steps keeps (`LoopKeeps`), so a patch of any length that
  commits leaves a row with a free address (`UserPatchKeeps`), or a set of users
  (`GroupPatchKeeps`).
* **`RequestPathProofs`**, what every API request meets. *Idempotency keys*: `IdempotencyProtects` counts tokens.
  The right to run the operation is in the free key, in the request that holds
  the claim, or spent by an effect; the sum grows only with an `excuses` event
  (a swept record, a dropped claim, a failed look-up). *Rate limiter*:
  `AdmissionsBounded`. With `s` resets of a bucket still to come, the admissions of
  its window are at most `Limit * (N - s - 1)` plus the smaller of its count and
  `Limit`, where `N` is the number of goroutines: a late reset lowers `s` by one and
  the count to zero, and a goroutine that admits is not one that is about to reset.
* **`OperatorProofs`**, what the platform's operators do. *Lifecycle*: `PlanInv` (an
  open change wants a legal change) and `WriterInv` (one writer, the row still as
  it asked) give `LifecycleHistoryIsPath` and `ProvisioningFollowsHistory`; `GateInv`
  (a transition past the gate has an approval on record, and reviews are never
  deleted) gives `LifecycleGoLiveApproved`. *Cells*: `PlacementInv` says
  what a row's status and an open transaction tell of the past, since the write is
  not guarded by what was read: `FailoverStages`, the order of the stages, which is what
  stays of the contract when statuses are stale. *Migration jobs*:
  `ImportsPending` says that a customer created and not yet marked is named by that
  request alone: `MigrationImports`, and beside it `MigrationLocks`. *Support*:
  `ApprovalStagesHold` says how far the approval of an emergency session has come,
  and `EmergencyNeedsTwoOthers` follows; it assumes that the database's null is no
  operator's name.
* **`TenantProofs`**, what a tenant's administrators do. *Exports*:
  `DeletionProofsNameTheirExport` rests on `ExportInv`: a request signs only what
  it has completed, and after it signed nothing writes its row again. No run
  checks this property. *Domains*: `DomainsAreProven`; a token names one registration
  for ever, and wherever it turns up its owner published it. *Workspaces*:
  `LastAdminGuarded`; an open change that takes an administrator away has counted
  two or more, so if the count and the target still hold one is left. *Team*:
  `TeamKeysFollow`; a commit that finds the row as it was read leaves the key and the row
  in agreement, and a key that was ever read for one member is never another's, so
  that rescoping it touches nobody else.

Folds and sums are recursive functions over the subsets of a finite set, and what
they compute is proved by induction. The library's induction theorems take the
predicate as an operator, which the provers cannot instantiate, so `CommerceProofs`
states induction for a *set*: `FiniteInduction` (a set `T` that holds the empty set,
and each set whose parts one smaller are in `T`, holds all subsets of a finite set)
follows from the well-foundedness of strict inclusion, and `UpTo` is the same for the
positions `0..n`. With it the recursive functions of the folds are shown to exist and
to be unique (`FolderExists`, `FoldersAgree`), once for the five folds of the
models, and the usual facts about sums follow (`TotalWithout`, `TotalBounded`, ...).

Only model-checked: liveness (`AlwaysReadmits`, `EventuallySettled`,
`TimedReservationsEnd`, `DeliveriesSettle`, `AnchorsArchived`, `BatchEnds`,
`AccessEnds`, `ClaimsEnd`), which is outside the prover's reach. Every other property
of a passing run is stated by a theorem. The nine violations are counterexamples and
need no proof.

## 5. Not modelled

Row-level security (a module has one tenant in view, or names the tenant of each
row), HTTP decoding and encoding, the web console and the SDKs, cryptography and
re-encryption, the protocols with the identity provider (sessions, vault, portal
tokens), the SLA side of the go-live gate, notification, PSP and settings rows
that one request writes and one reads, configuration parsing, server assembly,
telemetry, and the read-only reports. Lengths of time are abstracted to "before"
and "after", or to a few ticks; no property assumes that a lease suffices. Integers of the metered costs stay small: at their real width
overflow needs amounts near 2^63.

## 6. Plan

Proofs to come: the component theorems carried over to the composed specifications
of `MCControlPlane` and `MCCommerce`, where `focus` lets one component move at a time;
the order of versions under overlapping transitions.

Models to come: the supervisor's back-off, the re-encryption batch, a webhook scan
with a limit and two endpoints.
