# Railbase in TLA+

Railbase is a single-binary backend in Go over PostgreSQL: collections with a
REST API, authentication, realtime subscriptions, background jobs, webhooks, an
audit log, and approval of record changes by delegated authority. The modules
here model the parts whose correctness depends on the order in which processes,
goroutines, requests and operators act. TLC checks them on small instances;
TLAPS proves the results listed under *Proofs* for every value of the constants.

    tlc -config Jobs.cfg MCJobs        # any run below
    tlapm JobsProofs.tla               # any proof module

## 1. The system

| Component | State | Operations | Hard behaviour |
|---|---|---|---|
| Job queue (`internal/jobs/store.go`, `runner.go`) | table `_jobs`; what each worker goroutine holds | Enqueue, Claim, Complete, Fail, Recover, RunNow, Reset, Cancel, welcome-mail sweep | workers die, overrun their lock or meet an operator's reset; statements do not compare `locked_by` |
| Cron (`internal/jobs/cron.go`, `pkg/railbase/app.go`) | table `_cron`; the batch of each scheduler | Upsert, Delete, Enable, MaterialiseDue, seeding at boot | several replicas; row locks that end with the SELECT; a pass cut between INSERT and UPDATE |
| Authority (`internal/authority`, `api/authorityapi`) | matrices, workflows, decisions, delegations, role assignments | draft, version, approve, revoke; create, decide, cancel, consume; grant, revoke; two reapers | decisions race cancel, expiry and each other; pools change between signatures; connections held while asking for more |
| Gate of the record API (`authority/gate.go`, `api/rest/handlers.go`) | the record, the approvals, PATCH requests in flight | read pre-image, check, update and consume | the check is made before, and outside, the transaction that writes |
| Event bus (`internal/eventbus`) | subscriptions with bounded queues | Subscribe, Publish, PublishSync, Unsubscribe, Close; Postgres bridge | overflow, close during publish, lost notifications |
| Realtime (`internal/realtime`) | ring of past events, ids, subscriptions; the client's cursor | fanOut, SubscribeWithResume, Unsubscribe; SSE and WebSocket handlers | subscribe during a fan-out, overflow, resume after eviction, restart |
| Audit log (`internal/audit`) | three kinds of hash chain, their heads in each process, seals, partitions, archives | Write, WriteSite, WriteTenant, seal, ensure partitions, archive, verify | several writers of one chain; heads kept in memory; numbers read before the row is visible; a sweep cut between manifest and DROP |
| Webhooks (`internal/webhooks`) | webhooks, delivery rows, jobs | dispatch, deliver, pause, delete, replay | delivery row and job are two statements; a delivery runs twice; operators cancel and reset its job; shutdown during a publish |
| Permission resolver (`internal/rbac`) over the cache (`internal/cache`) | role tables; entries and flights of each process | Resolve, GetOrLoad, Purge; grant, revoke, assign, unassign, delete role, the admin role editor, the CLI | a load that started before an invalidation; events dropped or never sent; a failing loader |
| Signing in (`internal/auth`, `api/auth`) | account row, sessions, record tokens, enrollments, challenges, lockout | password, refresh, logout, reset, change, verification, email change, one-time code, second factor, OAuth, SAML, LDAP, passkeys | every handler is several transactions; single use under concurrent use |
| Stripe (`internal/stripe`, `api/stripeapi`) | catalog rows with Stripe ids, mirror rows, event log | create, update, push; check out, cancel; webhook | events repeated and out of order; Stripe called between two statements |
| Tenants (`internal/tenant`, `api/tenants`) | workspaces, membership rows, pending invitations, tenant-scoped roles | create, rename, delete; invite, accept, change role, remove; assign, unassign | the caller's role is read before, and outside, the transaction; guards count rows they do not lock |
| Everything else | | | see *Not modelled* |

How they interact. All processes share one database; a process runs the HTTP
handlers, a pool of job workers, one scheduler, one event bus and one broker.
The scheduler inserts jobs and, on the same tick, sweeps stuck ones; the two
authority reapers are jobs. The record API asks the gate, which reads what the
authority requests have written, and consumes an approval in the transaction of
the record's UPDATE. After a mutation it publishes on the bus, from which the
broker, webhooks and caches are fed. The audit log's seal and archive sweeps are
jobs, and so is every webhook delivery.

What makes each part correct:

* *jobs*: a job is one worker's at a time; it is completed only after its
  handler succeeded; it is given up only for a reason; nothing is lost; every
  job settles.
* *cron*: a slot fires once; no pass skips one; the schedule follows its
  stored expression; an operator's decision lasts.
* *authority*: a completed workflow has all the signatures, a veto is final, a
  settled workflow stays settled, an approval is spent once; requests and
  workflows come to an end.
* *gate*: a record reaches a gated state only on an approval, one write for
  each, and with the approved values.
* *realtime*: in order, once, within the tenant, and no gap without a cause.
* *audit*: a chain links; no row is lost to the archive; every row lies under
  one seal; an intact chain verifies.
* *signing in*: what ends all sessions ends them; what serves once serves once;
  a verified address was proven; a lock locks.
* *permissions*: a revoked permission is gone from the cache, at once or soon;
  nobody waits for ever; somebody remains who can administer.
* *webhooks*: every match gets its delivery, the row tells the truth about it,
  and it comes to an end.
* *Stripe*: an event counts once; rows say what Stripe says; an object is made
  once.
* *tenants*: a workspace keeps an owner, and only owners make owners; an
  invitation gives what it says; roles are those of members.

## 2. Modules

| Module | Models |
|---|---|
| `Jobs` | the job queue |
| `JobContract` | what the queue promises its callers; `Jobs` implements it |
| `Cron` | schedules and schedulers |
| `Authority` | matrices, workflows, delegations, reapers, the connection pool |
| `Approval` | the life of an approval; `Authority` implements it, `Gate` builds on it |
| `Gate` | PATCH requests under a gate point |
| `Realtime` | the broker's bus queue, ring and subscriptions, SSE handlers, clients |
| `Audit` | hash chains, seals, partitions, archives, verifiers |
| `SignIn` | one account: sessions, tokens, second factors, lockout, providers |
| `Access` | role tables, permission cache, its invalidation over the bus |
| `Webhooks` | bus, dispatcher, delivery rows and their jobs |
| `Stripe` | catalog, checkouts, customers, the webhook log, Stripe itself |
| `Tenants` | workspaces, members, invitations, tenant-scoped roles |
| `JobsProofs`, `CronProofs`, `SignInProofs`, `StripeProofs`, `AccessProofs` | theorems about the module of that name |
| `GovernanceProofs` | theorems about `Authority` and `Tenants` |
| `AuditGateProofs` | theorems about `Gate` and `Audit` |
| `EventProofs` | theorems about `Webhooks` and `Realtime` |
| `MCJobs`, `MCAuthority`, `MCGate`, `MCRealtime`, `MCAudit`, `MCSignIn`, `MCAccess`, `MCWebhooks`, `MCStripe`, `MCTenants` | instances for TLC |

`Gate` composes with `Authority` through `Approval`: `Gate` EXTENDS it and takes
its steps for the workflows' life, and the run `authority` checks that the
detailed workflows, read through `status` and `consumed`, take no others.
`Webhooks` composes the event bus, the dispatcher and the job queue, the latter
by the steps `Jobs` shows of it; `Access` composes the role tables, the cache
and the bus.

The three proof modules about two components each extend both, which are
independent of each other. One of each pair therefore carries its name in the
names it would share: `GateInit`, `GateNext`, `GateSpec`, `GateTypeOK`,
`gateVars`; `RealtimeNext`, `RealtimeSpec`; `TenantsInit`, `TenantsNext`,
`TenantsSpec`, `tenantsVars`.

### Jobs

A row of `_jobs` is a record; a worker is idle, running a handler, or about to
record an outcome. Each SQL statement is one action (`Claim`, `Complete`,
`Fail`, `Recover`, `RunNow`, `Reset`, `Cancel`, `RetryFailedWelcome`), with the
WHERE clause as its guard: a statement that matches no row still ends the
worker's turn, which is how a late worker's Complete or Fail is modelled.
`RunHandler` is the handler with its possible outcomes, `Abandon` a worker that
dies or whose last statement fails. Times are kept relative to `now()` and
saturate where no guard can tell them apart, so `Tick` needs no bound. `left` is
what the worker still has of the lock it took; `Tick` may pass a worker's limit
only as a counted fault, because a handler runs under a context with that
deadline. History variables record what excuses an anomaly (`disturbed`: reset
under a running worker; `lapsed`: lock ran out under a handler; `revived`:
re-queued by a sweep) and for which jobs a handler returned nil (`succeeded`).

### Cron

Three separate steps, because MaterialiseDue runs on the pool and not in a
transaction: `SelectDue`, then for each row `Insert` and `Advance`.
`StatementFails` follows the code's `continue` and early returns, `Die` stops a
process anywhere, `Boot` and `Seed` upsert the default schedules one by one. An
expression stands for its period, and the clock runs modulo a common multiple
of the periods. `fired` counts the jobs of the current slot.

### Authority and Approval

One key in one tenant, so that the selector has status, effective window and
version to choose by. A decision goes through `LoadDecision` (the HTTP
handler's own check, which does not look at delegations), `BeginDecision`,
`LockWorkflow` (SELECT FOR UPDATE and the checks under the lock),
`SignDecision` (approver pool from a second connection, unique insert) and
`CommitDecision` (satisfaction of the level, advance or settle). `MaxConns` is
the size of the pool, and `Free` whether a connection can be had. The UPDATEs of
`CancelWorkflow` and of the workflow reaper wait for the lock of a row while they
hold a connection: `CancelBegins` and `ReaperBegins` take it, the reaper's with the
rows it has found. `Request` numbers what may be at work at once, and `Worker` is
the one of them that is the jobs worker with the reaper. Roles, delegations,
matrices, TTL, the delegation reaper and dropped clients are actions of their own.

### Gate

`ReadRow`, `Check`, then `Update` or `UpdateAndConsume`; `Fail` for a request
that is refused or whose transaction is rolled back. A pre-image that could not
be read is `Nothing`. `diff` holds what each workflow was asked for, `governed`
whether some matrix applies. `None` is a key that is not there and `Null` a JSON
null: `mergeForGate` puts a null over the stored value, the check against drift
takes both for nil (`same`), and the UPDATE writes NULL where the column may hold
it (`Nullable`).

### Realtime

`FanOut` is the part of fanOut under the mutex: number, ring, list of
subscriptions. Each subscription's turn is `Enqueue`; when the queue is full
`DropOldest` follows as a step of its own, since the reader may take events in
between. `SubscribeWithResume` takes its snapshot and registers in one step,
like the code under the mutex. `WriteReplay`, `ReplayDone` (the marker) and
`WriteEvent` are the SSE handler, `Disconnect` may come at any point,
`Restart` empties everything but the clients. `replaySince` walks the ring with a
recursive function that appends what `Missed` says the client has still to get,
and `Took` is what receiving an event does to the client. `ledger` numbers the
events over all processes; `excused` records why a client may lack one.

### Audit

A row is named by its position in `log`: for the legacy and the site chain the order
of their BIGSERIAL seq, for a tenant's chain that in which rows became visible.
SHA-256 over the
previous hash and the row is injective and rows are never altered, so a position
also stands for a hash, and a verifier can only fail on `prev_hash`. `head[p][c]`
is what process p keeps of chain c. An INSERT has three outcomes, one of them
stored but reported as failed; a failed one has landed by the time the error is
seen, or never does. A tenant's INSERT reads MAX(tenant_seq) + 1 (`Draw`) before
its row is visible (`TenantInsert`), at READ COMMITTED and over an index that is
not unique, so two processes may draw the same number, and `LoadDone` takes any of
the rows that have the highest. `WriteBegin`, `WriteInsert` and `Forward` are the
legacy writer and its mirror into the Store; `LoadBegin` ... `OrphanWrite` are
`tenantChainFor` with one second goroutine for each process and tenant. A row's
month is that of its landing. The archive sweep is three steps
(payload, manifest, DROP) that may stop anywhere. `Verify` and `VerifyArchive`
are operators: what the verifiers would answer now. They walk rows sorted by
number, and archives by tenant and number, and compare each with the one before
it; the walk is stated by that order, over the set of rows, so `TenantId` gives
tenants the order Postgres sorts their ids by. Rows with equal numbers come in any
order; what is said of a walk is said of sound chains, which have none.

### SignIn

One account. A handler is a goroutine, each of its transactions is an action, and
`req` holds its local variables. `ends` lists the occasions that end all
sessions; a session knows which of them came after its evidence (`asof`) and
which it was inserted too late for (`escaped`). `Consume` is one transaction
under a row lock, the typed one-time code is `OtpRead` and `OtpMark`. Providers
appear by what their handlers do to the account. Expiry is the absence of a
further step: nothing obliges a client to use what it has.

### Access

`held` and `granted` are the tables as the two queries of Resolve see them; an
entry carries the number of changes its load had seen. `Get` and `GetOrLoad`
follow the cache's code path: hit, park on a flight, or load with `QueryRoles`
and `QueryActions` and then `Store`. A change is a statement and then a
`Publish`, except through the CLI and the admin role editor, which tell nobody.
The Postgres bridge subscribes to a pattern that matches no topic, so an event
stays in its process.

### Webhooks

`PublishBegin` copies the list of subscribers, `PublishSend` sends without the
lock, `Unsubscribe` is two steps. The dispatcher lists, inserts and enqueues per
webhook. A delivery row and its job are one record; `Check`, `Post`, `Record` and
`Announce` are the delivery handler, `Finish` the result the queue stores, and
`Abandon`, `Recover`, `Crash` and the operators' `Cancel` and `Reset` what the queue
lets happen to it. A Cancel does not reach the handler, and a Reset may start the
job over under it. The announcement is published like any event, but nobody
subscribes to its topic (a pattern "*" matches nothing but itself) and so nobody
leaves it: that Publish cannot meet a closed queue.

### Stripe

Stripe is external: an object has numbered states, each announced by an event
that is delivered, in any order, until it is answered. A request's statements
and calls of Stripe are single steps (`push`, `stamp`, `reread`, `update`,
`customer`, `create`, `save`, `mark`), `Fail` ends it anywhere. A product is made with
its row's active flag and a price active whatever the row says (`MadeActive`), for
CreatePrice does not send the flag. `hist` records the causes the properties name.

### Tenants

A membership row is keyed by a user's account or, while it is an invitation, by
the placeholder `pendingUserID` derives from the address. `Begin` is a handler up
to and including its check of the caller's role (`MyRole`, `Permits`); what the
handler does afterwards is a step of its own, so that the role may have changed.
`ReadTarget`, `CountOwners` and then `UpdateMemberRole` or `RemoveMember` are one
transaction at READ COMMITTED, `AcceptSelect` and `AcceptWrite` another: nothing
read is locked, and writes take effect with the commit. `inbox` keeps each
address's invitations in the order of `invited_at`, by which AcceptInvite
chooses. A failed lookup of a user makes a pending invitation for somebody who
has an account. `overlap`, `stale`, `strangers` and `left` record the causes the
property names.

Every module has a `TypeOK` or its variables' comments to say what its state is;
the `TypeOK` of `Jobs`, `Gate`, `Authority`, `Cron`, `Audit` and `Realtime` are
proved, and the proofs of `SignIn`, `Stripe`, `Access`, `Webhooks` and `Tenants`
type what their invariants speak of.

## 3. Runs

| Run | Instance | States | Shows |
|---|---|---|---|
| `jobs` | 2 workers, 3 attempts; 1 job with 2 faults, a reset and the welcome-mail sweep, or 2 jobs with 1 fault | 990 thousand | `ExclusiveClaim`, `FailedIsEarned`, `AttemptsAccounted`, refinement of `JobContract`, `EverySettles` |
| `cron` | 1 schedule, 2 replicas, periods 1 and 3, 2 faults, 2 re-creations | 190 thousand | `FiredOncePerSlot`, `NextMatchesExpression`, `NoSilentSkip`, `DueIsServed` |
| `authority` | 3 users, 2 matrices and versions, 2 levels, 2 requests and the reaper | 2.8 million | `AllLevelsPassed`, `VetoEnds`, refinement of `Approval` |
| `authority_liveness` | 2 users, 1 matrix, 1 delegation, 2 requests and the reaper | 200 thousand | `EveryRequestAnswered`, `EveryWorkflowSettles` |
| `gate` | 2 workflows, 2 requests, 2 values and null | 3.6 million | `OneWritePerApproval`, `PublishNeedsApproval`, `SetsWhatWasApproved` |
| `realtime` | 2 clients, 2 tenants, 4 events, ring of 2, queues of 1, 1 restart | 2.5 million | `InOrder`, `GapsAccounted`, `TenantIsolation` |
| `audit` | 2 processes, 3 to 5 rows, up to 2 months and 2 mishaps, 4 instances | 2.3 million | `ChainLinks`, `NothingLost`, `SealsCover`, `VerdictExact` |
| `signin` | 2 requests at a time, 5 to 7 calls, 1 mishap, 7 groups of flows | 1 million | `EndedStaysEnded`, `RedeemedOnce`, `VerifiedIsProven`, `LockHolds` |
| `access` | 2 or 3 requests, 2 processes, 1 to 3 changes, buffer of 1, 5 instances | 470 thousand | `StaleOnlyIfExcused`, `SystemAdminRemains`, `CacheConverges`, `WaitersReleased` |
| `webhooks` | 2 webhooks, 2 workers, 2 attempts, 1 to 3 events, 5 instances | 700 thousand | `EachMatchServed`, `OutcomeHonest`, `PanicNeedsOverlap`, `DeliverySettles` |
| `stripe` | 2 requests, 1 payment, 1 subscription of 3 states, 4 instances | 2.6 million | `EventCountsOnce`, `StaleIsExplained`, `CatalogExplained` |
| `tenants` | 2 requests at a time, 4 calls, 2 or 3 users, 1 or 2 workspaces, 4 instances | 1.3 million | `MembershipGoverned` |

The last six modules take their bounds from a constant `Instances`: `bound` is
chosen in the initial state and never changes, so one run explores several small
systems, each rich in one kind of event, one after the other. Failures are
counted together as `mishaps`. `MCJobs` does the same for `Jobs`, outside of the
module the proofs are about.

`MembershipGoverned` has five parts: a live workspace has an owner unless two
owner guards overlapped (`OwnerRemains`); a role on a workspace belongs to a
member, to a stranger it was given to, or to one who has left
(`GrantsExplained`); an accepted invitation gives its role in the workspace that
was named (`InviteHonoured`); the rows of a deleted workspace change only by
requests let in before, or by accepting (`DeletedIsQuiet`); an owner row is made
by an owner (`OwnersMakeOwners`). The module has a mutant for each part:
`LastOwnerNever`, `AssignAnywhere`, `OfferedAnywhere`, `MyRoleOfAny`,
`AssignableByAnyAdmin`.

Several of these properties have the form "this never happens, except": the
exceptions are named causes, recorded by history variables, and the property
says that there is no other. That is what the code guarantees; section 5 lists
where its documentation promises more.

Why these bounds are enough. *Jobs*: rows do not interact
except through the workers, so one row with a late and a current worker has the
races on a row, and the theorems hold for any number of them; three attempts
leave a retry after a fault and one before the last; competition for workers is
the second instance. *Cron*: two passes
overlap, a third adds no new kind of overlap; the periods 1 and 3 let an edited
expression have an earlier and a later next slot than the one in hand.
*Authority*: two requests at two levels race on one workflow; a threshold level
that names two users and a role, and then an "all" level whose pool changes,
have all the evaluation rules but "any", which is in the other two instances.
*Gate*: two approvals and two requests, so that both can be let by on the same
approval, or on different ones; the protected column can be null, the gated one
cannot. *Realtime*: four events fill the ring twice,
with the first delivered to give a cursor; a queue of one overflows; one restart
gives one stale cursor. *Audit*: five rows of two processes let both insert since
the other's head, with a seal before, between and after; two processes and four rows of
one tenant, with two mishaps, to draw equal numbers and load a head after; two months and a third
make an archive, a successor and rows in the default partition. *SignIn*: two
handlers, so that each flow meets each other flow of its group at every step;
five to seven calls leave a call before and after the overlap. *Access*: a loader,
a waiter and a writer; two processes, one of them never told; two editors of two
admins. *Webhooks*: two runs of one delivery, by two mishaps or by a cancel and a reset, two
webhooks of one event, edits with a replay, two publishers around a shutdown. *Stripe*: two requests on one row, one object with
a first, a middle and a last state. *Tenants*: two handlers, so that two guards
or an acceptance and a change of the invitation overlap, after two calls that
make the second owner or the invitation.

Symmetry is used over requests, patchers, slugs and body values, which are
only compared for equality, and in runs without liveness properties.
Deadlock is not checked where a bounded number of workflows, calls, rows, events
or sales ends all activity (`Authority`, `Gate` and the last six modules); the
other models never stop.

Fairness, where a run has liveness. `Jobs`: workers loop, handlers return by
their context's deadline, the sweep rides on every scheduler tick, time passes;
nothing is assumed of operators, callers and faults, which are bounded in
number. `Cron`: a dead process is started again and its loop keeps running;
operators owe nothing. `Authority`: requests are served (`Serve`), the TTL
passes, and the reaper is strongly fair: PostgreSQL grants a row's lock in the
order of the queue, so a stream of decisions does not overtake it for ever.
`EveryRequestAnswered` needs one connection more than there are decisions, cancels
and sweeps in progress: `MaxConns` is 4 for two requests and the reaper, and with 3
TLC shows a decision that holds the row and waits for a connection, and the others
waiting for the row with one each. `Access`: a request that runs goes on
running and time passes; purges need not happen, for the entry's life is enough.
`Webhooks`: the dispatcher and the workers run, every due job is claimed by some
worker in turn (Claim takes the longest due first), and the sweep finds jobs whose
worker is gone; nothing resets a cancelled job. `Cron`, `Access` and `Webhooks` assume nothing of operators.

## 4. Proofs

From `JobsAssumption` (the constants have their types; locks, attempts and
backoffs are at least 1), for any sets of jobs and workers:

* `TypeCorrect`. The lemmas before it say that each row operation returns a row.
* `ClaimsAreExclusive`, `FailuresAreEarned`. Neither property is inductive:
  nothing in it says that a second claim is impossible. `IInv` in `Jobs` adds
  `HolderOwns` (a holder not disturbed or lapsed is the row's `lockedBy`, with
  the row's time left, unless the row was cancelled), `SnapshotNotAhead` (the
  attempts a worker remembers are at most the row's), `HeldWasEnqueued` and
  `SuccessIsReal`. A claim then finds no undisturbed holder because it needs a
  pending row, and a sweep finds none because it needs an elapsed lock.
* `BudgetHolds`: a row is claimed at most `MaxAttempts` times and once more per
  sweep that found it. The bound on `attempts` says nothing of where they come
  from, so `Ledger` keeps an account: every claim uses up one queueing, and a
  queueing is the first, a sweep's, or that of a Fail that ended an attempt below
  the budget for good. `DistinctAttempts` says that no two workers end the same
  one, which is why late Fails of overrun workers do not add to the budget.
* `KeepsContract`: `Jobs` implements `JobContract`, with `phase` the status and
  `delivered` the successes. The late Complete of an overrun worker is a step
  Finish of the contract because of `SuccessIsReal`.

From `GateAssumption`, for any numbers of workflows, requests and values:

* `GateTypeCorrect`, and `ApprovalsBackOneWrite`, which is inductive with it.
* `PublishingIsApproved`, with `From = {}` as a hypothesis: without source
  values a request that was let by without an approval, in spite of a matrix,
  does not set a gated value (`PassesUngated`).
* `WritesAreAsApproved`, from `PassesAsApproved`: a request let by on an
  approval carries, in the protected fields it sets, the approved values, or a
  null where the approved diff leaves the field out, and an approval's diff does
  not change. The code lets the null by (section 5); the theorem says that nothing
  else gets past.

From `AuthorityAssumption` (besides types: a delegation is to somebody else, a
matrix has a level, and a level asks for at least one signature), for any users,
matrices, level lists, workflows, requests and size of the connection pool:

* `Invariant`. `Pinned`: workflows, and requests about to make one, refer to
  matrices that can no longer be edited. `Informed`: a decision under way is about
  a level its matrix has, and not the initiator's. `LockSound`: under the row lock
  the workflow is running at the decision's level, and one decision holds it.
  `Orderly`: at most one workflow runs, a spent approval was given. `FourEyes`: the
  initiator has not signed.
* `VetoIsFinal`: a workflow is rejected exactly when somebody rejected it. The
  interesting step is the commit of a decision, whose verdict was chosen before
  the lock: `LockSound` says that no cancel, expiry or other decision came between.
* `LevelsPass`, with `Contiguous` as a hypothesis: level numbers run from 1 without
  a gap. The code does not insist on this (section 5), and without it the property
  fails. A level is evaluated under the lock, on all its signatures; for mode
  "all" the pool may have changed, but the users the level names are in every pool.
* `KeepsApproval`: `Authority` implements `Approval`, and with that what `Gate`
  EXTENDS is what the detailed workflows do.

From `CronAssumption` (besides types: periods are at least 1 and divide the cycle),
for any schedules, processes, periods and faults:

* `Invariant`. `OneEach`, `Alone`: a pass has one item per schedule in hand, and
  two passes have one only if the schedule is `raced`. `CountedIsOwed`,
  `OwedIsCounted`: a job is counted for the current slot exactly while the pass
  that inserted it has the row still to advance. `SlotFits`: what a pass is going
  to write fits the row's expression, unless the row was edited under it.
* `OncePerSlot`, `WithinOnePeriod` and the action property `NothingSkipped`.
  None is inductive: each depends on what a pass read before its INSERT.

From `SignInAssumption` (requests are finitely many and there is one; the threshold
is at least 1), for any number of calls and failures:

* `Invariant`. Its parts tie rows to the handlers that have read them and have yet
  to write. `Ended`: a refresh under way knows of every end of all sessions, that
  it was still open or that it excuses the session. `Proven`: a verification token
  was mailed to the row's address, or that address is proven by now. `Redeemed`,
  `Recovered`: the uses of a typed or recovery code, together with the requests
  that have checked it and not yet marked it, are at most the requests there are.
  `Answered`: a solved challenge without its session is solved by one request.
  `Locking`: late comparisons and those to come are fewer than the requests, for
  the one that locked is past its own.
* `EndsSessions`, `VerifiesOwners`, `RedeemsOnce`, `LocksOut`.

From `StripeAssumption` (payments, subscriptions and catalog rows have different
names; a subscription has at least two states), for any requests, customers, sales,
changes and failures:

* `Invariant`. `Counted`: an event being handled is in the log, by one request, and
  not projected before its row is written. `Sold`: rows, events and states about to
  be written are no newer than Stripe, and what was projected is still there unless
  something was written over it late. `Shelved`: for each catalog row, either the
  excuse is recorded, or one request at most is about it, the object is made only
  while there is none, and has the row's fields but for an update under way. A
  price pushed while its row is archived records the excuse.
  `Known`: the same for customers, where `Steady` says that a customer keeps its
  email because nobody mirrors it without before it has a subscription.
* `CountsOnce`, `RowsExplained`, `CopiesExplained`. The proof of `RowsExplained`
  does not need that requests about the sale are done; `StaleIsExplained` says so
  since, which is more than the run once checked.

From `AccessAssumption` (types), for any processes, keys, roles, requests, changes
and buffers:

* `Invariant`. `Flights`: a flight is registered while its loader is at it, or has
  panicked, and who waits for it asked for the same. `Numbers`: a change is
  published once, so its event cannot have returned before it is published.
  `Served`: what a process is due to know is in its cached entries and in the loads
  that have queried, or noted there as missed. `Guarded`: while nothing got past
  the last-admin guard, one editor at most is past it, and there is an admin
  besides those it is about to demote.
* `ServesChanges`. The step that matters is the purge: its change becomes due, the
  cached entries go, and the loads that have queried note it as missed, and
  carry the note into the cache and to those who wait for them.
* `KeepsAnAdmin`: the guard counted before the edit is written, and `Guarded` says
  what that count still means.

From `WebhooksAssumption` (besides types: finitely many workers, which the code's
pool has), for any webhooks, patterns, publishers, events, rows and mishaps:

* `WebhooksInvariant`. `Bus`: who has the subscription in its copy of the list made
  the copy before the Unsubscribe. `Flow`: event numbers are distinct, and an event
  is with one publisher, in the queue or at the dispatcher, so none is dispatched
  twice. `Matched`: what the dispatcher found has failed, is still to do, or has a
  row. `Rows`: for each delivery, announcements made, workers
  that have yet to make one and its place in the queue together are at most one more
  than the times a sweep or a reset made its job pending again (`reruns`); without
  these its run is alone, and an accepted delivery of which no outcome was lost is
  recorded as such, or about to be, whether or not the job is cancelled under the run.
* `ServesMatches`, `TellsTruth`, `PanicsOnOverlap`. `OutcomeHonest` speaks of
  announcements that have been made; the account in `Rows` adds those to come.

From `AuditAssumption` (a tenant is not named like another chain; tenants have
different ids; a process is not a number, for a goroutine with a dropped head is
named by its row), for any processes, tenants, rows, months and mishaps:

* `AuditTypeCorrect`. With it goes `OwnRows`: a head in memory and a row's
  `prev_hash` name a row of their own chain, however heads are loaded and lost.
* `LinksBreakOnlyWhereExplained`. `ChainLinks` says when a link is broken, of rows
  that exist; `ChainInv` says it of the head a process is going to use next
  (`HeadsExplained`): it is the chain's newest row unless that row came after the head
  was read and did not move it (it is another process's, or of a goroutine whose
  chain object was dropped after a failed load, or an own insert reported as
  failed: `Overtaken`), or the newest row had been archived when the head was read
  (`LoadedBehind`), or had not the highest number alone (`LoadedTied`). An INSERT turns the
  second statement into the first. The first two causes always break a link.
* `RowsAreNeverLost`. `ArchiveInv` follows the sweep: what is dropped has a manifest
  (`DroppedArchived`), a payload holds the whole of a past month and keeps doing so
  (`SweepSound`, `StagedWhole`), because rows come month after month
  (`MonthsFollow`) and, once one is in a month's partition, none of that month goes
  into `_default` any more (`CurrentKept`, `NoStrayAfter`).
* `SealsTileTheChain`. In a sound legacy chain times grow with positions, a seal
  begins where the last one ended, and no writer is left with a time a seal has
  passed (`InTime`); so the ranges tile the sealed part, and a row is in one.
* `NumbersFollowInsertions` (`SeqFollows`): numbers of rows that are in the table
  together, or together in an archive, grow with insertion among the rows of one
  writer, and on a sound chain among all. `DrawnAbove` says it of a number that an
  INSERT has read and not yet stored: it is above those in the table but for the
  rows others have added since the writer's head was read. A row inherits this
  (`SeqOrCrossed`), and `SinceKept` and `HeadSince` show that a row which crosses
  another in this way is behind a broken link, in `SoundNumbers`. `tenant_seq` starts
  again when a tenant's rows are all archived, so none of this holds of a chain as a
  whole.
* `VerdictsAreExact`. With `SeqFollows`, the row before another in the walk is its
  predecessor in the chain or a row that follows a dropped one, which is what the
  verdict depends on.

From `RealtimeAssumption` (types; the bus queue, the ring and the queues have room
for an event), for any clients, interests, buffers, events and restarts:

* `RealtimeTypeCorrect`, `GapsAreAccounted`, `TenantsStayApart` and the action
  property `FramesComeInOrder`, all from one invariant. `Broad` is about the
  process: the ring holds the latest events in order and none is missing from it.
  `Served` is about one client: what is on its way (the rest of the replay, the
  queue, the event in the fan-out's hand) is of its tenant, in order and later than
  what it has (`Lined`); its cursor is the last event it has, if that is of this
  process (`Knows`); and what it lacks is on its way, excused, or about to be told
  of by the marker (`Accounted`).
* What `replaySince` returns is the one induction over data that is needed, on the
  length of a walk through the ring. The library's induction theorem cannot be
  instantiated here, so the lemmas `Inductive` and `KeptIs` argue by the least
  counterexample, from the well-foundedness of the naturals.

From `TenantsAssumption` (`Nil` is nobody; people are finitely many), for any
tenants, people, slugs, requests and groups of handlers:

* `MembershipIsGoverned`, the whole of `MembershipGoverned`. `Vouched` says what a
  request under way has seen to: the caller's role in a tenant that was live, a
  role it may assign, an invitation of the tenant that was asked for, and, before
  it writes a row that may be an owner's, that it counted more than one owner.
  `AnotherOwner` then says what that is worth: if nothing the guard read has
  changed, an owner besides the one it changes remains; if something has, the
  overlap is on record. `PendingStays`, that an invitation's row is never an
  accepted one, keeps an acceptance from taking away an owner.

How the long proofs are laid out: first what each operator and each action leave
behind, then a *frame* for every part of the invariant (`EndedCalm`, `SoldCalm`
and their like: the part holds after any step that leaves its variables, and the
locals it speaks of, alone), then for each action the parts it disturbs.

Only model-checked is liveness, for fairness and ENABLED are beyond the prover:
`EverySettles`, `DueIsServed`, `EveryRequestAnswered`, `EveryWorkflowSettles`,
`CacheConverges`, `WaitersReleased` and `DeliverySettles`. Every other property of
a run is a theorem. Two carry a hypothesis the code does not enforce: `LevelsPass`
that level numbers have no gap, `PublishingIsApproved` that a gate point has no
source values.

## 5. What the code and its documentation disagree on

`PROJECT.json` quotes each. In the order of the modules:

* *jobs, cron*: retries are not bounded by max_attempts when workers die, for
  only Fail compares the two numbers; a deleted default schedule comes back at
  boot.
* *authority, gate*: a gap in the level numbers completes a workflow early; the
  decision handler ignores delegations; a protected field may change between
  check and consume; a pre-image that could not be read makes a gate point with
  source values match nothing; a newer approval hides an older one that fits; a null
  in a protected field that the approval says nothing of is let by and blanks it;
  numbers in protected fields never compare equal.
* *realtime, bus*: after a restart a resuming client is not told of its gap; the
  truncation marker comes after frames that move the cursor past it; topics are
  replaced while fanOut reads them; the bus may send on a closed queue; the
  Postgres bridge subscribes to a pattern that matches nothing.
* *audit*: no seal is asked for before archiving and no archive is walked before
  the DROP; live walks and archives of several tenants fail on intact chains; a
  failed load leaves its waiter on a zero hash; tenant_seq does not collide on a
  unique index, so overlapping inserts store it twice; there are no initial
  partitions.
* *signing in*: sessions begun or refreshed on older evidence survive the end of
  all sessions; a typed code serves overlapping requests; SAML groups only add
  roles; a failed link is not found again as the comment says; a refresh for the
  wrong collection ends the session it refuses.
* *permissions*: the last-admin guard does not see a concurrent edit; the role
  editor's event is never published; Resolve is two queries; a loader that
  panics leaves its flight registered.
* *webhooks*: a replay has no job; outcomes are announced more than once, or
  never; the attempt number stays 1. A cancelled job leaves its row `pending` or
  `retry` until it is reset, and no documentation says otherwise.
* *Stripe*: Push-catalog repairs no stale object, may create one twice and makes
  archived prices active; an
  event cut short is taken for handled; transient failures are not retried;
  statuses are overwritten out of order.
* *tenants*: two overlapping demotions or removals leave no owner; a role is
  assigned without looking for a membership; an invitation that meets a member
  stays pending; an accepted row keeps the invited address.
* *runtime configuration*: a failed read gives the environment's value or zero.

## 6. Not modelled

Within the modelled components: the crontab grammar and CronStore.RunNow; the
selector's amount, currency and tenant filters, inbox queries and the audit sink
of authority; several gate points on one collection, hooks and adjacency checks;
the WebSocket transport with its changing topics, the PocketBase handshake and a
disabled ring; PublishSync and Close of the bus; redaction, encoding and key
rotation of the audit log and its S3 target; API tokens, impersonation, trusted
devices and admin accounts; signing and URL validation of webhooks; amounts and
currencies at Stripe; names, listings and the X-Tenant middleware of tenants.
Rows and payloads are reduced to what a guard or a property looks at.

Left out as a whole, and most of the repository's lines: SQL generation, the
filter language, the schema builder and its migrations (pure compilation; the
state is in PostgreSQL); listings, pagination and the read side of the admin API
(no state changes); the wire protocols of OAuth, SAML, LDAP, SCIM and WebAuthn
(parsing and cryptography of external services); the hooks runtime (an embedded
JavaScript engine); settings, notifications, files, backup, export, mail and
translations (single statements, input and output); start-up wiring, the CLI, the
admin UI, the SDK generator and examples.

## 7. Plan

Done: `Jobs` with `JobContract`, `Cron`, `Authority` with `Approval`, `Gate`,
`Realtime` for SSE, `Audit`, `SignIn`, `Access`, `Webhooks`, `Stripe` and `Tenants`,
and a theorem for every safety property a run checks. What is left, in this order:

1. `Realtime` for the WebSocket transport, whose topics change under a fan-out; the
   race of section 5 is not in the model.
2. Notifications (`internal/notifications`): preferences, digests and their jobs, on
   top of `Jobs`.
3. Settings and runtime configuration: the overlay of environment, table and
   defaults, and who is told of a change.
4. Files and backup: what is on disk and what the table says, across a crash.
