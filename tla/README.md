# Cloudnivo: formal models

Cloudnivo is a multi-tenant backend platform in TypeScript. Customers create
projects; a project gets a Postgres database, authentication, storage,
functions, realtime channels, queues, schedules, webhooks and agent tokens. This
directory holds TLA+ models of the parts whose correctness depends on the order
in which several processes run, the TLC configurations that check them, and
TLAPS proofs about all eleven modelled components: every safety property that a run
checks is also a theorem.

Paths are relative to the repository. Every definition that stands for code is
listed in `PROJECT.json` under `map`, with the file and lines it models; the
places of the code that a unit test hardly reaches are under `hazards`.

    tlc -workers 2 -config Provisioning.cfg MCProvisioning         # check a run
    tlapm ProvisioningProofs.tla                                   # check proofs

## 1. The system

### Processes and shared state

* **API** (`apps/api/src/index.ts` and its route files): one or more Node
  processes. A handler is a chain of awaited calls; between two of them every
  other handler runs. Some handlers leave an un-awaited promise behind: the
  provisioning driver, the inline webhook attempts, a function deployment.
* **Worker** (`apps/api/src/worker.ts`): one process with one poll loop. A poll
  runs the provisioning reaper, then billing, agents, automation, backups,
  retention and log drains, one after the other in one `try`.
* **Control-plane Postgres**: the durable store of everything, reached through
  Drizzle statement by statement. Almost no transaction spans two statements:
  what a handler read may have changed when it writes.
* **Outside**: the Postgres server (or Docker) that holds the project
  databases, the object provider (disk or S3), webhook receivers, queue
  consumers, agents, payment providers, Redis.

A restart of the API or of the worker loses exactly the promises that were
under way; the rows stay.

### Components

| component | state | operations | what is hard | what makes it correct |
|---|---|---|---|---|
| provisioning (`packages/provisioning`, `apps/api/src/projects.ts`) | job rows, project and database rows, saved credential; roles and databases at the provider | create, re-provision, delete a project; driver with retries and rollback; reaper | three stores without a transaction, retries, restarts, databases named by a shortened slug, idempotency keys | accepted jobs end; a terminal row stays so; what is saved opens the database; delete takes its own database and nothing else |
| automation queues (`packages/automation`) | message rows with status, lease, delivery count | publish, consume, ack, nack, purge, delete | leases expire under consumers that still work, any member may answer any message, two-statement writes | no accepted message is lost, excess deliveries have a reason, every message settles |
| outbound webhooks (`packages/automation`) | webhook rows, delivery rows | emit, test, replay, retry, enable, disable, rotate, delete | inline attempt and worker retry of one row | outcomes recorded are earned; every delivery ends; one attempt at a time |
| cron schedules (`packages/automation`) | schedule rows with `nextRunAt` | create, patch, trigger, delete, worker pass | pass works on a snapshot; time moves meanwhile | a due run fires, and fires once |
| object storage (`packages/storage`) | bucket and object rows; bytes at the provider; usage | upload, signed PUT, copy, move, remove, delete bucket | rows and bytes in two stores, upserts, quota read before the write | rows describe bytes, quota, nothing dropped silently |
| resumable uploads (`packages/storage`) | session row with its part list; part objects | put part, complete, abort, expiry | parts in parallel, retries | the object is all acknowledged parts or none; parts are cleaned |
| agent tokens and approvals (`packages/agents`) | token rows, approval rows | gate, decide, consume, expire, rotate, revoke | check and use are apart | an approval admits one run of the operation it was given for |
| billing (`packages/billing`) | subscriptions, invoices, payments, provider events, warnings | invoice, provider events, plan change, cancel, expiry | duplicate and overlapping events, restarts between record and apply, rows written back whole | a paid invoice is covered; what is recorded is applied; the subscription is what the last change made of it |
| functions (`packages/functions`) | functions, versions, sources, jobs and in-flight counts, all in memory | create, deploy, redeploy, activate, delete, invoke | un-awaited pipelines that outlive their function, counters raised and lowered around awaits | ready means verified; the newest deployment decides; the limit holds; no deployment hangs |
| realtime gateway, change feed (`packages/realtime`, `packages/database/src/realtime-cdc.ts`) | connections, subscriptions, presence | subscribe, publish, track, disconnect | frames of one socket overlap, handlers go on after the drop, maps change under a loop | who is present listens; limits hold; steady subscribers are served |
| customer and platform auth (`packages/auth`, `apps/api/src/platform-auth.ts`) | users, sessions, refresh and one-time tokens | sign in, refresh, reset, revoke | check and write apart, rotation in two statements, links found then consumed | a session proves the password it was opened with; a retired token is known; a link is spent once |
| database branches, migrations, lifecycle, backups, retention, log drains | branch, migration, status and backup rows, drain cursor | create, reset, apply, start, stop, drain | long provider calls, status written from several places | status follows the provider; a drain loses nothing |
| AI builder (`packages/ai`) | plan rows, journal | propose, approve, apply, roll back | plan finished by two paths | one outcome per plan |
| cache and rate limits (`packages/cache`, `packages/api-core`) | counters with expiry | hit | INCR and EXPIRE apart | the window ends |
| data API, project databases, tools, request filtering, administration, dashboard, CLI, SDK | little of their own | queries and views | input handling | outside this project |

### How they meet

Provisioning writes the registry rows the data API, branches and backups read.
Deleting a project cascades to every other row of it. Projects, storage,
functions and auth emit events that webhooks fan out. The worker calls the
packages with the same stores as the API and shares no memory with it, so the
only arbiter between the two is a statement's `WHERE`. An uncaught error in one
pass of a poll skips the passes behind it. The agent gate stands in front of
destructive routes and consumes an approval before the route runs.

## 2. The modules

| module | models | checked by | proved in |
|---|---|---|---|
| `Provisioning` | create, re-provision, delete; driver; managed provider; reaper; restarts | `MCProvisioning` | `ProvisioningProofs` |
| `AcceptedMessages` | what a queue promises (abstract) | as a property of `AutomationQueue` | |
| `AutomationQueue` | one queue on the Drizzle store | `MCAutomationQueue` | `AutomationProofs` |
| `OneTimeGrant` | what an approval promises (abstract) | as a property of `AgentApprovals` | |
| `AgentApprovals` | approval gate, decisions, maintenance, rotation | `MCAgentApprovals` | `ControlPlaneProofs` |
| `WebhookDeliveries` | fan-out, inline attempts, retries, managers, restarts | `MCWebhookDeliveries` | `MessagingProofs` |
| `Schedules` | worker pass, patch, trigger, time | `MCSchedules` | `AutomationProofs` |
| `UploadSessions` | parts, complete, abort, expiry of one session | `MCUploadSessions` | `UploadSessionsProofs` |
| `ObjectStorage` | rows and bytes of one bucket | `MCObjectStorage` | `ObjectStorageProofs` |
| `CustomerSessions` | sessions, rotation, links, password and status of one end user | `MCCustomerSessions` | `CustomerSessionsProofs` |
| `FunctionDeploys` | versions, pipelines, invocations of one slug | `MCFunctionDeploys` | `FunctionDeploysProofs` |
| `Billing` | invoices, provider events, subscription of one organization | `MCBilling` | `ControlPlaneProofs` |
| `RealtimeGateway` | connections, subscriptions, presence, fan-out in one gateway | `MCRealtimeGateway` | `MessagingProofs` |

Conventions shared by all of them:

* Three of the proof modules are about two components each and extend both, so
  `Schedules`, `Billing` and `RealtimeGateway` have names of their own for what
  every module has: `CronInit`, `CronNext`, `CronSpec`, `CronTypeOK`,
  `CronAssumption`, and so with `Billing` and `Gateway`.
* A request is sent at most once and names what it makes: create request `c`
  makes project `c`, approval request `r` makes approval row `r`. A row that is
  not there yet is `"none"`.
* A handler's position is a program counter; one action is one awaited call
  with the synchronous code around it. A handler that ends early (404, 409)
  goes to `"done"` from there.
* A restart sends every handler that was under way to `"dead"` (or back to
  idle) and leaves every row alone; what lives in memory only
  (`FunctionDeploys`) it empties. `MaxCrashes` and `MaxRestarts` bound the
  number of restarts, `MaxFaults` the number of calls that fail (in the two
  storage modules and in `Billing`, of failed calls and restarts together),
  `MaxRequests` the number of requests sent in a behaviour.
* History variables (`executed`, `excused`, `met`, `invoked`, `crossed`,
  `contested`, `missed`, `overshot`, `doubled`, `proof`, `stale`, ...) are read by
  properties only; no guard of an action that models code reads one, but for the
  bound on `Schedules`' `unmarked`.
* Next to some operators stands a variant that is used nowhere
  (`CompleteCredentialFirst`, `WorkerListPendingOnly`, `MarkConsumedBlind`, ...):
  the same code with a plausible mistake. Each property of a passing run fails
  when its variant is put in place, which shows that the property depends on
  that line. `PROJECT.json` lists the pairs under `mutants`.

### Provisioning

`CreateProject`/`CreateJob` are the two writes of `POST /projects`
(`projects.ts:339-440`, with the key looked up first), `Reprovision` those of
`POST /projects/:id/database/provision`, `Delete` to `DeleteProject` the
statements of `DELETE /projects/:id`. `DriveStart` to `SaveCredential` is
`driveProvision` (`orchestrator.ts:150-208`) and what its callers do with the
result: mark running, provide, mark completed, append to the log, save the
record, save the credential; `AttemptFailed` is its retry and its last failure.
`StatementFails` lets any statement on the control plane fail: mostly the handler
ends there, but `Complete` and `AppendLog` are inside the `try`, so the catch
follows (`GiveUp`), which writes `failed` whatever the row says. It cannot write
`retrying`: a database error is not a `ProvisionerError`, so it is not recoverable.
`Adopt` to `VerifyHealthy` are the SQL statements of the managed provider, with
rollback (`DropCreatedRole`) and `destroy` (`DropDatabase`, `DropRole`).

Databases and roles have a `Name`, what `dbNameFor` makes of the slug: forty
characters, with `-` as `_`, without the organization. `NameOf` maps slugs to
names, and a slug is unique in its organization only, so several projects may have
one name. `role[n]` holds the request whose generated password the role `n` has,
so "this credential opens that database" is an equation between two variables.
`contested` are the projects whose name others had a hold on when their role was
created (`Disputed`): a delete at work on it, a driver about to drop what is not
its own, or a namesake with a record of a database that is gone and that a second
delete can still be asked for. `missed` are the requests one of whose statements
failed. `WorkerList`/`WorkerReap` are `drainOnce`; `Age` is the passing of
`WORKER_STALE_MS`.

### AutomationQueue

`LookUpKey`/`Insert` are the two statements of `publish`, `Consume` the one
`UPDATE ... RETURNING` and the slice after it (`store-drizzle.ts:180-205`),
`Answer` the look-up of the message that `ack` and `nack` begin with,
`ReadForNack` and `Write` their statements. `older` keeps the order of
`createdAt`, which decides what the listing window of `scopedMessage` holds.
`LeaseExpires` is time. A consumer that stops, or whose reply is lost, is a
`Consume` that leases rows and hands it nothing. `Answer` has no guard on who
holds the message: the routes take any listed id from any member of the project
(`automation.ts:402-410`). `held` guards nothing: fairness (`AnswerHeld`) and `EveryMessageSettles` read it.
A delivery count is kept up to `Excess` above `MaxDeliveries`: the code only
compares it. `excused` counts, for a message whose deliveries are used up, the
leases that expired unanswered and the deliveries made while a requeue of it was
between its read and its write (`Requeuing`).

`AcceptedMessages` says what is promised whatever members do: an accepted message
is open until it is settled, one message at a time, and leaves the queue only
settled or with the queue. A settled message may be reopened, since ack and nack
write by id. That it was handed to somebody before it was settled is not promised,
for the code does not see to it. `KeepsPromise` is its specification under the
mapping of `State`.

### AgentApprovals

`Verify` to `Execute` is a destructive request through `gateDestructive`:
verify the token, request an approval or check the one presented, mark it
consumed (a conditional `UPDATE`), run. `ReadForDecision`, `Decide` and
`ExpireAtDecision` are `decideApproval`; `MaintenanceList`/`MaintenanceExpire`
the worker's maintenance, which sees an organization only if it is given it
(`OrgListed`); `ReadForRotation` to `SaveSuccessor` the rotation.
`OneTimeGrant` lets each grant be used once, by its holder; `ImplementsGrant`
maps the approval rows to it.

### WebhookDeliveries

Each attempt is `MarkSending`, `Send`, `Record`, run by an emit's inline loop or
by the worker: the same three actions with a different actor, as in the code.
`seen` is the attempt count an actor read with its delivery and writes back with
its result. Signatures and the rotation of the secret are left out.
`BeginRetry`/`GiveUp` are the worker loop with the webhook that is gone or
disabled. A wait of the backoff table is the state `"later"` and `BackoffPasses`;
the table has `Backoffs` waits, and `Exhausted` is both of its conditions:
`maxAttempts` reached, or no wait left, so `Limit` is the smaller of the two.
`Send` counts a try, which is a request unless `deliverHttp` finds the address
blocked (`automation.ts:129-131`) and answers "not delivered" without one.
`AttemptFails` is a statement of an attempt that fails; `EndInline` is the end of
the loop.

### Schedules

Time is counted in half minutes so that "the last second of a minute" is an
instant of its own; a cron expression is the set of minutes it matches.
`List`, `Invoke`, `MarkRun` are a pass over a snapshot; when `nextRunFor` throws
the whole pass ends. `MarkRun` is the recording, by its first try or by the second
one in the catch (`service.ts:268-271`); `MarkFails` is both of them failing, which
ends the pass with the row as it was (`unmarked`). `ReadPatch`/`WritePatch` and `ReadTrigger`/`WriteTrigger`
are the two-statement handlers, which write what they computed before. `crossed`
are the schedules two of whose triggers were under way at once.

### UploadSessions and ObjectStorage

`UploadSessions` is one session: `OpenPart`, `PutPart`, `ReadForPart`,
`RecordPart` are `uploadPart` with the read and the write of `recordUploadPart`
apart; `OpenComplete`, `Assemble`, `Upload`, `SettleUpload`, `Clean`, `Finish` the
complete. `Upload` is its upload up to the write of the bytes; `SettleUpload` what
follows: the row, or the discovery that the bytes are over the quota, upon which
they are deleted at their key, also when another complete of the session stored
them (`overshot`). The
delete of a part may fail unseen (`Clean`); any other failing call ends its
request (`Fail`), but a failing last write of a complete makes it clean up and
finish once more, as aborted (`FinishFails`, the `catch` at `service.ts:559`).
`ObjectStorage` is one bucket: `OpenUpload`, `ReadUsage`, `Put`, `Undo`,
`SelectRow`, `WriteRow` are `upload` (and the signed PUT); copy and move share
`CheckDest`, `Copy`, `SelectRow`, `WriteRow`, and a move ends with `Unlink` and
`Forget`, the steps of a remove. Content is named by the upload that brought it,
and `Fail` ends a request whose call throws. `doubled` are the moves that wrote
their copy and did not remove the row they had read; `Total` is the `SUM` of
`usage`, as the size of a set of bytes. A complete's own upload is two steps
in `UploadSessions`; its statements are those of `ObjectStorage`.

### CustomerSessions

One user of a project and everything that opens, keeps or ends a session of it.
`SignIn`, `CreateSession`, `Respond` are `signInWithPassword` and `issueSession`:
the user is looked at once, the row is inserted later. `Refresh`, `CheckUser`,
`MarkUsed`, `Touch` are the four statements of `refreshSession`; `used` is the
bounded list of retired hashes, `RevokeReused` what a retired token leads to.
`AskLink`/`SaveLink`, `FindLink`, `ConsumeLink` are the life of a one-time link.
`SetPassword`, `RevokeAll`, `DeleteLinks` are shared by a change and a reset, as
in the code; `SetStatus` begins what an administrator does. `handed` are the
refresh tokens that reached a client; a restart before `Respond` loses a reply.

### FunctionDeploys

Functions live in maps of one process, so each action is the code up to the next
await. `DeployFunction` makes the job and guesses the version; `Built` runs when
the probe answers and finds or pushes the version; `Activate` switches to it;
`BuildFails` is every error of the pipeline. A pipeline holds on to the object of
its function, so it goes on after `DeleteFunction`. `Invoke` to `Finish` is an
invocation with its await on the rate limit before the concurrency check.

### Billing

`Deliver` to `SetPaid` is `applyProviderEvent` for a payment, statement by
statement; `Record` inserts or finds the event row and goes on in either case.
`ReadSub`, `Create`, `Expire` are `getSubscription` with `reconcile`, which plan
changes, cancellations, subscription events and invoices all begin with; the
handlers end by writing a whole row back. `CountInvoices`/`InsertInvoice` are the
number of an invoice and its insert, which fails when the number is taken: by the
organization itself, or by another, whose invoices the model does not follow and
lets interfere at any time. `intent` records what each write meant to
change, which is less than what it writes.

### RealtimeGateway

A request is a text frame; `HandleText` finds the connection and awaits the rate
limit, and the other actions are what comes after each await. `Drop`, `DropNext`
and `DropRemove` are `drop`, whose loop awaits a removal for each channel of a set
that other handlers still change. `After` is the order in which a JavaScript `Map`
is iterated while it changes. Presence entries are pairs of channel and user,
as in Redis; `RoomExpires` is the time to live of a channel's hash. A command that
fails inside `Track`'s pipeline does not reject it, so the frame goes on and
answers `tracked` without an entry; a connection that fails ends it.

## 3. The runs

One run per module checks all that holds of it. Deadlock is not checked in any of
them: every system here may come to rest when all its requests have been served.

| run | bounds | shows |
|---|---|---|
| `Provisioning` | any 3 of: 2 creates, of two slugs with one name under one key, 1 re-provision, 1 delete; 1 failing statement of the provider or the control plane, 1 restart, 2 attempts | `SavedCredentialOpens`, `TerminalIsFinalUnlessShared`, `AcceptedJobsSettle`, `CompletedIsRecorded`, `StaleJobsAreReaped` |
| `AutomationQueue` | 2 publishes of one key, 2 consumers, limits 1 and 2, 2 deliveries and 1 in excess, a listing window of 1 | `ExcessIsAccountedFor`, `KeepsPromise`, `EveryMessageSettles` |
| `AgentApprovals` | 3 requests for one operation and 1 for another, 1 decision, 1 rotation, 1 restart | `RunsAsApproved`, `ImplementsGrant` |
| `WebhookDeliveries` | 1 event or 1 test to a webhook, `maxAttempts` 4 against a table of 2 waits, 1 restart or failing statement of each process | `OutcomesAreEarned`, `TriesAreBounded`, `EveryDeliverySettlesUnlessWedged` |
| `Schedules` | 2 schedules, an expression for every minute and one without a second minute, a pass limit of 1, 1 patch or trigger, 1 run whose recording fails, 1 restart, 2 minutes | `CronTypeOK`, `RepeatsHaveAReason`, `DueRunsAreInvoked`, `DueSchedulesFire` |
| `UploadSessions` | 2 parts and a retry, 2 completes, 1 abort, 1 failed call or restart, any failed deletes | `ObjectHasNoGap`, `CompletedHasObject`, `AckedPartsAreKept` |
| `ObjectStorage` | 3 uploads, 1 each of copy, move, remove, drop; 1 to 3 at a time; 1 failed call or restart | `RowsDescribeBytes`, `NoStrayBytes`, `OvershootIsBounded`, `GoneBucketsAreEmpty` |
| `CustomerSessions` | any 4 of: 1 sign-in, 2 magic-link sign-ins with one link, 3 refreshes, 1 change, 1 reset, 1 status update, 1 delete, 1 sign-out; 2 retired hashes, 1 restart | `SessionsProveThePassword`, `ClosedUsersHaveNoSession`, `TokensAreCurrentOrRetired`, `ReuseMeansShownTwice`, `SpentLinksAreNotFound` |
| `FunctionDeploys` | 1 function, any 3 of 3 deploys and 2 invocations, 2 good builds and a broken one, 1 key, a concurrency of 1, 1 restart | `ReadyIsVerified`, `NewestDeployDecides`, `InFlightIsExact`, `DeploymentsSettle` |
| `Billing` | any 4 of: 3 deliveries of 3 payment and 2 subscription events, 2 invoices of 2 payments, 1 plan change, 1 cancellation; 1 failed statement or restart; a trial of 1 and a period of 2 in time 2 | `BillingTypeOK`, `PaidIsCovered`, `RecordedIsApplied`, `RowFollowsIntent` |
| `RealtimeGateway` | 2 connections of one user, a table and another channel, 3 frames, 1 change, 1 subscription each, 1 failed presence call | `PresentMeansListening`, `OvershootHasAReason`, `SteadySubscribersAreServed` |

What they establish, in the terms of the code:

* `SavedCredentialOpens`: no order of two drivers, a namesake, a re-provision,
  faults and a rollback leaves a saved password that the role does not have.
  Only a delete spoils it: of the project, or of a namesake, earlier or present,
  that had a hold on the name when the project's role was created.
* `TerminalIsFinalUnlessShared`: the reaper, late steps and restarts never take
  a row out of `completed` or `failed`; only the driver's own catch does, which
  fails a completed row when the statement after it has failed.
* `KeepsPromise`: no accepted message is lost, whoever answers it.
  `ExcessIsAccountedFor`: each delivery beyond `maxDeliveries` is due to a lease
  that expired unanswered once they were used up, or to a requeue that had read
  the row before. Nobody else's nack raises that number by itself: `nack` looks
  at the count.
* `EveryMessageSettles`: lapsing leases, requeues and answers of members who hold
  nothing do not keep a message in the queue for ever.
* `ImplementsGrant`: of several requests that show one approval, one runs.
* `OutcomesAreEarned`: `failed` means as many tries as `maxAttempts` and the
  table of waits allow, or that the webhook was off.
* `TriesAreBounded`: an inline attempt and the worker's retries may overwrite
  each other's attempts list, which is set back at most once: there are at most
  twice that many tries, and one more for each restart of the worker or result it
  failed to record. A try is at most one request.
* `EveryDeliverySettlesUnlessWedged`: the only delivery that never ends is one a
  process marked `sending` after another had settled it, and then stopped or failed
  to record.
* `RepeatsHaveAReason`: a minute is invoked twice only after a restart, when its
  recording failed twice, or when a trigger or PATCH wrote back a next run computed
  earlier.
* `DueRunsAreInvoked`: whatever moves `nextRunAt` past a due minute, that minute
  has been invoked, or a manager changed the expression, or two triggers of the
  schedule overlapped.
* `RowsDescribeBytes`, `NoStrayBytes`: rows and bytes agree when requests follow
  one another, except where an upsert over the quota has lost what it replaced.
* `OvershootIsBounded`: each request that overlaps the last one adds at most one
  object to the quota, and a move that left its object at both ends adds that;
  what was moved then may be moved again, so moves have no common bound.
* `GoneBucketsAreEmpty`: a request that looked its bucket up before the deletion
  leaves no row in it.
* `CompletedHasObject`: however two completes, aborts and faults overtake each
  other, a session says `completed` only with its object in place, unless another
  complete over the quota deleted it.
* `AckedPartsAreKept`: an acknowledged part that the object lacks was put while
  another part was between reading and writing the list; nothing else loses one.
* `SessionsProveThePassword`, `ClosedUsersHaveNoSession`: a password change, a
  reset, a disabled or deleted user end every session, but one that a sign-in
  inserts after the revocation, having passed its check before it.
* `TokensAreCurrentOrRetired`, `ReuseMeansShownTwice`: neither a restart in the
  middle of a rotation nor a lost reply makes an honest client look like a
  thief; two rotations of one token may make one unknown.
* `SpentLinksAreNotFound`: two requests use one link only if both had found it
  before either consumed it.
* `ReadyIsVerified`, `NewestDeployDecides`: overlapping pipelines, failures and
  deletes never leave a function ready on a source that did not load; once all
  have settled the newest decides, unless an older one ended after it.
* `InFlightIsExact`: deletion, failure and time-outs never make the counter drift.
* `PaidIsCovered`, `RecordedIsApplied`: repeated and overlapping events neither
  pay an invoice with one payment twice (but for events without a payment id)
  nor leave a covered one open (but after a fault, as section 4 says).
* `RowFollowsIntent`: the whole-row writes lose a change only when the row was
  written between the read and the write.
* `OvershootHasAReason`: the limit of subscriptions is passed only by a subscribe
  that another overtook between its check and its add, or by `presence.set`, which
  does not check.
* `PresentMeansListening`: unsubscribing and disconnecting take presence away
  whatever they overlap, with the exceptions the property names.
* `SteadySubscribersAreServed`: who is subscribed throughout a fan-out gets it.

One run finds a violation. It checks what a comment of the repository says; the
counterexample is the code's behaviour, and the quote is under `findings` in
`PROJECT.json`.

| run | property | what happens |
|---|---|---|
| `Provisioning_orphan` | `OrphansAreReaped` | a restart leaves a row `running`, which the reaper does not list |

### Why the bounds are enough

Every race met so far is one of two handlers, or of a handler and the worker,
over one row; a third party adds the conflict a winner and a loser have with
someone who comes later. So each run has two or three of each contended request
and one of each that only has to come in between. Two attempts separate "will
be retried" from "was the last"; the webhook's three (two waits) add a middle one.
One key, one bucket, one session, one user, one organization are enough where the
code never relates two of them; names it does relate. One restart separates before
and after; the invariants of the proofs do not depend on the number.

* `AutomationQueue`: a listing window of 1 puts the second message beyond the
  rows that `ack` and `nack` search, limits 1 and 2 tell the rows leased from the
  rows returned. Delivery counts and `excused` stop one above `MaxDeliveries`; the
  theorem has any `Excess`.
* `WebhookDeliveries`: deliveries of different webhooks meet only in the worker's
  list, which takes them one by one; one webhook keeps the run small, so a fan-out
  to several, which one failure ends (section 4), is in the model and not in
  the run. Tries are counted up to one above what `TriesAreBounded` allows.
* `Schedules`: in two minutes a run can be repeated or passed over. The horizon
  lies behind the clock's bound, so the rare expression, and only it, runs out.
* `ObjectStorage`: `limit`, chosen once per behaviour, is how many requests its
  clients have under way at once. A large upsert onto a smaller object, a copy
  and an upload onto one path, and a quota that two objects exceed are all in the
  one instance. It has one move; `TheQuotaIsNearlyKept` covers several.
* `Provisioning`: two slugs of one name in one organization, under one key, are the
  worst case in one instance: the row can be shared and the database too. One slug
  in two organizations (`TwoOrgs`), where only the database is, gives the same steps
  with fewer requests meeting. One delete, since two exceed what a run can explore; the second
  delete of `SavedCredentialOpens` is covered by its theorem, as are the two
  overlapping triggers of `DueRunsAreInvoked`: the run `Schedules` has one.
* `CustomerSessions`: four requests hold a sign-in, a rotation, a second rotation
  of the same or the next token, and what revokes them; a list of two retired
  hashes is full after three rotations, which three refreshes reach.
* `FunctionDeploys`: three requests are two pipelines and the deployment, or the
  invocation, that comes between or after them; `f1` can be deleted under all of
  them. Two good builds tell an older version from a newer one.
* `Billing`: `e1` and `e2` announce one payment under one id, `e3` another without
  an id, so an invoice of two payments can be paid rightly, or by a wrong count.
* `RealtimeGateway`: two connections of one user are what presence confuses; a
  limit of one subscription is overtaken by the second frame; a fan-out that has
  one connection behind it has one more to come.

Requests of one kind that nothing orders are symmetric in `AgentApprovals`,
`UploadSessions`, `CustomerSessions`, `Billing` and `RealtimeGateway`, which check
safety only (`ImplementsGrant` is a refinement without fairness).

### Fairness

`FairSpec` adds weak fairness of each step of a handler that has begun, of each
step of the worker, and of time (lease expiry, backoff, ageing, the clock). An
awaited call returns or throws, node runs every ready continuation, and the
worker polls in a loop. Nobody is obliged to send a request, no manager to
decide, disable or delete, and nothing has to crash. In `AutomationQueue`
consumers are fair, since a queue nobody reads settles nothing: again and again
some consumer polls, and a message that is handed out again and again is answered
once by one who holds it, before its lease expires or after. Nobody is obliged to
answer a message off the list, and everybody may at any time. In `FunctionDeploys` the steps of
each pipeline are fair: its probe has a time limit, and nothing else in it waits
for anybody. `Schedules` stops the clock at
`MaxTime`, so `DueSchedulesFire` speaks of runs that are due then.

`AcceptedJobsSettle` and `CompletedIsRecorded` excuse behaviours with a restart:
a driver that dies leaves its row to the reaper, which does not list `running`
(`Provisioning_orphan`). The same holds of a driver that a failing statement ends.

## 4. Deviations met while modelling

Besides the one that a run shows, these follow from the modelled code and are
what the passing properties make exceptions for, or stay clear of:

* `jobs-drizzle.ts:42`: `create` hands any row with the key to a request that is
  not its owner; the second driver takes a completed row back to `running`.
  `orchestrator.ts:178-205`: a statement that fails right after `completed` was
  written makes the catch write `failed` over it, the record is never saved, and the
  database stays. `projects.ts:377`: two requests with one key and two slugs that both look it up
  before either inserts make two projects.
* `projects.ts:616`: a project deleted before its database record exists keeps
  database and role. `managed-provider.ts:404`: of two deletes of one project
  the slower drops, by name, the database of the project made after the first.
  `validation.ts:72-78`: names are cut to forty characters of the slug and `-`
  becomes `_`, and slugs are unique in an organization only (`schema.ts:183`), so
  two live projects may have one database name. `CREATE ROLE` then serves as the
  lock: the second project's attempts all fail, and the first one's credential
  stays good. What breaks it is a second or repeated delete of a project whose
  database is gone while its record is not: it drops the namesake's.
  `worker.ts:72`: a restart between `CREATE ROLE` and the saved record makes
  every fresh attempt fail.
* `store-drizzle.ts:164`: two concurrent publishes with one key store two rows.
  `store-drizzle.ts:196`: a consume request leases all eligible rows and returns
  `limit` of them. `service.ts:190`: messages past the 1000 oldest rows cannot be
  acked or nacked. `automation.ts:402-410`, `service.ts:166-194`: ack and nack
  carry no lease and no consumer; any member may settle a message that nobody was
  handed, requeue one that another works at, or reopen one that was acked. Since a
  nack reads, then writes, a message delivered in between is queued again with its
  deliveries used up: `maxDeliveries` is exceeded although no lease expired.
* `agents/src/service.ts:134`: two concurrent rotations leave two valid tokens;
  `:298`: an approval is consumed before the operation runs, and stays so if
  it does not. `worker.ts:367`: the poll gives maintenance no organizations, so an
  approval that nobody looks at stays pending after its time.
* `automation/src/service.ts:358`: one deleted webhook ends the fan-out to the
  rest; `:384`: a request sent after a rotation can carry the old signature;
  `:408`: the loser of an overlap overwrites a recorded success. `:406`: the table
  has six waits, so a webhook with `maxAttempts` 8 to 10 fails after 7 attempts; an
  address that is blocked uses attempts up without a request
  (`automation.ts:129-131`).
* `automation/src/service.ts:262`: a schedule without a run in the next year ends
  every pass at its place; a pass in a minute's last second skips the next
  minute; `:264`: a worker that stops during an invocation, or whose recording
  fails twice (`:268-271`), invokes the minute again. The comment at `:261` and
  docs/automation.md (32-34) say that the next run is advanced before the function
  is invoked and no minute is fired twice; the code advances it afterwards. `:265`: a run's record overwrites the next run of a PATCHed expression.
  `automation.ts:451`: two triggers that overlap the worker put an old run back
  and then, while the worker is at that, a newer one that nobody has run.
* `storage/src/service.ts:507`: a part put after an abort stays; `:235`: an
  upsert over quota deletes the object that was there, so of two completes of one
  session the second, refused for the quota, deletes the bytes of the first, and
  the session ends `completed` without an object; `:190`: an upload between
  count and delete of a bucket is dropped; `:689`: a move deletes a newer source
  than it copied; `:674`: a move looks at no quota, so moves that are cut off
  after their write, or that read one source at once, multiply the usage.
  `metadata-drizzle.ts:166`: of two uploads without upsert one
  replaces the other; `:385`: of two parts recorded at once one is not in the
  list, though both were acknowledged, and a complete leaves it out if it was
  the last.
* `customer/service.ts:472`: a sign-in that passed its check before a password
  change, or before its user was disabled, opens its session after the
  revocation; `:321`: of two rotations of one token one hands out a token that no
  session knows; `:669`: two requests that both found a link both use it.
* `functions/src/service.ts:390`: of two deployments the last to finish is active,
  also when it was asked for first; a failed deployment refuses invocations
  although an earlier version is active; `deleteFunction` deletes the sources of
  no version, for their keys hold more than the function's id.
* `billing/src/service.ts:657`: a restart, or a failed statement, after an event
  is recorded drops its effect, since the redelivery is ignored; an event
  without a payment id that is delivered twice at once is paid twice; `:709`:
  events, cancellations and expiries put back a row that a plan change replaced
  meanwhile. `:535`: invoices are numbered by the organization's count, and numbers
  are unique over all organizations (`schema.ts:653`), so one organization's invoice
  makes another's insert fail. A payment id is looked up with its provider and
  unique by itself (`schema.ts:683`).
* `realtime/src/gateway.ts:379`: a presence that is tracked while its connection
  is dropped stays until its channel expires, although docs/realtime.md says a
  disconnect removes it; the limit of subscriptions is passed by `presence.set`,
  which joins a channel unchecked, and by a subscribe that another frame overtakes
  between its check and its add (`:251`); a tracking whose `HSET` failed within its
  pipeline still answers `tracked` (`presence.ts:81`); presence
  belongs to a user, so one connection's leave takes another's away.
  `presence.ts:6` says that a heartbeat refreshes the time to live: only
  tracking does.

## 5. What is proved

The theorems hold for every value of the constants: any number of requests,
consumers, webhooks, schedules, invoices, connections, parts, sizes, deliveries,
faults and restarts. The only assumptions are `ConstantsAssumption` of each module
(`CronAssumption`, `BillingAssumption`, `GatewayAssumption`): which names are
apart, which numbers are natural; that publishes, parts, storage requests,
deliveries, connections and frames are finitely many, that each part has an index,
that builds that do not load are builds, that no object is larger than
`defaultMaxFileBytes`. TLC evaluates them on every run.

* `ProvisioningProofs` - `TypeCorrect` and `TerminalRowsStayTerminal` (the
  theorem of `TerminalIsFinalUnlessShared`). A step may only change a terminal
  row if it does so unguarded, and the driver's writes are. So the invariant
  says who may write what: `DrivenIsOpen` (the row that a driver works on is
  open unless it is shared, or completed and its drive is `Closing`, and a driver
  gives up only when a statement failed), `StaleIsOrphan` (a row the worker has
  listed is pending or retrying and no driver of it is left, so reaping it takes
  nothing from a terminal row), `FreshHasNoRow` (a request that has not yet inserted
  has no row) and `DeleteRow` (where a delete stands fixes its own row).
  `Overturned` is the one exception, the catch.
  `SavedCredentialsOpen` rests on `CredInv`. Several drivers may be on one name, of
  one project or of namesakes; the argument is that a name is a lock, which
  `CREATE ROLE` takes: only the request whose password the role has gets past it. A
  project `Holds` its name when the role was made for it, undisputed, and no delete
  of it has begun its job. Then nobody disputes it any more (`Undisturbed`): a
  namesake cannot get a record, for its drivers stop at the role, and so no delete
  of one reaches the database. What a driver has verified therefore stays open until
  it is saved and after (`VerifiedStaysOpen`).
* `AutomationProofs`, the queue - `TypeCorrect`, `ExcessAccountedFor` and
  `ImplementsAcceptedMessages`, the refinement: `Init` maps to `Init`, and each step
  to a step or a stutter of `AcceptedMessages`. `RowInv` says that a row is stored
  once, `RequestInv` that a late answer writes a status that ack and nack write.
  `ExcessAccountedFor` rests on `BudgetInv`: a message that is `Deliverable`
  (queued, leased without a lease, or about to be requeued) has a delivery left of
  its budget with what is excused. A nack decides `queued` only with deliveries
  left; what may use them up before it writes is a delivery, which is then excused,
  and what makes a leased message deliverable is an expiry, which is too.
  The schedules - `CronTypeCorrect`, `RepeatedRunsHaveAReason` and
  `DueRunsAreInvokedFirst`. `PassInv` says that the worker's list has one entry for
  each schedule and that nothing later than the list was invoked since. `LeftInv`:
  a run that was invoked has left the row and the list, or is being marked,
  unless a restart, a recording that failed or a request that read it brings it
  back. `HeldInv` orders the
  three places a run is held in: a trigger's copy is no later than the row, the row
  no later than the worker's entry, and what is earlier was invoked; this is what
  two triggers break, which the first attempt at the proof showed. That a next run
  exists is the least element of a set of minutes (`LeastNatural`).
* `ControlPlaneProofs`, the approvals - `TypeCorrect`, `OperationsRunAsApproved` and
  `ApprovalsAreOneTimeGrants`, the refinement of `OneTimeGrant`. `HolderInv`
  says that between `MarkConsumed` and `Execute` exactly one request holds a
  consumed approval and that it shows its own operation and token;
  `DecisionInv` that a decision works on a row it may still find changed;
  `ApprovalInv` and `RequestInv` tie rows to the request that made them.
  Billing - `BillingTypeCorrect`, `PaidInvoicesAreCovered`,
  `RecordedPaymentsAreApplied` and `TheRowFollowsIntent`. `IdInv` and `RacedInv`
  say that two rows of one payment come only from deliveries without an id that
  met; `CoverInv` that who is about to set an invoice paid has rows that cover it;
  `AppliedInv` and `SumInv` follow a recorded event to its row and the row to the
  delivery that will sum it, so of the deliveries of one invoice the last to insert
  finds them all. `CopyInv` and `IntentInv` are about the whole-row writes.
* `MessagingProofs`, the webhooks - `TypeCorrect`, `FinalStatusesAreEarned` and
  `TriesStayBounded`. `ActorInv` says whose attempt is under way (an inline
  one belongs to its emit and is made once; the worker's is off its list).
  `EarnedInv` says that attempts recorded, listed or read were tried.
  `CountInv` is the converse, an account of the tries that an attempts list
  lacks: `Late` is the worker's try not yet recorded, `Overwritten` what
  the inline attempt wrote over (0 before its try, 1 until its record, at
  most `Limit` after it), and each restart or failing record may lose one. Every step keeps
  the account, because nothing begins an attempt on a list that is full.
  The gateway - `GatewayTypeCorrect`, `ThePresentListen`, `OvershootsHaveAReason`
  and `SteadySubscribersGetTheChange`. `Accounted` names, for each presence entry,
  who will still take it away: a connection that listens, one that is leaving and
  has not passed that channel, a frame that holds the entry, or the exception;
  each step hands the entry from one to the next. `RoomInv`: a subscription that
  nobody overtook still has its room. `SteadyInv`: until a fan-out ends, a steady
  subscriber has the change or stands no earlier in the map than the fan-out,
  which a removal does not change, since positions of others stay in order.
* `UploadSessionsProofs` - `TypeCorrect`, `ObjectsHaveNoGap`,
  `CompletedSessionsHaveObjects`, `LiveSessionsKeepTheirParts`,
  `AcknowledgedPartsAreKept` and `ReceivedBytesAreTheParts`. `EndInv` follows a
  complete from the list it checked to the object it stored and the verdict it
  writes, which is `completed` only while the object is there or another complete
  is in `overshot`; `KeptInv` says that until something cleans the session, the bytes of a
  part are there before the part is listed. `PartInv` is about lost updates: the
  row and what an unfinished request has read of it are both `Plausible`, that
  is a list and a count that agree unless a part was sent again, so it does not
  matter which of them is written last. `AckedInv` follows an acknowledged index
  through the row, the lists that will be written back and the lists of
  completes: it leaves them only by a request that met another.
* `ObjectStorageProofs` - `TypeCorrect`; `DeletedBucketsAreEmpty`: only an
  insert makes a row (`RowStep`), and the foreign key refuses it once the bucket
  is gone; `RowsKeepTheirBytes` and `NoBytesWithoutRow`: `SeqInv` says that of
  requests that do not overlap at most one is under way, that every path is
  `Described` but the one it is `Touching`, and what it has read (`Mid`), so
  that its next write is not refused. `Solo` and `SoloEnd` are that argument for
  any step. `TheQuotaIsNearlyKept` is about requests that do overlap. `Admitted` are
  the uploads and copies whose comparison lets them add their object. `RoomInv`
  says that the usage leaves room for one largest object for each of them but
  one, and for that one its own: the one measured last, or nobody has been since.
  A write uses up what its request had reserved, a move adds as much to `doubled` as
  to the usage. The sums are sizes of finite sets, so the library's facts about
  cardinality carry the proof (`TotalChange`, `TotalMonotone`) and no induction is
  needed. The attempt to prove an earlier form, which counted moves whose object is
  at both ends now, failed for a reason: a copy left by a move that was cut off can
  itself be moved, and then nothing in the state tells.
* `CustomerSessionsProofs` - `TypeCorrect` and the five properties of its run.
  `OpeningInv`: an opener past its check proves the present password and status,
  or is in `late`, or somebody who wrote the user has yet to revoke; a live
  session inherits that from its opener. `TokenInv`: tokens issued are known,
  and a rotation about to replace the current one has retired the one it was
  shown. `ShownInv`: a retired token was shown, and one refused as reused was
  shown by another. `LinkInv`: a link that somebody has got past spending is not
  live.
* `FunctionDeploysProofs` - `TypeCorrect`, `ReadyMeansVerified`,
  `InFlightCountsExecutions` and `NewestDeploymentDecides`. `ListInv` says what
  each version holds (one stored source, the build it was made of, which
  loads), `JobInv` that a pipeline past its build has its version in that list,
  `ActiveInv` and `ShotInv` that a ready function and an invocation under way
  have such a version; so it does not matter which pipeline ends last.
  `FlightInv` counts the executing invocations as they begin and end.
  `AskedInv` says that the jobs asked of a function are its own and that its
  pipelines under way are among them; the job that settles last then either is
  the newest or marks the function as disturbed.

The proofs have one step for each action; TLC checks the same properties
first on the runs above, and the invariants were checked on them before they were
proved.

Only model-checked is liveness, which is not within the prover's reach:
`AcceptedJobsSettle`, `CompletedIsRecorded` and `StaleJobsAreReaped` of
`Provisioning`, `EveryMessageSettles`, `EveryDeliverySettlesUnlessWedged`,
`DueSchedulesFire` and `DeploymentsSettle`. Only proved are the type invariants of
the modules whose runs leave them to their theorems, `ReportedPartsExist` and
`ReceivedAreTheParts`.

## 6. What is not modelled

* In-memory stores. They are for tests and development; the modelled ones are
  the Drizzle stores, where several processes meet. Functions have no other.
* Several API processes: handlers of two processes interleave like handlers of
  one, since no modelled handler shares memory with another. A restart of one
  of several is covered less well: here it takes all handlers with it.
* The order of the passes in a poll, and so the effect of an exception of one
  pass on those behind it.
* Validation, permissions, formatting, audit rows, metrics.
* Of customer auth: sign-up and verification, second factors, codes by phone,
  passkeys, identity providers, anonymous users; they end in the modelled
  `issueSession`. Of functions: `updateFunction`, variables and secrets, logs, the
  rate limit's own window, the Docker runtime. Of billing: usage, warnings,
  budgets, credits, checkout, refunds, the worker's pass. Of realtime: broadcast,
  join and leave messages, filters and row policies, heartbeats, metrics, Redis
  between gateways. A gateway that stops leaves its presence entries in Redis until
  their channels expire; `PresentMeansListening` is about one that runs, and does not
  hold across a stop.
* Other organizations and providers of `Billing`: a payment id that another of them
  has used makes the insert throw after the event was recorded (the model has that
  end as `Fail`, and not its cause).
* Users who choose equal passwords; each request that sets one sets another.
* Failing statements of the worker's reaper: the row stays for the next pass, a
  step that the model has.
* Rotation of a webhook's secret, changes of its url and events, and of
  `maxAttempts` between two attempts of a delivery.
* The text of cron expressions (a set of minutes), the bytes of objects, SQL.
* The components marked `not_modelled` in `PROJECT.json`, with the reasons there.

## 7. Plan

Done: modules 1-11 below. Each is composed by what it shares with others only
through an abstraction (an upload is two steps in `UploadSessions`).

1. `Provisioning`, its proofs
2. `AutomationQueue` against `AcceptedMessages`, its proofs
3. `AgentApprovals` against `OneTimeGrant`, its proofs
4. `WebhookDeliveries`, its proofs
5. `Schedules`, its proofs
6. `UploadSessions`, its proofs
7. `ObjectStorage`, its proofs
8. `CustomerSessions`, its proofs
9. `FunctionDeploys`, its proofs
10. `Billing`, its proofs
11. `RealtimeGateway`, its proofs

Next, in this order:

12. `DatabaseLifecycle` with branches and migrations: status against the provider,
    what a delete promises before the database record is there; the Docker
    provider as a variant of the provider steps of `Provisioning`.
13. `LogDrain`, the backup cycle and the poll loop around the passes.
14. `PlanLifecycle` of the AI builder; `RateWindow`; agent scopes as operators
    against a reference definition.

Theorems to come: with each of these modules its safety properties. Of the
modules there are, what the liveness properties rest on and the prover can state: in
`Provisioning`, that a handler under way can always take its next step.
